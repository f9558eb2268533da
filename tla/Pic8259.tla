------------------------------ MODULE Pic8259 ------------------------------
(***************************************************************************)
(* The two cascaded 8259 interrupt controllers of a PC, seen through the   *)
(* ports the kernels of this repository write: 0x20/0x21 (master) and      *)
(* 0xA0/0xA1 (slave, on line 2 of the master).  The chips are external     *)
(* hardware; they are modelled from the way efi-boot/pic_timer.c,          *)
(* legacy/kernel/arch/i386/cpu/pic.c and legacy/kernel-c/drivers/pic.c     *)
(* program and acknowledge them.                                           *)
(*                                                                         *)
(* A pair is a record [m |-> chip, s |-> chip].  The module has no state   *)
(* of its own: a kernel keeps a pair in one of its variables.              *)
(***************************************************************************)
EXTENDS Integers

PIC1_COMMAND == 32    \* 0x20
PIC1_DATA    == 33    \* 0x21
PIC2_COMMAND == 160   \* 0xA0
PIC2_DATA    == 161   \* 0xA1
PIC_EOI      == 32    \* 0x20: non-specific end of interrupt
PIC_INIT     == 17    \* 0x11: ICW1, with ICW4 to follow

Ports == {PIC1_COMMAND, PIC1_DATA, PIC2_COMMAND, PIC2_DATA}
Bytes == 0..255
Lines == 0..7
IRQs  == 0..15
CASCADE == 2

Chip == [imr  : SUBSET Lines,     \* masked lines
         irr  : SUBSET Lines,     \* latched requests
         isr  : SUBSET Lines,     \* lines in service
         base : Bytes,            \* vector of line 0
         icw  : {0, 2, 3, 4}]     \* initialization word expected next, 0: none
Pair == [m : Chip, s : Chip]

(* The set bits of a byte. *)
BitsOf(v) == {i \in Lines : (v \div 2^i) % 2 = 1}

(* The lines of highest priority of a set: line 0 comes first. *)
Top(S) == {i \in S : \A j \in S : i <= j}

(* A write to the command port: bit 4 starts an initialization, which      *)
(* clears the mask, the latches and what is in service; 0x20 ends the      *)
(* interrupt of highest priority that is in service.                       *)
WriteCommand(chip, v) ==
  IF (v \div 16) % 2 = 1
  THEN [chip EXCEPT !.imr = {}, !.irr = {}, !.isr = {}, !.icw = 2]
  ELSE IF v = PIC_EOI
       THEN [chip EXCEPT !.isr = @ \ Top(@)]
       ELSE chip

(* A write to the data port: the vector base (ICW2), the wiring (ICW3) and *)
(* the mode (ICW4) of an initialization, and otherwise the mask.           *)
WriteData(chip, v) ==
  CASE chip.icw = 2 -> [chip EXCEPT !.base = v, !.icw = 3]
    [] chip.icw = 3 -> [chip EXCEPT !.icw = 4]
    [] chip.icw = 4 -> [chip EXCEPT !.icw = 0]
    [] chip.icw = 0 -> [chip EXCEPT !.imr = BitsOf(v)]

Outb(pic, port, v) ==
  CASE port = PIC1_COMMAND -> [pic EXCEPT !.m = WriteCommand(@, v)]
    [] port = PIC1_DATA    -> [pic EXCEPT !.m = WriteData(@, v)]
    [] port = PIC2_COMMAND -> [pic EXCEPT !.s = WriteCommand(@, v)]
    [] port = PIC2_DATA    -> [pic EXCEPT !.s = WriteData(@, v)]

(* A device pulls its line up: the request is latched. *)
Raise(pic, irq) ==
  IF irq < 8 THEN [pic EXCEPT !.m.irr = @ \cup {irq}]
             ELSE [pic EXCEPT !.s.irr = @ \cup {irq - 8}]

(* Whether the request of a line is latched. *)
Latched(pic, irq) ==
  IF irq < 8 THEN irq \in pic.m.irr ELSE irq - 8 \in pic.s.irr

(* The unmasked requests that nothing in service holds back. *)
Candidates(chip, requests) ==
  {i \in requests \ chip.imr : \A j \in chip.isr : i < j}

SlaveTop(pic) == Top(Candidates(pic.s, pic.s.irr))

MasterTop(pic) ==
  LET cascade == IF SlaveTop(pic) = {} THEN {} ELSE {CASCADE}
  IN  Top(Candidates(pic.m, pic.m.irr \cup cascade))

(* The interrupt the pair signals to the processor: none, or one. *)
Deliverable(pic) ==
  LET top == MasterTop(pic)
  IN  (top \ {CASCADE})
        \cup (IF CASCADE \in top THEN {i + 8 : i \in SlaveTop(pic)} ELSE {})

(* The processor takes the interrupt: the request is now in service. *)
Acknowledge(pic, irq) ==
  IF irq < 8
  THEN [pic EXCEPT !.m.irr = @ \ {irq}, !.m.isr = @ \cup {irq}]
  ELSE [pic EXCEPT !.s.irr = @ \ {irq - 8}, !.s.isr = @ \cup {irq - 8},
                   !.m.isr = @ \cup {CASCADE}]

VectorOf(pic, irq) ==
  IF irq < 8 THEN pic.m.base + irq ELSE pic.s.base + irq - 8

Idle(pic) == pic.m.isr = {} /\ pic.s.isr = {}
=============================================================================
