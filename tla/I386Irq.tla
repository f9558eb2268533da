------------------------------ MODULE I386Irq ------------------------------
(***************************************************************************)
(* Interrupts of the i386 kernel (legacy/kernel): kernel_main fills the    *)
(* IDT, moves the 8259 pair to vectors 32 to 47 with the masks it found,   *)
(* then masks everything but line 1, sets the interrupt flag, calls the    *)
(* stub of line 1 itself with int 33 and halts in a loop.                  *)
(*                                                                         *)
(* The two common stubs lead to different handlers: an exception goes to   *)
(* isr_handler, which looks into interrupt_handlers and panics when        *)
(* nobody registered; a hardware line goes to irq_handler, which ends the  *)
(* interrupt at the master and does nothing else.  Both run with the flag  *)
(* clear and are one step.                                                 *)
(***************************************************************************)
EXTENDS Pic8259, Sequences

CONSTANTS
  BiosMasks,    \* masks of the master that the boot loader may leave behind
  WithKeyboard, \* whether keyboard_initialize is called; kernel_main does not
  Faults,       \* exceptions the code of kernel_main may raise
  DeviceLines   \* lines raised by the timer and by devices nobody handles

ASSUME I386Assumption ==
  /\ BiosMasks \subseteq SUBSET Lines
  /\ WithKeyboard \subseteq BOOLEAN
  /\ Faults \subseteq 0..31
  /\ DeviceLines \subseteq IRQs \ {1, CASCADE}

VARIABLES
  pc,        \* where kernel_main is
  step,      \* next write to the pair
  kbd,       \* whether this kernel calls keyboard_initialize
  saved,     \* a1 and a2 of pic_remap
  pic,       \* the pair of 8259s
  gates,     \* vectors with a gate
  handlers,  \* interrupt_handlers: vectors somebody registered for
  full       \* the 8042 holds a scancode nobody has read

vars == <<pc, step, kbd, saved, pic, gates, handlers, full>>

(* The value read from a data port is the mask of that chip. *)
Inb(chip) == CHOOSE v \in Bytes : BitsOf(v) = chip.imr

(* GRUB enters the kernel with interrupts off, the pair where the BIOS put *)
(* it and, perhaps, with the request of a key latched.                     *)
Init ==
  /\ pc = "idt_install" /\ step = 1
  /\ kbd \in WithKeyboard
  /\ saved = <<0, 0>>
  /\ \E mask \in BiosMasks :
       pic = [m |-> [imr |-> mask, irr |-> {}, isr |-> {}, base |-> 8, icw |-> 0],
              s |-> [imr |-> Lines, irr |-> {}, isr |-> {}, base |-> 112, icw |-> 0]]
  /\ gates = {} /\ handlers = {}
  /\ full = FALSE

-----------------------------------------------------------------------------
(* kernel_main *)

(* memset and lidt: an IDT without a gate. *)
idt_install ==
  /\ pc = "idt_install"
  /\ gates' = {}
  /\ pc' = "isr_install"
  /\ UNCHANGED <<step, kbd, saved, pic, handlers, full>>

isr_install ==
  /\ pc = "isr_install"
  /\ gates' = gates \cup 0..31
  /\ pc' = "save"
  /\ UNCHANGED <<step, kbd, saved, pic, handlers, full>>

(* The two reads that begin pic_remap. *)
SaveMasks ==
  /\ pc = "save"
  /\ saved' = <<Inb(pic.m), Inb(pic.s)>>
  /\ pc' = "pic_remap"
  /\ UNCHANGED <<step, kbd, pic, gates, handlers, full>>

(* The writes of pic_remap(32, 40): ICW1 to ICW4, and the saved masks. *)
RemapWrites ==
  << <<PIC1_COMMAND, PIC_INIT>>, <<PIC2_COMMAND, PIC_INIT>>,
     <<PIC1_DATA, 32>>, <<PIC2_DATA, 40>>, <<PIC1_DATA, 4>>, <<PIC2_DATA, 2>>,
     <<PIC1_DATA, 1>>, <<PIC2_DATA, 1>>,
     <<PIC1_DATA, saved[1]>>, <<PIC2_DATA, saved[2]>> >>

pic_remap ==
  /\ pc = "pic_remap"
  /\ pic' = Outb(pic, RemapWrites[step][1], RemapWrites[step][2])
  /\ IF step < Len(RemapWrites)
     THEN step' = step + 1 /\ pc' = pc
     ELSE step' = 1 /\ pc' = "irq_install"
  /\ UNCHANGED <<kbd, saved, gates, handlers, full>>

(* The sixteen gates that irq_install sets after pic_remap. *)
irq_install ==
  /\ pc = "irq_install"
  /\ gates' = gates \cup 32..47
  /\ pc' = "mask"
  /\ UNCHANGED <<step, kbd, saved, pic, handlers, full>>

(* A mutant: everything is left as pic_remap restored it. *)
MaskWritesNone == << <<PIC2_DATA, 255>> >>

(* A mutant: line 1 is left to keyboard_initialize. *)
MaskWritesAll == << <<PIC1_DATA, 255>>, <<PIC2_DATA, 255>> >>

(* The writes that end interrupts_initialize. *)
MaskWrites == << <<PIC1_DATA, 255>>, <<PIC2_DATA, 255>>, <<PIC1_DATA, 253>> >>

interrupts_initialize ==
  /\ pc = "mask"
  /\ pic' = Outb(pic, MaskWrites[step][1], MaskWrites[step][2])
  /\ IF step < Len(MaskWrites)
     THEN step' = step + 1 /\ pc' = pc
     ELSE step' = 1 /\ pc' = IF kbd THEN "keyboard" ELSE "sti"
  /\ UNCHANGED <<kbd, saved, gates, handlers, full>>

pic_clear_mask(p, irq) ==
  LET open(chip, line) == WriteData(chip, Inb([chip EXCEPT !.imr = @ \ {line}]))
  IN IF irq < 8 THEN [p EXCEPT !.m = open(@, irq)] ELSE [p EXCEPT !.s = open(@, irq - 8)]

irq_register_handler(irq) ==
  /\ handlers' = handlers \cup {32 + irq}
  /\ pic' = pic_clear_mask(pic, irq)

(* The ring that is emptied here as well is in KeyboardRing. *)
keyboard_initialize ==
  /\ pc = "keyboard"
  /\ irq_register_handler(1)
  /\ pc' = "sti"
  /\ UNCHANGED <<step, kbd, saved, gates, full>>

interrupts_enable ==
  /\ pc = "sti"
  /\ pc' = "int33"
  /\ UNCHANGED <<step, kbd, saved, pic, gates, handlers, full>>

-----------------------------------------------------------------------------
(* The handlers *)

InterruptsOn == pc \in {"int33", "halt"}

(* A mutant: the end of interrupt is commented out with the rest. *)
irq_handlerNoEoi(p) == p

(* irq_handler tells the master, whatever the line was, and reads nothing. *)
irq_handler(p) == Outb(p, PIC1_COMMAND, PIC_EOI)

(* int 33 enters the stub of line 1 without the pair having asked. *)
Int33 ==
  /\ pc = "int33"
  /\ pic' = irq_handler(pic)
  /\ pc' = "halt"
  /\ UNCHANGED <<step, kbd, saved, gates, handlers, full>>

irq_common_stub ==
  /\ InterruptsOn
  /\ \E irq \in Deliverable(pic) :
       /\ VectorOf(pic, irq) \in gates
       /\ pic' = irq_handler(Acknowledge(pic, irq))
  /\ UNCHANGED <<pc, step, kbd, saved, gates, handlers, full>>

(* Nobody registers for an exception, so that each one is a panic: cli and *)
(* hlt, for ever.                                                          *)
isr_handler(v) == pc' = IF v \in handlers THEN pc ELSE "panic"

(* kernel_main faults once its gates are there. *)
isr_common_stub ==
  /\ pc \notin {"idt_install", "isr_install", "halt", "panic"}
  /\ \E v \in Faults : v \in gates /\ isr_handler(v)
  /\ UNCHANGED <<step, kbd, saved, pic, gates, handlers, full>>

-----------------------------------------------------------------------------
(* The devices: external *)

(* The 8042 takes a scancode only once the last one was read. *)
KeyEvent ==
  /\ ~full
  /\ full' = TRUE
  /\ pic' = Raise(pic, 1)
  /\ UNCHANGED <<pc, step, kbd, saved, gates, handlers>>

LineUp(irq) ==
  /\ pic' = Raise(pic, irq)
  /\ UNCHANGED <<pc, step, kbd, saved, gates, handlers, full>>

MainStep == \/ idt_install \/ isr_install \/ SaveMasks \/ pic_remap
            \/ irq_install \/ interrupts_initialize \/ keyboard_initialize
            \/ interrupts_enable \/ Int33

Next == \/ MainStep \/ irq_common_stub \/ isr_common_stub
        \/ KeyEvent \/ \E irq \in DeviceLines : LineUp(irq)

(* The processor executes kernel_main and takes the interrupts it is       *)
(* signalled.  Nobody has to press a key, and no exception has to happen.  *)
Spec == /\ Init /\ [][Next]_vars
        /\ WF_vars(MainStep) /\ WF_vars(irq_common_stub)

-----------------------------------------------------------------------------
TypeOK ==
  /\ pc \in {"idt_install", "isr_install", "save", "pic_remap", "irq_install",
             "mask", "keyboard", "sti", "int33", "halt", "panic"}
  /\ step \in 1..10
  /\ kbd \in BOOLEAN /\ full \in BOOLEAN
  /\ saved \in Bytes \X Bytes
  /\ pic \in Pair
  /\ gates \subseteq 0..47 /\ handlers \subseteq 0..47

(* Whatever masks the boot loader left and pic_remap restored, and         *)
(* whatever lines devices raise meanwhile, the only line that reaches the  *)
(* processor is line 1, on a vector that irq_install gave a gate.          *)
OnlyKeyboardDelivered ==
  InterruptsOn => /\ Deliverable(pic) \subseteq {1}
                  /\ pic.m.base + 1 \in gates

(* irq_handler ends at the master only; that is enough, because no line of *)
(* the slave gets through: nothing stays in service, also when int 33      *)
(* ends an interrupt that never began.                                     *)
ServiceDrained == Idle(pic)

(* The request of a key is served: the end of interrupt that int 33 sends  *)
(* while the key is pending does not consume it.                           *)
KeyServed == (InterruptsOn /\ Latched(pic, 1)) ~> (~Latched(pic, 1) \/ pc = "panic")
=============================================================================
