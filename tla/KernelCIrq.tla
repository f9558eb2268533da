----------------------------- MODULE KernelCIrq -----------------------------
(***************************************************************************)
(* Interrupts and keyboard of legacy/kernel-c: main installs the gates,    *)
(* remaps the 8259 pair twice (isr_install and pic_init), points gate 33   *)
(* at keyboard_isr, sets the interrupt flag and polls key_buffer in        *)
(* test_keyboard until the escape key is down.                             *)
(*                                                                         *)
(* Two stubs of interrupt.asm serve the hardware lines.  irq_common_stub   *)
(* calls irq_handler, which ends the interrupt; keyboard_common_stub calls *)
(* keyboard_handler, and nothing on that path ends the interrupt.  Both    *)
(* run with the flag clear (interrupt gates, and sti only takes effect     *)
(* after the iret that follows it), so each is one step.                   *)
(***************************************************************************)
EXTENDS Pic8259, Sequences

CONSTANTS
  Keys,        \* make codes of the keys a user may press
  HeldAtStart, \* those the user has held down since before the kernel runs
  DeviceLines, \* lines raised by the timer (0) and by devices nobody handles
  QueueSize    \* bound: scancodes waiting inside the keyboard

KEY_ESC == 1

ASSUME KernelCAssumption ==
  /\ Keys \subseteq 1..127
  /\ HeldAtStart \subseteq Keys
  /\ DeviceLines \subseteq IRQs \ {1, CASCADE}
  /\ QueueSize \in Nat \ {0}

VARIABLES
  pc,          \* where main is
  step,        \* next write to the pair
  pic,         \* the pair of 8259s
  gates,       \* which stub each hardware vector leads to
  key_buffer,  \* key_buffer: the keys seen down and not yet seen up
  last_scancode, \* last_scancode: 0 until keyboard_handler has run
  held,        \* the keys the user holds down
  kbdq,        \* scancodes waiting inside the keyboard, oldest first
  obuf         \* output buffer of the 8042: a scancode, or 0 when empty

mainVars == <<pc, step, gates>>
keyVars  == <<key_buffer, last_scancode>>
devVars  == <<held, kbdq, obuf>>
vars == <<mainVars, pic, keyVars, devVars>>

(* The writes of isr_install; those of pic_init are the same ten. *)
RemapWrites ==
  << <<PIC1_COMMAND, PIC_INIT>>, <<PIC2_COMMAND, PIC_INIT>>,
     <<PIC1_DATA, 32>>, <<PIC2_DATA, 40>>, <<PIC1_DATA, 4>>, <<PIC2_DATA, 2>>,
     <<PIC1_DATA, 1>>, <<PIC2_DATA, 1>>, <<PIC1_DATA, 0>>, <<PIC2_DATA, 0>> >>

Vectors == 32..47

(* The state in which the boot sector calls the kernel: interrupts are off *)
(* and the BIOS has left lines 0, 1, 2 and 6 of the pair open.  It has     *)
(* read what the keyboard had to say so far.                               *)
Init ==
  /\ pc = "isr_install" /\ step = 1
  /\ gates = [v \in Vectors |-> "none"]
  /\ pic = [m |-> [imr |-> {3, 4, 5, 7}, irr |-> {}, isr |-> {}, base |-> 8, icw |-> 0],
            s |-> [imr |-> Lines, irr |-> {}, isr |-> {}, base |-> 112, icw |-> 0]]
  /\ key_buffer = {} /\ last_scancode = 0
  /\ held = HeldAtStart /\ kbdq = <<>> /\ obuf = 0

-----------------------------------------------------------------------------
(* main *)

(* One write to the pair; after the last one control goes on to next. *)
Remap(here, next) ==
  /\ pc = here
  /\ pic' = Outb(pic, RemapWrites[step][1], RemapWrites[step][2])
  /\ IF step < Len(RemapWrites)
     THEN step' = step + 1 /\ pc' = pc
     ELSE step' = 1 /\ pc' = next
  /\ UNCHANGED <<gates, keyVars, devVars>>

isr_install == Remap("isr_install", "gates")

(* A mutant: the gates of the slave's lines are forgotten. *)
InstallGatesMaster ==
  /\ pc = "gates"
  /\ gates' = [v \in Vectors |-> IF v < 40 THEN "irq" ELSE "none"]
  /\ pc' = "pic_init"
  /\ UNCHANGED <<step, pic, keyVars, devVars>>

(* The sixteen set_idt_gate calls that end isr_install. *)
InstallGates ==
  /\ pc = "gates"
  /\ gates' = [v \in Vectors |-> "irq"]
  /\ pc' = "pic_init"
  /\ UNCHANGED <<step, pic, keyVars, devVars>>

pic_init == Remap("pic_init", "keyboard_init")

keyboard_init ==
  /\ pc = "keyboard_init"
  /\ key_buffer' = {}
  /\ gates' = [gates EXCEPT ![33] = "keyboard"]
  /\ pc' = "sti"
  /\ UNCHANGED <<step, pic, last_scancode, devVars>>

Sti ==
  /\ pc = "sti"
  /\ pc' = "test_keyboard"
  /\ UNCHANGED <<step, gates, pic, keyVars, devVars>>

(* A turn of the loop of test_keyboard: the other keys are only displayed. *)
test_keyboard ==
  /\ pc = "test_keyboard"
  /\ pc' = (IF KEY_ESC \in key_buffer THEN "exited" ELSE pc)
  /\ UNCHANGED <<step, gates, pic, keyVars, devVars>>

MainStep == \/ isr_install \/ InstallGates \/ pic_init \/ keyboard_init
            \/ Sti \/ test_keyboard

-----------------------------------------------------------------------------
(* The interrupt paths *)

InterruptsOn == pc \in {"test_keyboard", "exited"}

(* Bit 7 of a scancode says that the key went up. *)
keyboard_handler(sc) ==
  /\ last_scancode' = sc
  /\ key_buffer' = IF sc >= 128 THEN key_buffer \ {sc - 128} ELSE key_buffer \cup {sc}

(* A mutant: the handler ends no interrupt. *)
irq_handlerNoEoi(p, n) == p

(* A mutant: one chip or the other hears of the end. *)
irq_handlerOneChip(p, n) ==
  Outb(p, IF n >= 40 THEN PIC2_COMMAND ELSE PIC1_COMMAND, PIC_EOI)

(* A mutant: the branch for the slave also writes to the master. *)
irq_handlerTwice(p, n) ==
  Outb(IF n >= 40 THEN Outb(p, PIC1_COMMAND, PIC_EOI) ELSE p, PIC1_COMMAND, PIC_EOI)

(* The tail of irq_handler: the slave hears of the end for lines 40 to 47, *)
(* the master always.                                                      *)
irq_handler(p, n) ==
  Outb(IF n >= 40 THEN Outb(p, PIC2_COMMAND, PIC_EOI) ELSE p,
       PIC1_COMMAND, PIC_EOI)

(* irq_common_stub pushes the data segment (0x10), on top of the high half *)
(* of whatever eax held, as the last thing before call irq_handler: that,  *)
(* and not the vector, is what irq_handler finds as irq_number.  It is     *)
(* never 33, so the branch that reads the keyboard is not taken.           *)
IrqNumbers == {16, 65536 + 16}

irq_common_stub ==
  /\ InterruptsOn
  /\ \E irq \in Deliverable(pic) :
       /\ gates[VectorOf(pic, irq)] = "irq"
       /\ \E n \in IrqNumbers : pic' = irq_handler(Acknowledge(pic, irq), n)
  /\ UNCHANGED <<mainVars, keyVars, devVars>>

(* keyboard_isr and keyboard_common_stub: read the scancode, pass it on    *)
(* and return, with line 1 still in service.                               *)
keyboard_common_stub ==
  /\ InterruptsOn
  /\ \E irq \in Deliverable(pic) :
       /\ gates[VectorOf(pic, irq)] = "keyboard"
       /\ pic' = Acknowledge(pic, irq)
  /\ keyboard_handler(obuf)
  /\ obuf' = 0
  /\ UNCHANGED <<mainVars, held, kbdq>>

-----------------------------------------------------------------------------
(* The user and the devices: external *)

Press(k) ==
  /\ k \notin held /\ Len(kbdq) < QueueSize
  /\ held' = held \cup {k} /\ kbdq' = Append(kbdq, k)
  /\ UNCHANGED <<mainVars, pic, keyVars, obuf>>

Release(k) ==
  /\ k \in held /\ Len(kbdq) < QueueSize
  /\ held' = held \ {k} /\ kbdq' = Append(kbdq, k + 128)
  /\ UNCHANGED <<mainVars, pic, keyVars, obuf>>

(* The 8042 takes the next scancode once its buffer is empty. *)
Transfer ==
  /\ obuf = 0 /\ kbdq # <<>>
  /\ obuf' = Head(kbdq) /\ kbdq' = Tail(kbdq)
  /\ pic' = Raise(pic, 1)
  /\ UNCHANGED <<mainVars, keyVars, held>>

LineUp(irq) ==
  /\ pic' = Raise(pic, irq)
  /\ UNCHANGED <<mainVars, keyVars, devVars>>

Device == \/ \E k \in Keys : Press(k) \/ Release(k)
          \/ Transfer
          \/ \E irq \in DeviceLines : LineUp(irq)

Next == MainStep \/ irq_common_stub \/ keyboard_common_stub \/ Device

(* main runs whenever no handler does, the 8042 forwards what it can, the  *)
(* timer ticks, a pending interrupt is taken, and ticks leave time for the *)
(* keyboard.  Nobody has to press or release a key.                        *)
Fairness ==
  /\ WF_vars(MainStep)
  /\ WF_vars(Transfer)
  /\ WF_vars(0 \in DeviceLines /\ LineUp(0))
  /\ WF_vars(irq_common_stub)
  /\ SF_vars(keyboard_common_stub)

Spec == Init /\ [][Next]_vars /\ Fairness

-----------------------------------------------------------------------------
TypeOK ==
  /\ pc \in {"isr_install", "gates", "pic_init", "keyboard_init", "sti",
             "test_keyboard", "exited"}
  /\ step \in 1..10
  /\ pic \in Pair
  /\ gates \in [Vectors -> {"none", "irq", "keyboard"}]
  /\ key_buffer \subseteq 0..127 /\ last_scancode \in Bytes
  /\ held \subseteq Keys
  /\ kbdq \in Seq(Bytes) /\ Len(kbdq) <= QueueSize
  /\ obuf \in Bytes

(* Every interrupt the pair can deliver finds a gate: all lines are        *)
(* unmasked, and devices raise lines main never asked for.                 *)
VectorsGated ==
  InterruptsOn => \A irq \in Deliverable(pic) :
                     /\ VectorOf(pic, irq) \in Vectors
                     /\ gates[VectorOf(pic, irq)] # "none"

(* irq_handler ends the interrupt it was called for and no other, although *)
(* its end of interrupt names no line and what it takes for the number of  *)
(* the interrupt is not one: between two handlers nothing is in service on *)
(* the master but line 1, which stays there once keyboard_handler has run  *)
(* and holds back line 2 and with it the slave.                            *)
OnlyLineOneLeft == pic.m.isr = IF last_scancode = 0 THEN {} ELSE {1}

(* keyboard_common_stub ends no interrupt, and none of the timer's ends    *)
(* the one it left open: key_buffer and last_scancode stay for ever what   *)
(* the first scancode made of them, be it a press or the release of a key  *)
(* held since before, whatever the user does later.  The first key pressed *)
(* is displayed as pressed for ever.                                       *)
OneScancodeOnly == [][last_scancode # 0 => UNCHANGED keyVars]_vars

(* Whatever the other paths leave in service, the timer keeps being        *)
(* served: line 0 has the highest priority and irq_handler ends it.        *)
TimerServed == (InterruptsOn /\ Latched(pic, 0)) ~> ~Latched(pic, 0)

(* "Press ESC to exit": a user who touches no key until the message is on  *)
(* the screen, and then keeps the escape key down, leaves test_keyboard.   *)
EscExits ==
  (/\ <>[](KEY_ESC \in held)
   /\ [](~InterruptsOn => kbdq = <<>> /\ obuf = 0))
     => <>(pc = "exited")
=============================================================================
