------------------------------ MODULE EfiLoop ------------------------------
(***************************************************************************)
(* The UEFI kernel (efi-boot) once it has left the boot services: main     *)
(* programs the 8259 pair and the PIT, sets the interrupt flag and runs    *)
(* its animation loop, while handler_time, handler_keyboard and            *)
(* handler_mouse interrupt it.  They share g_ticks, g_last_key and the     *)
(* mouse position, all volatile and none locked, and the two PS/2 devices  *)
(* share the one-byte output buffer of the 8042.                           *)
(*                                                                         *)
(* main is cut at its accesses to shared state: every comparison with      *)
(* g_last_key is a load of its own, and the store g_last_key = 0 comes     *)
(* later.  A handler is one step: its gate (configure_entry_real, flags    *)
(* 0x8E) is an interrupt gate, so no handler interrupts another, and what  *)
(* a device does meanwhile commutes with what is left of the handler.      *)
(* The box that the loop moves is local to main: see EfiScreen.            *)
(***************************************************************************)
EXTENDS Pic8259, Sequences

CONSTANTS
  Pic2MaskPort, \* port of the second mask write of remap_pic (see RemapWrites)
  Scancodes,    \* bytes the keyboard may send
  MouseBytes,   \* bytes the mouse may send
  StrayLines,   \* other lines of the pair a device of the machine may raise
  StartX, StartY,  \* the arguments of mouse_init_state: the middle of the screen
  MouseMax,     \* bound: the mouse is not pushed past this coordinate
  DelayTicks    \* the argument of delay_real

ASSUME EfiLoopAssumption ==
  /\ Pic2MaskPort \in {PIC1_DATA, PIC2_DATA}
  /\ Scancodes \subseteq Bytes \ {0}
  /\ MouseBytes \subseteq Bytes
  /\ StrayLines \subseteq IRQs \ {0, 1, CASCADE, 12}
  /\ StartX \in Nat /\ StartY \in Nat /\ MouseMax \in Nat
  /\ DelayTicks \in Nat \ {0}

VARIABLES
  pc,          \* where main is
  step,        \* next write of remap_pic
  pic,         \* the pair of 8259s
  obuf,        \* output buffer of the 8042: whose byte it holds, and the byte
  sent,        \* the mouse: bytes of the packet it is sending ...
  phase,       \* ... and how many of them it has sent
  last_key,    \* g_last_key
  delivered,   \* history: scancodes handed over since g_last_key was cleared
  probe,       \* comparison of g_last_key that main makes next
  paused,      \* paused
  elapsed,     \* g_ticks - ticks_initial of delay_real, up to DelayTicks
  byte_index,  \* byte_index of handler_mouse
  packet,      \* packet of handler_mouse
  mouse_x, mouse_y  \* g_mouse_x, g_mouse_y

mainVars  == <<pc, step, probe, paused>>
keyVars   == <<last_key, delivered>>
mouseVars == <<byte_index, packet, mouse_x, mouse_y>>
devVars   == <<obuf, sent, phase>>
vars == <<mainVars, pic, keyVars, elapsed, mouseVars, devVars>>

ESPACE    == 57
UP_KEY    == 72
LEFT_KEY  == 75
RIGHT_KEY == 77
DOWN_KEY  == 80

(* The keys of the loop, in the order main compares them with g_last_key. *)
Keys == <<ESPACE, UP_KEY, LEFT_KEY, RIGHT_KEY, DOWN_KEY>>

(* A mutant: the slave keeps a base of its own choosing, off by one row. *)
RemapWritesWrongBase ==
  << <<PIC1_COMMAND, PIC_INIT>>, <<PIC2_COMMAND, PIC_INIT>>,
     <<PIC1_DATA, 32>>, <<PIC2_DATA, 48>>, <<PIC1_DATA, 4>>, <<PIC2_DATA, 2>>,
     <<PIC1_DATA, 1>>, <<PIC2_DATA, 1>>,
     <<PIC1_DATA, 248>>, <<Pic2MaskPort, 239>> >>

(* A mutant: the two masks come in the other order. *)
RemapWritesMasksSwapped ==
  << <<PIC1_COMMAND, PIC_INIT>>, <<PIC2_COMMAND, PIC_INIT>>,
     <<PIC1_DATA, 32>>, <<PIC2_DATA, 40>>, <<PIC1_DATA, 4>>, <<PIC2_DATA, 2>>,
     <<PIC1_DATA, 1>>, <<PIC2_DATA, 1>>,
     <<Pic2MaskPort, 239>>, <<PIC1_DATA, 248>> >>

(* The writes of remap_pic: ICW1 to ICW4 of both chips, then the masks     *)
(* PIC1_MASK_DEFAULT (0xF8: lines 0, 1, 2) and PIC2_MASK_DEFAULT (0xEF:    *)
(* line 12).  The source sends both masks to PIC1_DATA; the name of the    *)
(* second one says PIC2_DATA.  The port is a parameter, so that the kernel *)
(* can be examined as it is written and with the masks it names.           *)
RemapWrites ==
  << <<PIC1_COMMAND, PIC_INIT>>, <<PIC2_COMMAND, PIC_INIT>>,
     <<PIC1_DATA, 32>>, <<PIC2_DATA, 40>>, <<PIC1_DATA, 4>>, <<PIC2_DATA, 2>>,
     <<PIC1_DATA, 1>>, <<PIC2_DATA, 1>>,
     <<PIC1_DATA, 248>>, <<Pic2MaskPort, 239>> >>

(* The vectors main gives a gate; the other entries of the IDT are empty. *)
Gates == {3, 32, 33, 44}

(* (int8_t) b *)
Int8(b) == IF b < 128 THEN b ELSE b - 256

(* if (v < 0) v = 0 *)
Clip(v) == IF v < 0 THEN 0 ELSE v

(* A mutant: the slave never hears of the end of its interrupt. *)
send_eoiMasterOnly(p, irq) == Outb(p, PIC1_COMMAND, PIC_EOI)

(* A mutant: the master never hears of it. *)
send_eoiSlaveOnly(p, irq) ==
  IF irq >= 8 THEN Outb(p, PIC2_COMMAND, PIC_EOI) ELSE p

send_eoi(p, irq) ==
  Outb(IF irq >= 8 THEN Outb(p, PIC2_COMMAND, PIC_EOI) ELSE p,
       PIC1_COMMAND, PIC_EOI)

(* The flag is set from sti on; a handler is one step, so it is never seen *)
(* clear again, unless the machine has been reset (see EmptyGate).         *)
InterruptsOn == pc \notin {"remap", "pit", "sti", "reset"}

(* Reading PS2_DATA_PORT empties the output buffer; the byte stays on the  *)
(* bus for a reader that comes too often.                                  *)
ReadDataPort == obuf' = [obuf EXCEPT !.src = "none"]

-----------------------------------------------------------------------------
(* The state in which activate_mouse has just returned. *)
Init ==
  /\ pc = "remap" /\ step = 1 /\ probe = 1
  /\ pic = [m |-> [imr |-> Lines, irr |-> {}, isr |-> {}, base |-> 104, icw |-> 0],
            s |-> [imr |-> Lines, irr |-> {}, isr |-> {}, base |-> 112, icw |-> 0]]
  /\ obuf = [src |-> "none", byte |-> 0]
  /\ sent = [i \in 0..2 |-> 0] /\ phase = 0
  /\ last_key = 0 /\ delivered = {}
  /\ paused = FALSE
  /\ elapsed = 0
  /\ byte_index = 0 /\ packet = [i \in 0..2 |-> 0]
  /\ mouse_x = StartX /\ mouse_y = StartY

-----------------------------------------------------------------------------
(* main *)

(* One outb of remap_pic. *)
remap_pic ==
  /\ pc = "remap"
  /\ pic' = Outb(pic, RemapWrites[step][1], RemapWrites[step][2])
  /\ IF step < Len(RemapWrites)
     THEN step' = step + 1 /\ pc' = pc
     ELSE step' = step /\ pc' = "pit"
  /\ UNCHANGED <<probe, paused, keyVars, elapsed, mouseVars, devVars>>

(* program_pit(100) sets the rate of a timer that ticks in any case. *)
program_pit ==
  /\ pc = "pit"
  /\ pc' = "sti"
  /\ UNCHANGED <<step, probe, paused, pic, keyVars, elapsed, mouseVars, devVars>>

Sti ==
  /\ pc = "sti"
  /\ pc' = "poll"
  /\ UNCHANGED <<step, probe, paused, pic, keyVars, elapsed, mouseVars, devVars>>

(* One comparison of the else-if chain.  When it holds, its branch runs;   *)
(* when the last one fails, the keys leave the loop body unchanged.        *)
PollKey ==
  /\ pc = "poll"
  /\ IF last_key = Keys[probe]
     THEN pc' = "take" /\ probe' = probe
     ELSE IF probe < Len(Keys)
          THEN pc' = pc /\ probe' = probe + 1
          ELSE pc' = "test" /\ probe' = 1
  /\ UNCHANGED <<step, paused, pic, keyVars, elapsed, mouseVars, devVars>>

(* A mutant: the branch forgets g_last_key = 0. *)
TakeKeyNotCleared ==
  /\ pc = "take"
  /\ paused' = (IF Keys[probe] = ESPACE THEN ~paused ELSE paused)
  /\ delivered' = {} /\ last_key' = last_key
  /\ pc' = "test" /\ probe' = 1
  /\ UNCHANGED <<step, pic, elapsed, mouseVars, devVars>>

(* The branch of the key found.  g_last_key = 0 also wipes out a key that  *)
(* came in after the comparison.                                           *)
TakeKey ==
  /\ pc = "take"
  /\ paused' = (IF Keys[probe] = ESPACE THEN ~paused ELSE paused)
  /\ delivered' = {} /\ last_key' = 0
  /\ pc' = "test" /\ probe' = 1
  /\ UNCHANGED <<step, pic, elapsed, mouseVars, devVars>>

(* if (paused == 0): a paused loop goes round without any delay. *)
TestPaused ==
  /\ pc = "test"
  /\ pc' = (IF paused THEN "poll" ELSE "frame")
  /\ UNCHANGED <<step, probe, paused, pic, keyVars, elapsed, mouseVars, devVars>>

(* The frame is drawn and copied, and delay_real loads ticks_initial. *)
DrawFrame ==
  /\ pc = "frame"
  /\ pc' = "wait" /\ elapsed' = 0
  /\ UNCHANGED <<step, probe, paused, pic, keyVars, mouseVars, devVars>>

(* The loop of delay_real finds that ticks_for_wait ticks went by. *)
delay_real ==
  /\ pc = "wait" /\ elapsed >= DelayTicks
  /\ pc' = "poll"
  /\ UNCHANGED <<step, probe, paused, pic, keyVars, elapsed, mouseVars, devVars>>

MainStep == \/ remap_pic \/ program_pit \/ Sti
            \/ PollKey \/ TakeKey \/ TestPaused \/ DrawFrame \/ delay_real

-----------------------------------------------------------------------------
(* The handlers *)

(* The processor takes an interrupt: the flag is set and the pair asks. *)
Interrupt(irq) == InterruptsOn /\ irq \in Deliverable(pic)

(* g_ticks++ matters to main only while delay_real watches it. *)
handler_time ==
  /\ Interrupt(0)
  /\ elapsed' = (IF pc = "wait" /\ elapsed < DelayTicks THEN elapsed + 1 ELSE elapsed)
  /\ pic' = send_eoi(Acknowledge(pic, 0), 0)
  /\ UNCHANGED <<mainVars, keyVars, mouseVars, devVars>>

(* A mutant: the handler leaves the byte in the buffer. *)
handler_keyboardUnread ==
  /\ Interrupt(1)
  /\ last_key' = obuf.byte /\ delivered' = delivered \cup {obuf.byte}
  /\ pic' = send_eoi(Acknowledge(pic, 1), 1)
  /\ UNCHANGED <<mainVars, elapsed, mouseVars, sent, phase, obuf>>

handler_keyboard ==
  /\ Interrupt(1)
  /\ ReadDataPort
  /\ last_key' = obuf.byte /\ delivered' = delivered \cup {obuf.byte}
  /\ pic' = send_eoi(Acknowledge(pic, 1), 1)
  /\ UNCHANGED <<mainVars, elapsed, mouseVars, sent, phase>>

(* packet[byte_index++] = inb(...), and the move once the third byte is in. *)
PacketWith(b) == [packet EXCEPT ![byte_index] = b]

Move(p) ==
  /\ mouse_x' = Clip(mouse_x + Int8(p[1]))
  /\ mouse_y' = Clip(mouse_y - Int8(p[2]))

(* A mutant: a packet of two bytes. *)
handler_mouseShort ==
  /\ Interrupt(12)
  /\ ReadDataPort
  /\ packet' = PacketWith(obuf.byte)
  /\ IF byte_index + 1 = 2
     THEN byte_index' = 0 /\ Move(packet')
     ELSE byte_index' = byte_index + 1 /\ UNCHANGED <<mouse_x, mouse_y>>
  /\ pic' = send_eoi(Acknowledge(pic, 12), 12)
  /\ UNCHANGED <<mainVars, keyVars, elapsed, sent, phase>>

handler_mouse ==
  /\ Interrupt(12)
  /\ ReadDataPort
  /\ packet' = PacketWith(obuf.byte)
  /\ IF byte_index + 1 = 3
     THEN byte_index' = 0 /\ Move(packet')
     ELSE byte_index' = byte_index + 1 /\ UNCHANGED <<mouse_x, mouse_y>>
  /\ pic' = send_eoi(Acknowledge(pic, 12), 12)
  /\ UNCHANGED <<mainVars, keyVars, elapsed, sent, phase>>

(* An interrupt whose entry of the IDT is the one configure_entry_empty    *)
(* left.  Entries 13 and 8, for the fault this makes and for the one that  *)
(* makes in turn, are empty too: the processor resets the machine.         *)
EmptyGate ==
  /\ \E irq \in IRQs : Interrupt(irq) /\ VectorOf(pic, irq) \notin Gates
  /\ pc' = "reset"
  /\ UNCHANGED <<step, probe, paused, pic, keyVars, elapsed, mouseVars, devVars>>

-----------------------------------------------------------------------------
(* The devices: external hardware, active from the start.  The 8042 moves  *)
(* a byte into its output buffer only when the buffer is empty, and pulls  *)
(* up the line of the device it came from.                                 *)

TimerTick ==
  /\ pic' = Raise(pic, 0)
  /\ UNCHANGED <<mainVars, keyVars, elapsed, mouseVars, devVars>>

KeyEvent(k) ==
  /\ obuf.src = "none"
  /\ obuf' = [src |-> "kbd", byte |-> k]
  /\ pic' = Raise(pic, 1)
  /\ UNCHANGED <<mainVars, keyVars, elapsed, mouseVars, sent, phase>>

(* MouseMax keeps the position, which the code leaves unbounded, finite. *)
MouseByte(b) ==
  /\ obuf.src = "none"
  /\ phase = 1 => mouse_x + Int8(b) <= MouseMax
  /\ phase = 2 => mouse_y - Int8(b) <= MouseMax
  /\ obuf' = [src |-> "aux", byte |-> b]
  /\ sent' = [sent EXCEPT ![phase] = b]
  /\ phase' = (phase + 1) % 3
  /\ pic' = Raise(pic, 12)
  /\ UNCHANGED <<mainVars, keyVars, elapsed, mouseVars>>

StrayIrq(irq) ==
  /\ pic' = Raise(pic, irq)
  /\ UNCHANGED <<mainVars, keyVars, elapsed, mouseVars, devVars>>

Device == \/ TimerTick
          \/ \E k \in Scancodes : KeyEvent(k)
          \/ \E b \in MouseBytes : MouseByte(b)
          \/ \E irq \in StrayLines : StrayIrq(irq)

Next == \/ MainStep \/ handler_time \/ handler_keyboard \/ handler_mouse \/ EmptyGate
        \/ Device

(* main runs whenever no handler does; the timer keeps ticking; a pending  *)
(* interrupt of the highest priority is taken; and a handler is far        *)
(* shorter than the 10 ms between two ticks, so that ticks do not keep the *)
(* other two lines waiting for ever.                                       *)
Fairness ==
  /\ WF_vars(MainStep)
  /\ WF_vars(TimerTick)
  /\ WF_vars(handler_time)
  /\ SF_vars(handler_keyboard)
  /\ SF_vars(handler_mouse)

Spec == Init /\ [][Next]_vars /\ Fairness

-----------------------------------------------------------------------------
(* Every variable has its type; in particular handler_mouse never leaves a *)
(* negative coordinate behind for draw_box to index the buffer with.       *)
TypeOK ==
  /\ pc \in {"remap", "pit", "sti", "poll", "take", "test", "frame", "wait", "reset"}
  /\ step \in 1..10
  /\ probe \in 1..5
  /\ paused \in BOOLEAN
  /\ pic \in Pair
  /\ obuf \in [src : {"none", "kbd", "aux"}, byte : Bytes]
  /\ sent \in [0..2 -> Bytes]
  /\ phase \in 0..2
  /\ last_key \in Bytes
  /\ delivered \subseteq Bytes
  /\ elapsed \in 0..DelayTicks
  /\ byte_index \in 0..2
  /\ packet \in [0..2 -> Bytes]
  /\ mouse_x \in Nat /\ mouse_y \in Nat

(* send_eoi ends exactly the interrupt it is called for: once a handler    *)
(* has returned nothing is in service, neither on the master nor on the    *)
(* slave, so no line is blocked.                                           *)
ServiceDrained == Idle(pic)

(* The lines that get through the masks: with the second mask on the       *)
(* slave, the three that main has a handler for; with both masks on the    *)
(* master, as the source has it, line 4 alone, since the slave, although   *)
(* nothing of it is masked, does not get past line 2.                      *)
LinesLeftOpen == IF Pic2MaskPort = PIC2_DATA THEN {0, 1, 12} ELSE {4}

(* The ten writes of remap_pic leave these lines open and no other,        *)
(* whatever lines the machine raises and whatever was pending before, and  *)
(* what is delivered comes on the vector of its line.                      *)
OnlyOpenLines ==
  InterruptsOn => \A irq \in Deliverable(pic) :
                     irq \in LinesLeftOpen /\ VectorOf(pic, irq) = 32 + irq

(* main gives a gate to the lines that the two masks of hardware.h leave   *)
(* open (0, 1 and 12), so that an interrupt the pair can deliver always    *)
(* reaches a gate; one that does not resets the machine.                   *)
VectorsGated ==
  InterruptsOn => \A irq \in Deliverable(pic) : VectorOf(pic, irq) \in Gates

(* A branch of the key chain runs only for a scancode that                 *)
(* handler_keyboard delivered after the previous branch cleared            *)
(* g_last_key: one delivery never acts twice.                              *)
KeyActsOnce == pc = "take" => Keys[probe] \in delivered

(* handler_mouse stays in step with the mouse: the bytes it holds and the  *)
(* one in the output buffer are the packet being sent, in its order,       *)
(* whatever bytes of the keyboard come between.                            *)
PacketAligned ==
  LET inFlight == IF obuf.src = "aux" THEN 1 ELSE 0
  IN  /\ phase = (byte_index + inFlight) % 3
      /\ \A i \in 0..2 : i < byte_index => packet[i] = sent[i]
      /\ obuf.src = "aux" => obuf.byte = sent[byte_index]

(* delay_real always returns: its ticks are counted whatever else          *)
(* interrupts.                                                             *)
DelayReturns == pc = "wait" ~> pc # "wait"

(* The byte of a latched request is read, so that the 8042 can go on.      *)
LatchedByteIsRead ==
  \A d \in { <<"kbd", 1>>, <<"aux", 12>> } :
     (obuf.src = d[1] /\ Latched(pic, d[2]) /\ InterruptsOn) ~> obuf.src = "none"

(* Once remap_pic is over, no byte of a device is left in the output       *)
(* buffer of the 8042 without its request: the buffer is empty or the      *)
(* request is latched, and every step keeps that so.  (Before, the request *)
(* of a byte that arrives during the initialization is lost with it, and   *)
(* that byte blocks the 8042 for ever: the step that ends remap_pic may    *)
(* find the buffer in that state.)                                         *)
Requested == /\ obuf.src = "kbd" => Latched(pic, 1)
             /\ obuf.src = "aux" => Latched(pic, 12)
RequestKept == [][pc # "remap" /\ Requested => Requested']_vars

(* A key of the loop does not stay in g_last_key: main acts on it or a     *)
(* later scancode replaces it.                                             *)
KeyIsConsumed == \A i \in 1..5 : (last_key = Keys[i]) ~> (last_key # Keys[i])
=============================================================================
