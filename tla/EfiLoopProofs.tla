--------------------------- MODULE EfiLoopProofs ---------------------------
(***************************************************************************)
(* What EfiLoop promises whatever bytes the devices send, whatever other   *)
(* lines the machine raises, however long the delay is and whichever port  *)
(* the second mask goes to.                                                *)
(*                                                                         *)
(* The properties hold each other up.  The handlers read the right byte    *)
(* because a latched request of line 1 or 12 means that the output buffer  *)
(* holds a byte of that device (RequestMatchesByte), which stays true      *)
(* because every handler reads exactly one byte.  A branch of the key      *)
(* chain runs for a delivered scancode because a g_last_key that is not 0  *)
(* is one that was delivered since it was last cleared (KeyKnown).         *)
(***************************************************************************)
EXTENDS EfiLoop, Pic8259Proofs

RequestMatchesByte ==
  /\ Latched(pic, 1) => obuf.src = "kbd"
  /\ Latched(pic, 12) => obuf.src = "aux"

KeyKnown == last_key # 0 => last_key \in delivered

IInv == /\ TypeOK /\ ServiceDrained /\ RequestMatchesByte
        /\ KeyKnown /\ KeyActsOnce /\ PacketAligned

-----------------------------------------------------------------------------
(* The writes of remap_pic are bytes for ports of the pair. *)
LEMMA RemapWritesType ==
  ASSUME NEW i \in 1..10
  PROVE  /\ RemapWrites[i][1] \in Ports
         /\ RemapWrites[i][2] \in Bytes
         /\ Len(RemapWrites) = 10
<1>1. {PIC_INIT, 32, 40, 4, 2, 1, 248, 239} \subseteq Bytes
  BY DEF Bytes, PIC_INIT
<1>2. Pic2MaskPort \in Ports
  BY EfiLoopAssumption DEF Ports
<1>3. Len(RemapWrites) = 10
  BY DEF RemapWrites
<1>4. /\ RemapWrites[i][1] \in Ports
      /\ RemapWrites[i][2] \in {PIC_INIT, 32, 40, 4, 2, 1, 248, 239}
  BY <1>2 DEF RemapWrites, Ports
<1> QED
  BY <1>1, <1>3, <1>4

(* A handler that acknowledges its interrupt and calls send_eoi leaves     *)
(* nothing in service and takes back exactly its own request.              *)
LEMMA HandlerEndsService ==
  ASSUME NEW p \in Pair, Idle(p), NEW irq \in IRQs, irq # CASCADE,
         NEW q, q = send_eoi(Acknowledge(p, irq), irq)
  PROVE  /\ q \in Pair /\ Idle(q)
         /\ \A i \in IRQs : Latched(q, i) <=> Latched(p, i) /\ i # irq
<1> DEFINE a == Acknowledge(p, irq)
<1>1. CASE irq < 8
  <2>1. /\ a \in Pair /\ a.m.isr = {irq} /\ a.s.isr = {}
        /\ a.m.irr = p.m.irr \ {irq} /\ a.s.irr = p.s.irr
    BY <1>1, AcknowledgeIdle
  <2>2. a.m \in Chip /\ irq \in Lines /\ ~(irq >= 8)
    BY <1>1, <2>1 DEF Pair, IRQs, Lines
  <2>3. q = [a EXCEPT !.m = WriteCommand(a.m, PIC_EOI)]
    BY <2>2, CommandPorts DEF send_eoi
  <2> HIDE DEF a
  <2>4. q \in Pair /\ q.m.isr = {} /\ q.s.isr = {} /\ q.m.irr = a.m.irr /\ q.s.irr = a.s.irr
    BY <2>1, <2>2, <2>3, EoiOfOne DEF Pair
  <2> QED
    BY <1>1, <2>1, <2>4 DEF Idle, Latched, IRQs
<1>2. CASE ~(irq < 8)
  <2>0. irq >= 8 /\ irq - 8 \in Lines /\ CASCADE \in Lines
    BY <1>2 DEF IRQs, Lines, CASCADE
  <2>1. /\ a \in Pair /\ a.m.isr = {CASCADE} /\ a.s.isr = {irq - 8}
        /\ a.m.irr = p.m.irr /\ a.s.irr = p.s.irr \ {irq - 8}
    BY <2>0, AcknowledgeIdle
  <2>2. a.m \in Chip /\ a.s \in Chip
    BY <2>1 DEF Pair
  <2> DEFINE b == [a EXCEPT !.s = WriteCommand(a.s, PIC_EOI)]
  <2>3. q = [b EXCEPT !.m = WriteCommand(b.m, PIC_EOI)]
    BY <2>0, CommandPorts DEF send_eoi
  <2> HIDE DEF a
  <2>4. b \in Pair /\ b.s.isr = {} /\ b.s.irr = a.s.irr /\ b.m = a.m
    BY <2>0, <2>1, <2>2, EoiOfOne DEF Pair
  <2> HIDE DEF b
  <2>5. q \in Pair /\ q.m.isr = {} /\ q.s.isr = {} /\ q.m.irr = a.m.irr /\ q.s.irr = a.s.irr
    BY <2>0, <2>1, <2>2, <2>3, <2>4, EoiOfOne DEF Pair
  <2> QED
    BY <1>2, <2>0, <2>1, <2>5 DEF Idle, Latched, IRQs
<1> QED
  BY <1>1, <1>2

(* handler_keyboard and handler_mouse run for a byte of their own device,  *)
(* and handler_time leaves both requests alone.                            *)
LEMMA HandlerReadsItsByte ==
  ASSUME IInv, NEW irq, Interrupt(irq), NEW q, q = send_eoi(Acknowledge(pic, irq), irq)
  PROVE  /\ q \in Pair /\ Idle(q)
         /\ Latched(q, 1) <=> Latched(pic, 1) /\ irq # 1
         /\ Latched(q, 12) <=> Latched(pic, 12) /\ irq # 12
         /\ irq = 1 => obuf.src = "kbd"
         /\ irq = 12 => obuf.src = "aux"
<1>0. pic \in Pair /\ Idle(pic) /\ RequestMatchesByte
  BY DEF IInv, TypeOK, ServiceDrained
<1>1. irq \in IRQs /\ irq # CASCADE /\ Latched(pic, irq)
  BY <1>0, DeliverableLatched DEF Interrupt
<1>2. 1 \in IRQs /\ 12 \in IRQs
  BY DEF IRQs
<1> QED
  BY <1>0, <1>1, <1>2, HandlerEndsService DEF RequestMatchesByte

-----------------------------------------------------------------------------
(* The invariant holds at the start. *)
LEMMA InitIInv == Init => IInv
<1> SUFFICES ASSUME Init PROVE IInv
  OBVIOUS
<1>1. pic \in Pair
  BY DEF Init, Pair, Chip, Lines, Bytes
<1>2. paused \in BOOLEAN
  BY Zenon DEF Init
<1>3. TypeOK
  BY <1>1, <1>2, EfiLoopAssumption, SMT DEF Init, TypeOK, Bytes
<1>4. ServiceDrained /\ RequestMatchesByte
  BY DEF Init, ServiceDrained, RequestMatchesByte, Idle, Latched
<1>5. KeyKnown /\ KeyActsOnce /\ PacketAligned
  BY DEF Init, KeyKnown, KeyActsOnce, PacketAligned
<1> QED
  BY <1>3, <1>4, <1>5 DEF IInv

(* remap_pic may wipe out requests, but makes none. *)
LEMMA RemapKeepsIInv == IInv /\ remap_pic => IInv'
<1> SUFFICES ASSUME IInv, remap_pic PROVE IInv'
  OBVIOUS
<1>0. TypeOK /\ ServiceDrained /\ RequestMatchesByte
  BY DEF IInv
<1>1. step \in 1..10 /\ pic \in Pair
  BY <1>0 DEF TypeOK
<1>2. /\ pic' \in Pair
      /\ pic'.m.irr \subseteq pic.m.irr /\ pic'.s.irr \subseteq pic.s.irr
      /\ pic'.m.isr \subseteq pic.m.isr /\ pic'.s.isr \subseteq pic.s.isr
  BY <1>1, RemapWritesType, OutbType DEF remap_pic
<1>3. pc' \in {"remap", "pit"} /\ step' \in 1..10
  <2>1. Len(RemapWrites) = 10
    BY <1>1, RemapWritesType
  <2>2. CASE step < 10
    BY <1>1, <2>1, <2>2 DEF remap_pic
  <2>3. CASE ~(step < 10)
    BY <1>1, <2>1, <2>3 DEF remap_pic
  <2> QED
    BY <2>2, <2>3
<1>4. ServiceDrained'
  BY <1>0, <1>2 DEF ServiceDrained, Idle
<1>5. RequestMatchesByte'
  BY <1>0, <1>2 DEF RequestMatchesByte, Latched, remap_pic, devVars
<1>6. TypeOK'
  BY <1>0, <1>2, <1>3 DEF TypeOK, remap_pic, keyVars, mouseVars, devVars
<1>7. KeyKnown' /\ KeyActsOnce' /\ PacketAligned'
  BY <1>3 DEF IInv, KeyKnown, KeyActsOnce, PacketAligned, remap_pic, keyVars, mouseVars, devVars
<1> QED
  BY <1>4, <1>5, <1>6, <1>7 DEF IInv

(* The rest of main, and a reset, touch neither the pair nor the devices. *)
LEMMA MainKeepsIInv ==
  IInv /\ (\/ program_pit \/ Sti \/ PollKey \/ TakeKey \/ TestPaused \/ DrawFrame \/ delay_real
           \/ EmptyGate)
    => IInv'
<1> SUFFICES ASSUME IInv,
                    \/ program_pit \/ Sti \/ PollKey \/ TakeKey \/ TestPaused \/ DrawFrame \/ delay_real
                    \/ EmptyGate
             PROVE  IInv'
  OBVIOUS
<1> USE DEF mainVars, keyVars, mouseVars, devVars
<1>0. TypeOK /\ KeyKnown /\ KeyActsOnce
  BY DEF IInv
<1>1. /\ UNCHANGED <<pic, mouseVars, devVars>>
      /\ step' = step
  BY DEF program_pit, Sti, PollKey, TakeKey, TestPaused, DrawFrame, delay_real, EmptyGate
<1>2. ServiceDrained' /\ RequestMatchesByte' /\ PacketAligned'
  BY <1>1 DEF IInv, ServiceDrained, RequestMatchesByte, PacketAligned, Idle, Latched
<1>3. paused' \in BOOLEAN
  BY <1>0, Zenon DEF TypeOK, program_pit, Sti, PollKey, TakeKey, TestPaused, DrawFrame, delay_real,
                        EmptyGate
<1>4. /\ pc' \in {"sti", "poll", "take", "test", "frame", "wait", "reset"}
      /\ probe' \in 1..5 /\ elapsed' \in 0..DelayTicks
      /\ last_key' = 0 \/ last_key' = last_key
      /\ delivered' = {} \/ delivered' = delivered
  BY <1>0, EfiLoopAssumption
     DEF TypeOK, Keys, program_pit, Sti, PollKey, TakeKey, TestPaused, DrawFrame, delay_real,
         EmptyGate
<1>5. TypeOK'
  <2>0. 0 \in Bytes /\ last_key \in Bytes /\ delivered \subseteq Bytes
    BY <1>0 DEF TypeOK, Bytes
  <2>1. last_key' \in Bytes /\ delivered' \subseteq Bytes
    BY <1>4, <2>0
  <2>2. step' \in 1..10 /\ pic' \in Pair
    BY <1>0, <1>1 DEF TypeOK
  <2>3. /\ obuf' \in [src : {"none", "kbd", "aux"}, byte : Bytes]
        /\ sent' \in [0..2 -> Bytes] /\ phase' \in 0..2
        /\ byte_index' \in 0..2 /\ packet' \in [0..2 -> Bytes]
        /\ mouse_x' \in Nat /\ mouse_y' \in Nat
    BY <1>0, <1>1 DEF TypeOK
  <2> QED
    BY <1>3, <1>4, <2>1, <2>2, <2>3 DEF TypeOK
<1>6. KeyKnown'
  BY <1>0 DEF KeyKnown, program_pit, Sti, PollKey, TakeKey, TestPaused, DrawFrame, delay_real,
                   EmptyGate
<1>7. KeyActsOnce'
  <2>1. CASE PollKey
    <3>1. \A i \in 1..5 : Keys[i] # 0
      BY DEF Keys, ESPACE, UP_KEY, LEFT_KEY, RIGHT_KEY, DOWN_KEY
    <3> QED
      BY <1>0, <2>1, <3>1 DEF TypeOK, KeyKnown, KeyActsOnce, PollKey
  <2>2. CASE ~PollKey
    BY <2>2 DEF KeyActsOnce, program_pit, Sti, TakeKey, TestPaused, DrawFrame, delay_real,
                    EmptyGate
  <2> QED
    BY <2>1, <2>2
<1> QED
  BY <1>2, <1>5, <1>6, <1>7 DEF IInv

(* The timer interrupt. *)
LEMMA TimeKeepsIInv == IInv /\ handler_time => IInv'
<1> SUFFICES ASSUME IInv, handler_time PROVE IInv'
  OBVIOUS
<1> USE DEF mainVars, keyVars, mouseVars, devVars
<1>0. TypeOK /\ RequestMatchesByte
  BY DEF IInv
<1>1. /\ pic' \in Pair /\ Idle(pic')
      /\ Latched(pic', 1) => Latched(pic, 1)
      /\ Latched(pic', 12) => Latched(pic, 12)
  BY HandlerReadsItsByte DEF handler_time
<1>2. UNCHANGED <<mainVars, keyVars, mouseVars, devVars>>
  BY DEF handler_time
<1>3. ServiceDrained' /\ RequestMatchesByte'
  BY <1>0, <1>1, <1>2 DEF ServiceDrained, RequestMatchesByte
<1>4. elapsed' \in 0..DelayTicks
  BY <1>0, EfiLoopAssumption DEF TypeOK, handler_time
<1>5. TypeOK'
  BY <1>0, <1>1, <1>2, <1>4 DEF TypeOK
<1>6. KeyKnown' /\ KeyActsOnce' /\ PacketAligned'
  BY <1>2 DEF IInv, KeyKnown, KeyActsOnce, PacketAligned
<1> QED
  BY <1>3, <1>5, <1>6 DEF IInv

(* The scancode becomes g_last_key and is delivered in the same step. *)
LEMMA KeyboardKeepsIInv == IInv /\ handler_keyboard => IInv'
<1> SUFFICES ASSUME IInv, handler_keyboard PROVE IInv'
  OBVIOUS
<1> USE DEF mainVars, keyVars, mouseVars, devVars
<1>0. TypeOK /\ RequestMatchesByte /\ KeyActsOnce /\ PacketAligned
  BY DEF IInv
<1>1. /\ pic' \in Pair /\ Idle(pic')
      /\ ~Latched(pic', 1) /\ (Latched(pic', 12) => Latched(pic, 12))
      /\ obuf.src = "kbd"
  BY HandlerReadsItsByte DEF handler_keyboard
<1>2. ~Latched(pic', 12)
  BY <1>0, <1>1 DEF RequestMatchesByte
<1>3. ServiceDrained' /\ RequestMatchesByte'
  BY <1>1, <1>2 DEF ServiceDrained, RequestMatchesByte
<1>4. /\ UNCHANGED <<mainVars, elapsed, mouseVars, sent, phase>>
      /\ obuf' = [obuf EXCEPT !.src = "none"]
      /\ last_key' = obuf.byte /\ delivered' = delivered \cup {obuf.byte}
  BY DEF handler_keyboard, ReadDataPort
<1>5. obuf.byte \in Bytes /\ obuf' \in [src : {"none", "kbd", "aux"}, byte : Bytes]
      /\ obuf'.src = "none"
  BY <1>0, <1>4 DEF TypeOK
<1>6. last_key' \in Bytes /\ delivered' \subseteq Bytes
  BY <1>0, <1>4, <1>5 DEF TypeOK
<1>7. TypeOK'
  BY <1>0, <1>1, <1>4, <1>5, <1>6 DEF TypeOK
<1>8. KeyKnown' /\ KeyActsOnce'
  BY <1>0, <1>4 DEF KeyKnown, KeyActsOnce
<1>9. PacketAligned'
  BY <1>0, <1>1, <1>4, <1>5 DEF PacketAligned
<1> QED
  BY <1>3, <1>7, <1>8, <1>9 DEF IInv

(* A coordinate that is clipped is a natural number. *)
LEMMA ClipType ==
  ASSUME NEW x \in Nat, NEW b \in Bytes
  PROVE  Clip(x + Int8(b)) \in Nat /\ Clip(x - Int8(b)) \in Nat
BY DEF Clip, Int8, Bytes

(* The byte of the mouse goes where the mouse counted it. *)
LEMMA MouseKeepsIInv == IInv /\ handler_mouse => IInv'
<1> SUFFICES ASSUME IInv, handler_mouse PROVE IInv'
  OBVIOUS
<1> USE DEF mainVars, keyVars, mouseVars, devVars
<1>0. TypeOK /\ RequestMatchesByte /\ PacketAligned
  BY DEF IInv
<1>1. /\ pic' \in Pair /\ Idle(pic')
      /\ ~Latched(pic', 12) /\ (Latched(pic', 1) => Latched(pic, 1))
      /\ obuf.src = "aux"
  BY HandlerReadsItsByte DEF handler_mouse
<1>2. ~Latched(pic', 1)
  BY <1>0, <1>1 DEF RequestMatchesByte
<1>3. ServiceDrained' /\ RequestMatchesByte'
  BY <1>1, <1>2 DEF ServiceDrained, RequestMatchesByte
<1>4. /\ UNCHANGED <<mainVars, keyVars, elapsed, sent, phase>>
      /\ obuf' = [obuf EXCEPT !.src = "none"]
      /\ packet' = [packet EXCEPT ![byte_index] = obuf.byte]
  BY DEF handler_mouse, ReadDataPort, PacketWith
<1>5. /\ obuf.byte \in Bytes /\ obuf' \in [src : {"none", "kbd", "aux"}, byte : Bytes]
      /\ obuf'.src = "none"
      /\ packet' \in [0..2 -> Bytes]
  BY <1>0, <1>4 DEF TypeOK
<1>6. /\ byte_index' = (byte_index + 1) % 3
      /\ byte_index' \in 0..2 /\ mouse_x' \in Nat /\ mouse_y' \in Nat
  <2>1. CASE byte_index = 2
    BY <1>0, <1>5, <2>1, ClipType DEF TypeOK, handler_mouse, Move
  <2>2. CASE byte_index # 2
    BY <1>0, <2>2 DEF TypeOK, handler_mouse
  <2> QED
    BY <2>1, <2>2
<1>7. TypeOK'
  BY <1>0, <1>1, <1>4, <1>5, <1>6 DEF TypeOK
<1>8. KeyKnown' /\ KeyActsOnce'
  BY <1>4 DEF IInv, KeyKnown, KeyActsOnce
<1>9. PacketAligned'
  <2>1. phase = (byte_index + 1) % 3 /\ obuf.byte = sent[byte_index]
    BY <1>0, <1>1 DEF PacketAligned
  <2>2. \A i \in 0..2 : i < byte_index' => packet'[i] = sent[i]
    BY <1>0, <1>4, <1>6, <2>1 DEF PacketAligned, TypeOK
  <2> QED
    BY <1>0, <1>4, <1>5, <1>6, <2>1, <2>2 DEF PacketAligned, TypeOK
<1> QED
  BY <1>3, <1>7, <1>8, <1>9 DEF IInv

-----------------------------------------------------------------------------
(* The 8042 only fills an empty buffer, so that a latched request of the   *)
(* other device cannot be left without its byte.                           *)
LEMMA DeviceKeepsIInv == IInv /\ Device => IInv'
<1> SUFFICES ASSUME IInv, Device PROVE IInv'
  OBVIOUS
<1> USE DEF mainVars, keyVars, mouseVars, devVars
<1>0. TypeOK /\ ServiceDrained /\ RequestMatchesByte /\ PacketAligned
  BY DEF IInv
<1>1. pic \in Pair /\ Idle(pic)
  BY <1>0 DEF TypeOK, ServiceDrained
<1>2. 0 \in IRQs /\ 1 \in IRQs /\ 12 \in IRQs
  BY DEF IRQs
<1>3. ASSUME NEW irq \in IRQs, pic' = Raise(pic, irq)
      PROVE  /\ pic' \in Pair /\ ServiceDrained'
             /\ Latched(pic', 1) => irq = 1 \/ Latched(pic, 1)
             /\ Latched(pic', 12) => irq = 12 \/ Latched(pic, 12)
  BY <1>1, <1>2, <1>3, RaiseType DEF ServiceDrained, Idle
<1>4. UNCHANGED <<mainVars, keyVars, elapsed, mouseVars>>
  BY DEF Device, TimerTick, KeyEvent, MouseByte, StrayIrq
<1>5. KeyKnown' /\ KeyActsOnce'
  BY <1>4 DEF IInv, KeyKnown, KeyActsOnce
<1>6. ASSUME NEW irq \in IRQs \ {1, 12}, pic' = Raise(pic, irq), UNCHANGED devVars
      PROVE  TypeOK' /\ ServiceDrained' /\ RequestMatchesByte' /\ PacketAligned'
  <2>1. pic' \in Pair /\ ServiceDrained' /\ RequestMatchesByte'
    BY <1>0, <1>3, <1>6 DEF RequestMatchesByte
  <2>2. TypeOK'
    BY <1>0, <1>4, <1>6, <2>1 DEF TypeOK
  <2>3. PacketAligned'
    BY <1>0, <1>4, <1>6 DEF PacketAligned
  <2> QED
    BY <2>1, <2>2, <2>3
<1>7. CASE TimerTick
  BY <1>2, <1>5, <1>6, <1>7 DEF TimerTick, IInv
<1>8. CASE \E irq \in StrayLines : StrayIrq(irq)
  BY <1>5, <1>6, <1>8, EfiLoopAssumption DEF StrayIrq, IInv
<1>9. ASSUME NEW k \in Scancodes, KeyEvent(k)
      PROVE  TypeOK' /\ ServiceDrained' /\ RequestMatchesByte' /\ PacketAligned'
  <2>1. /\ obuf.src = "none" /\ pic' = Raise(pic, 1) /\ UNCHANGED <<sent, phase>>
        /\ obuf' = [src |-> "kbd", byte |-> k] /\ k \in Bytes
    BY <1>9, EfiLoopAssumption DEF KeyEvent
  <2>2. pic' \in Pair /\ ServiceDrained' /\ RequestMatchesByte'
    BY <1>0, <1>2, <1>3, <2>1 DEF RequestMatchesByte
  <2>3. TypeOK'
    BY <1>0, <1>4, <2>1, <2>2 DEF TypeOK
  <2>4. PacketAligned'
    BY <1>0, <1>4, <2>1 DEF PacketAligned
  <2> QED
    BY <2>2, <2>3, <2>4
<1>10. ASSUME NEW b \in MouseBytes, MouseByte(b)
       PROVE  TypeOK' /\ ServiceDrained' /\ RequestMatchesByte' /\ PacketAligned'
  <2>1. /\ obuf.src = "none" /\ pic' = Raise(pic, 12) /\ b \in Bytes
        /\ sent' = [sent EXCEPT ![phase] = b] /\ phase' = (phase + 1) % 3
        /\ obuf' = [src |-> "aux", byte |-> b]
    BY <1>10, EfiLoopAssumption DEF MouseByte
  <2>2. pic' \in Pair /\ ServiceDrained' /\ RequestMatchesByte'
    BY <1>0, <1>2, <1>3, <2>1 DEF RequestMatchesByte
  <2>3. TypeOK'
    BY <1>0, <1>4, <2>1, <2>2 DEF TypeOK
  <2>4. phase = byte_index /\ byte_index \in 0..2
    BY <1>0, <2>1 DEF PacketAligned, TypeOK
  <2>5. PacketAligned'
    BY <1>0, <1>4, <2>1, <2>4 DEF PacketAligned, TypeOK
  <2> QED
    BY <2>2, <2>3, <2>5
<1> QED
  BY <1>5, <1>7, <1>8, <1>9, <1>10 DEF Device, IInv

(* Every step keeps it. *)
LEMMA NextIInv == IInv /\ [Next]_vars => IInv'
<1> SUFFICES ASSUME IInv, [Next]_vars PROVE IInv'
  OBVIOUS
<1>1. CASE UNCHANGED vars
  BY <1>1 DEF IInv, TypeOK, ServiceDrained, RequestMatchesByte, KeyKnown, KeyActsOnce,
       PacketAligned, Idle, Latched, vars, mainVars, keyVars, mouseVars, devVars
<1>2. CASE Next
  BY <1>2, RemapKeepsIInv, MainKeepsIInv, TimeKeepsIInv, KeyboardKeepsIInv,
     MouseKeepsIInv, DeviceKeepsIInv DEF Next, MainStep
<1> QED
  BY <1>1, <1>2

(* The inductive invariant. *)
THEOREM AlwaysIInv == Spec => []IInv
<1>1. Init => IInv
  BY InitIInv
<1>2. IInv /\ [Next]_vars => IInv'
  BY NextIInv
<1> QED
  BY <1>1, <1>2, PTL DEF Spec

(* The state of the kernel keeps its type, so that handler_mouse never     *)
(* leaves a negative coordinate, for every byte the mouse may send.        *)
THEOREM TypeCorrect == Spec => []TypeOK
<1>1. IInv => TypeOK
  BY DEF IInv
<1> QED
  BY <1>1, AlwaysIInv, PTL

(* send_eoi ends exactly the interrupt a handler was called for, whatever  *)
(* lines are raised meanwhile.                                             *)
THEOREM ServiceEnds == Spec => []ServiceDrained
<1>1. IInv => ServiceDrained
  BY DEF IInv
<1> QED
  BY <1>1, AlwaysIInv, PTL

(* No delivery of handler_keyboard makes main act twice, although main     *)
(* loads g_last_key and clears it in different steps.                      *)
THEOREM EveryKeyActsOnce == Spec => []KeyActsOnce
<1>1. IInv => KeyActsOnce
  BY DEF IInv
<1> QED
  BY <1>1, AlwaysIInv, PTL

(* handler_mouse never loses the boundary of the packets, although the     *)
(* keyboard shares the output buffer.                                      *)
THEOREM PacketsStayAligned == Spec => []PacketAligned
<1>1. IInv => PacketAligned
  BY DEF IInv
<1> QED
  BY <1>1, AlwaysIInv, PTL

-----------------------------------------------------------------------------
(* How far remap_pic has come, and the masks that it leaves: with both of  *)
(* them on the master, the second one counts.                              *)
PairProgrammed ==
  /\ pc = "remap" => Progress(pic, IF step < 9 THEN step - 1 ELSE 8)
  /\ pc = "remap" /\ step = 10 => pic.m.imr = BitsOf(248)
  /\ pc # "remap" => /\ Progress(pic, 8)
                     /\ pic.m.imr = BitsOf(IF Pic2MaskPort = PIC2_DATA THEN 248 ELSE 239)
                     /\ Pic2MaskPort = PIC2_DATA => pic.s.imr = BitsOf(239)

(* A step that neither moves remap_pic on nor programs the pair. *)
LEMMA SetupKept ==
  ASSUME PairProgrammed, Setup(pic') = Setup(pic), step' = step,
         pc' = "remap" <=> pc = "remap"
  PROVE  PairProgrammed'
<1>1. \A k : Progress(pic, k) => Progress(pic', k)
  BY ProgressSetup
<1>2. pic'.m.imr = pic.m.imr /\ pic'.s.imr = pic.s.imr
  BY DEF Setup
<1> QED
  BY <1>1, <1>2 DEF PairProgrammed

(* A write of remap_pic. *)
LEMMA RemapProgresses == ASSUME IInv, PairProgrammed, remap_pic PROVE PairProgrammed'
<1>0. step \in 1..10 /\ pic \in Pair /\ pc = "remap"
  BY DEF IInv, TypeOK, remap_pic
<1>1. /\ step < 10 => step' = step + 1 /\ pc' = "remap"
      /\ step = 10 => step' = 10 /\ pc' = "pit"
  <2>1. Len(RemapWrites) = 10
    BY <1>0, RemapWritesType
  <2> QED
    BY <1>0, <2>1 DEF remap_pic
<1>2. CASE step < 9
  <2>1. step - 1 \in 0..7 /\ Progress(pic, step - 1) /\ step - 1 + 1 = step
    BY <1>0, <1>2 DEF PairProgrammed
  <2>2. RemapWrites[step] = InitWrites[step]
    BY <1>0, <1>2 DEF RemapWrites, InitWrites
  <2>3. pic' = Outb(pic, InitWrites[step - 1 + 1][1], InitWrites[step - 1 + 1][2])
    BY <2>1, <2>2 DEF remap_pic
  <2>4. Progress(pic', step)
    BY <1>0, <2>1, <2>3, ProgressWrite
  <2> QED
    BY <1>0, <1>1, <1>2, <2>4 DEF PairProgrammed
<1>3. CASE step >= 9
  <2>1. Progress(pic, 8)
    BY <1>0, <1>3 DEF PairProgrammed
  <2>2. /\ step = 9 => RemapWrites[step] = <<PIC1_DATA, 248>>
        /\ step = 10 => RemapWrites[step] = <<Pic2MaskPort, 239>>
        /\ 248 \in Bytes /\ 239 \in Bytes /\ PIC1_DATA # PIC2_DATA
    BY DEF RemapWrites, Bytes, PIC1_DATA, PIC2_DATA
  <2>3. CASE step = 9
    <3>1. Progress(pic', 8) /\ pic'.m.imr = BitsOf(248)
      BY <1>0, <2>1, <2>2, <2>3, MaskWrite DEF remap_pic
    <3> QED
      BY <1>0, <1>1, <2>3, <3>1 DEF PairProgrammed
  <2>4. CASE step = 10
    <3>0. pic.m.imr = BitsOf(248) /\ Pic2MaskPort \in {PIC1_DATA, PIC2_DATA}
      BY <1>0, <2>4, EfiLoopAssumption DEF PairProgrammed
    <3>1. /\ Progress(pic', 8)
          /\ pic'.m.imr = IF Pic2MaskPort = PIC1_DATA THEN BitsOf(239) ELSE pic.m.imr
          /\ Pic2MaskPort = PIC2_DATA => pic'.s.imr = BitsOf(239)
      BY <1>0, <2>1, <2>2, <2>4, <3>0, MaskWrite DEF remap_pic
    <3> QED
      BY <1>0, <1>1, <2>2, <2>4, <3>0, <3>1 DEF PairProgrammed
  <2> QED
    BY <1>0, <1>3, <2>3, <2>4
<1> QED
  BY <1>0, <1>2, <1>3

(* A handler leaves the setup of the pair alone. *)
LEMMA HandlerSetup ==
  ASSUME IInv, NEW irq, Interrupt(irq), pic' = send_eoi(Acknowledge(pic, irq), irq)
  PROVE  Setup(pic') = Setup(pic)
<1>1. pic \in Pair /\ Idle(pic)
  BY DEF IInv, TypeOK, ServiceDrained
<1>2. irq \in IRQs /\ irq # CASCADE
  BY <1>1, DeliverableLatched DEF Interrupt
<1> DEFINE a == Acknowledge(pic, irq)
           b == IF irq >= 8 THEN Outb(a, PIC2_COMMAND, PIC_EOI) ELSE a
<1>3. a \in Pair /\ Setup(a) = Setup(pic)
  BY <1>1, <1>2, AcknowledgeIdle, AcknowledgeSetup
<1>4. pic' = Outb(b, PIC1_COMMAND, PIC_EOI)
  BY DEF send_eoi
<1> HIDE DEF a
<1>5. PIC2_COMMAND \in Ports /\ PIC_EOI \in Bytes
  BY DEF Ports, PIC_EOI, Bytes
<1>6. b \in Pair /\ Setup(b) = Setup(a)
  BY <1>3, <1>5, OutbType, EoiSetup
<1> HIDE DEF b
<1> QED
  BY <1>3, <1>4, <1>6, EoiSetup

(* Every step keeps what the writes of remap_pic have reached. *)
LEMMA NextProgrammed == IInv /\ PairProgrammed /\ [Next]_vars => PairProgrammed'
<1> SUFFICES ASSUME IInv, PairProgrammed, [Next]_vars PROVE PairProgrammed'
  OBVIOUS
<1> USE DEF mainVars
<1>0. pic \in Pair
  BY DEF IInv, TypeOK
<1>1. CASE remap_pic
  BY <1>1, RemapProgresses
<1>2. CASE \/ program_pit \/ Sti \/ PollKey \/ TakeKey \/ TestPaused \/ DrawFrame \/ delay_real
            \/ EmptyGate
  <2>1. pic' = pic /\ step' = step /\ pc # "remap" /\ pc' # "remap"
    BY <1>2 DEF program_pit, Sti, PollKey, TakeKey, TestPaused, DrawFrame, delay_real, EmptyGate,
                    Interrupt, InterruptsOn
  <2> QED
    BY <2>1, SetupKept
<1>3. CASE handler_time \/ handler_keyboard \/ handler_mouse
  <2>1. Setup(pic') = Setup(pic) /\ step' = step /\ pc' = pc
    BY <1>3, HandlerSetup DEF handler_time, handler_keyboard, handler_mouse
  <2> QED
    BY <2>1, SetupKept
<1>4. CASE Device
  <2>1. \E irq \in IRQs : pic' = Raise(pic, irq)
    BY <1>4, EfiLoopAssumption DEF Device, TimerTick, KeyEvent, MouseByte, StrayIrq, IRQs
  <2>2. step' = step /\ pc' = pc
    BY <1>4 DEF Device, TimerTick, KeyEvent, MouseByte, StrayIrq
  <2>3. Setup(pic') = Setup(pic)
    BY <1>0, <2>1, RaiseSetup
  <2> QED
    BY <2>2, <2>3, SetupKept
<1>5. CASE UNCHANGED vars
  BY <1>5, SetupKept DEF vars
<1> QED
  BY <1>1, <1>2, <1>3, <1>4, <1>5 DEF Next, MainStep

(* The lines that the two masks leave open. *)
LEMMA OpenLines ==
  /\ \A i \in Lines : i \notin BitsOf(248) => i \in {0, 1, 2}
  /\ \A i \in Lines : i \notin BitsOf(239) => i = 4
<1>1. 248 \in Bytes /\ 239 \in Bytes
  BY DEF Bytes
<1>2. 3 \in BitsOf(248) /\ 4 \in BitsOf(248) /\ 5 \in BitsOf(248)
      /\ 6 \in BitsOf(248) /\ 7 \in BitsOf(248)
  BY <1>1, EightBits
<1>3. 0 \in BitsOf(239) /\ 1 \in BitsOf(239) /\ 2 \in BitsOf(239) /\ 3 \in BitsOf(239)
      /\ 5 \in BitsOf(239) /\ 6 \in BitsOf(239) /\ 7 \in BitsOf(239)
  BY <1>1, EightBits
<1>4. \A i \in Lines : i \in {0, 1, 2, 3, 4, 5, 6, 7}
  BY DEF Lines
<1> QED
  BY <1>2, <1>3, <1>4

(* With the masks written, only the open lines get through. *)
LEMMA ProgrammedOpen == IInv /\ PairProgrammed => OnlyOpenLines
<1> SUFFICES ASSUME IInv, PairProgrammed, InterruptsOn, NEW irq \in Deliverable(pic)
             PROVE  irq \in LinesLeftOpen /\ VectorOf(pic, irq) = 32 + irq
  BY DEF OnlyOpenLines
<1>1. /\ pic \in Pair /\ pic.m.base = 32 /\ pic.s.base = 40
      /\ pic.m.imr = BitsOf(IF Pic2MaskPort = PIC2_DATA THEN 248 ELSE 239)
      /\ Pic2MaskPort = PIC2_DATA => pic.s.imr = BitsOf(239)
  BY DEF IInv, TypeOK, PairProgrammed, InterruptsOn, Progress, Told
<1>2. irq \in IRQs /\ irq # CASCADE
  BY <1>1, DeliverableLatched
<1>3. VectorOf(pic, irq) = 32 + irq
  BY <1>1, <1>2 DEF VectorOf, IRQs
<1>4. /\ irq < 8 => irq \in Lines \ pic.m.imr
      /\ irq >= 8 => irq - 8 \in Lines \ pic.s.imr /\ CASCADE \in Lines \ pic.m.imr
  BY <1>1, DeliverableOpen DEF CASCADE, Lines
<1>5. ASSUME Pic2MaskPort = PIC2_DATA PROVE irq \in LinesLeftOpen
  <2>0. pic.m.imr = BitsOf(248) /\ pic.s.imr = BitsOf(239) /\ LinesLeftOpen = {0, 1, 12}
    BY <1>1, <1>5 DEF LinesLeftOpen
  <2>1. CASE irq < 8
    <3>1. irq \in {0, 1, 2}
      BY <1>4, <2>0, <2>1, OpenLines
    <3> QED
      BY <1>2, <2>0, <3>1 DEF CASCADE
  <2>2. CASE irq >= 8
    <3>1. irq - 8 = 4
      <4>1. irq - 8 \in Lines /\ irq - 8 \notin BitsOf(239)
        BY <1>4, <2>0, <2>2
      <4> QED
        BY <4>1, OpenLines, Zenon
    <3> QED
      BY <1>2, <2>0, <3>1 DEF IRQs
  <2> QED
    BY <1>2, <2>1, <2>2 DEF IRQs
<1>6. ASSUME Pic2MaskPort # PIC2_DATA PROVE irq \in LinesLeftOpen
  <2>0. pic.m.imr = BitsOf(239) /\ LinesLeftOpen = {4}
    BY <1>1, <1>6 DEF LinesLeftOpen
  <2>1. CASCADE \notin Lines \ pic.m.imr
    BY <2>0, OpenLines DEF CASCADE
  <2>2. irq < 8
    BY <1>2, <1>4, <2>1 DEF IRQs
  <2> QED
    BY <1>4, <2>0, <2>2, OpenLines
<1> QED
  BY <1>3, <1>5, <1>6

(* Whatever lines the machine raises and whichever port the second mask    *)
(* goes to, remap_pic lets through the lines it leaves open and no other,  *)
(* each on its own vector.  For the port in the source that is line 4.     *)
THEOREM NothingButOpenLines == Spec => []OnlyOpenLines
<1>1. Init => PairProgrammed
  BY DEF Init, PairProgrammed, Progress, Told
<1> QED
  BY <1>1, ProgrammedOpen, NextProgrammed, AlwaysIInv, PTL DEF Spec

-----------------------------------------------------------------------------
(* From the end of remap_pic on no step parts a byte in the output buffer  *)
(* from its request: a handler takes back only the request whose byte it   *)
(* reads.                                                                  *)
LEMMA NextKeepsRequest ==
  ASSUME IInv, Next, pc # "remap", Requested
  PROVE  Requested'
<1> USE DEF mainVars, keyVars, mouseVars, devVars
<1>0. pic \in Pair
  BY DEF IInv, TypeOK
<1>1. CASE \/ program_pit \/ Sti \/ PollKey \/ TakeKey \/ TestPaused \/ DrawFrame \/ delay_real
            \/ EmptyGate
  <2>1. pic' = pic /\ obuf' = obuf
    BY <1>1 DEF program_pit, Sti, PollKey, TakeKey, TestPaused, DrawFrame, delay_real, EmptyGate
  <2> QED
    BY <2>1 DEF Requested, Latched
<1>2. CASE handler_time
  <2>1. obuf' = obuf /\ (Latched(pic', 1) <=> Latched(pic, 1))
        /\ (Latched(pic', 12) <=> Latched(pic, 12))
    BY <1>2, HandlerReadsItsByte DEF handler_time
  <2> QED
    BY <2>1 DEF Requested
<1>3. CASE handler_keyboard \/ handler_mouse
  <2>1. obuf'.src = "none"
    BY <1>3 DEF handler_keyboard, handler_mouse, ReadDataPort, IInv, TypeOK
  <2> QED
    BY <2>1 DEF Requested
<1>4. ASSUME NEW irq \in IRQs, pic' = Raise(pic, irq)
      PROVE  Latched(pic', irq) /\ \A i \in IRQs : Latched(pic, i) => Latched(pic', i)
  BY <1>0, <1>4, RaiseLatches
<1>5. 0 \in IRQs /\ 1 \in IRQs /\ 12 \in IRQs
  BY DEF IRQs
<1>6. CASE TimerTick \/ \E irq \in StrayLines : StrayIrq(irq)
  <2>1. obuf' = obuf /\ \E irq \in IRQs : pic' = Raise(pic, irq)
    BY <1>5, <1>6, EfiLoopAssumption DEF TimerTick, StrayIrq
  <2> QED
    BY <1>4, <1>5, <2>1 DEF Requested
<1>7. CASE \E k \in Scancodes : KeyEvent(k)
  <2>1. obuf'.src = "kbd" /\ pic' = Raise(pic, 1)
    BY <1>7 DEF KeyEvent
  <2> QED
    BY <1>4, <1>5, <2>1 DEF Requested
<1>8. CASE \E b \in MouseBytes : MouseByte(b)
  <2>1. obuf'.src = "aux" /\ pic' = Raise(pic, 12)
    BY <1>8 DEF MouseByte
  <2> QED
    BY <1>4, <1>5, <2>1 DEF Requested
<1>9. ~remap_pic
  BY DEF remap_pic
<1> QED
  BY <1>1, <1>2, <1>3, <1>6, <1>7, <1>8, <1>9 DEF Next, MainStep, Device

(* Once remap_pic is over, whatever interrupts and devices do, no byte is  *)
(* left in the 8042 without its request.                                   *)
THEOREM RequestsAreKept == Spec => RequestKept
<1> DEFINE A == pc # "remap" /\ Requested => Requested'
<1>1. ASSUME IInv, [Next]_vars PROVE [A]_vars
  BY <1>1, NextKeepsRequest
<1> QED
  BY <1>1, AlwaysIInv, PTL DEF Spec, RequestKept
=============================================================================
