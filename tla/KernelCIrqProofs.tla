-------------------------- MODULE KernelCIrqProofs --------------------------
(***************************************************************************)
(* What the interrupts and the keyboard of kernel-c promise, for every set *)
(* of keys and lines and every capacity of the keyboard's queue.           *)
(*                                                                         *)
(* That line 1 stays in service (OnlyLineOneLeft) is the heart of it: an   *)
(* interrupt comes before all that is in service, so that the end irq_     *)
(* handler sends is its own, and line 1 itself is not delivered again.     *)
(* last_scancode tells whether keyboard_handler has run because a request  *)
(* of line 1 always finds a scancode in the 8042 (ScancodeWaits).          *)
(***************************************************************************)
EXTENDS KernelCIrq, Pic8259Proofs

(* The pair is initialized twice; in between nothing is promised of it. *)
PairProgrammed ==
  /\ pc \in {"isr_install", "pic_init"} => Progress(pic, IF step < 9 THEN step - 1 ELSE 8)
  /\ pc \notin {"isr_install", "gates", "pic_init"} => Progress(pic, 8)
  /\ pc \notin {"isr_install", "pic_init"} => step = 1

GatesSet ==
  /\ pc \notin {"isr_install", "gates"} => \A v \in Vectors : gates[v] # "none"
  /\ \A v \in Vectors : gates[v] = "keyboard" => v = 33

(* No handler runs before sti. *)
NoKeyBeforeSti == ~InterruptsOn => last_scancode = 0

(* The keyboard sends no 0, and asks for an interrupt only for a byte that *)
(* is there.                                                               *)
ScancodeWaits ==
  /\ \A i \in 1..Len(kbdq) : kbdq[i] # 0
  /\ 1 \in pic.m.irr => obuf # 0

IInv == /\ TypeOK /\ PairProgrammed /\ GatesSet /\ NoKeyBeforeSti
        /\ ScancodeWaits /\ OnlyLineOneLeft

-----------------------------------------------------------------------------
(* The writes of pic_remap go to ports of the pair. *)
LEMMA RemapWritesType ==
  ASSUME NEW i \in 1..10
  PROVE  /\ RemapWrites[i][1] \in Ports
         /\ RemapWrites[i][2] \in Bytes
         /\ Len(RemapWrites) = 10
         /\ i < 9 => RemapWrites[i] = InitWrites[i]
         /\ i >= 9 => RemapWrites[i][1] \in {PIC1_DATA, PIC2_DATA}
<1>1. {PIC_INIT, 32, 40, 4, 2, 1, 0} \subseteq Bytes
  BY DEF Bytes, PIC_INIT
<1>2. Len(RemapWrites) = 10
  BY DEF RemapWrites
<1>3. /\ RemapWrites[i][1] \in Ports
      /\ RemapWrites[i][2] \in {PIC_INIT, 32, 40, 4, 2, 1, 0}
  BY DEF RemapWrites, Ports
<1>4. i < 9 => RemapWrites[i] = InitWrites[i]
  BY DEF RemapWrites, InitWrites
<1>5. i >= 9 => RemapWrites[i][1] \in {PIC1_DATA, PIC2_DATA}
  BY DEF RemapWrites
<1> QED
  BY <1>1, <1>2, <1>3, <1>4, <1>5

(* Every vector the pair can deliver is one of the sixteen with a gate. *)
LEMMA IInvVectorsGated == IInv => VectorsGated
<1> SUFFICES ASSUME IInv, InterruptsOn, NEW irq \in Deliverable(pic)
             PROVE  VectorOf(pic, irq) \in Vectors /\ gates[VectorOf(pic, irq)] # "none"
  BY DEF VectorsGated
<1>1. /\ pic \in Pair /\ Progress(pic, 8)
      /\ \A v \in Vectors : gates[v] # "none"
  BY DEF IInv, TypeOK, PairProgrammed, GatesSet, InterruptsOn
<1>2. pic.m.base = 32 /\ pic.s.base = 40
  BY <1>1 DEF Progress, Told
<1>3. irq \in IRQs
  BY <1>1, DeliverableLatched
<1>4. VectorOf(pic, irq) \in Vectors
  BY <1>2, <1>3 DEF VectorOf, Vectors, IRQs
<1> QED
  BY <1>1, <1>4

(* irq_handler leaves the pair programmed as it was, and the master's      *)
(* service as it was before the interrupt, whatever number it was given.   *)
LEMMA HandlerEnds ==
  ASSUME NEW p \in Pair, NEW irq \in Deliverable(p), NEW n,
         NEW q, q = irq_handler(Acknowledge(p, irq), n)
  PROVE  /\ q \in Pair /\ Setup(q) = Setup(p)
         /\ q.m.isr = p.m.isr /\ q.m.irr \subseteq p.m.irr
<1>1. PIC1_COMMAND \in Ports /\ PIC2_COMMAND \in Ports /\ PIC_EOI \in Bytes
  BY DEF Ports, Bytes, PIC_EOI
<1>2. irq \in IRQs
  BY DeliverableLatched
<1> DEFINE a == Acknowledge(p, irq)
           r == IF n >= 40 THEN Outb(a, PIC2_COMMAND, PIC_EOI) ELSE a
<1>3. a \in Pair /\ Setup(a) = Setup(p) /\ a.m.irr \subseteq p.m.irr
  BY <1>2, AcknowledgeType, AcknowledgeSetup, AcknowledgeMaster
<1>4. q = Outb(r, PIC1_COMMAND, PIC_EOI)
  BY DEF irq_handler
<1> HIDE DEF a
<1>5. r \in Pair /\ Setup(r) = Setup(a) /\ r.m = a.m
  <2>1. CASE n >= 40
    BY <1>1, <1>3, <2>1, OutbType, EoiSetup, CommandPorts DEF Pair
  <2>2. CASE ~(n >= 40)
    BY <1>3, <2>2
  <2> QED
    BY <2>1, <2>2
<1> HIDE DEF r
<1>6. q \in Pair /\ Setup(q) = Setup(r)
  BY <1>1, <1>4, <1>5, OutbType, EoiSetup
<1>7. q.m.isr = p.m.isr /\ q.m.irr = r.m.irr
  BY <1>4, <1>5, EoiEndsLatest DEF a
<1> QED
  BY <1>3, <1>5, <1>6, <1>7

(* The interrupt that keyboard_common_stub serves is that of line 1, and   *)
(* nothing was in service on the master when it came.                      *)
LEMMA KeyboardIsLineOne ==
  ASSUME IInv, InterruptsOn, NEW irq \in Deliverable(pic),
         gates[VectorOf(pic, irq)] = "keyboard"
  PROVE  irq = 1 /\ last_scancode = 0 /\ obuf # 0
<1>1. pic \in Pair /\ pic.m.base = 32 /\ pic.s.base = 40 /\ GatesSet
  BY DEF IInv, TypeOK, PairProgrammed, InterruptsOn, Progress, Told
<1>2. irq \in IRQs /\ Latched(pic, irq)
  BY <1>1, DeliverableLatched
<1>3. irq = 1
  <2>1. VectorOf(pic, irq) = irq + 32 /\ irq + 32 \in Vectors
    BY <1>1, <1>2 DEF VectorOf, IRQs, Vectors
  <2>2. irq + 32 = 33
    BY <1>1, <2>1 DEF GatesSet
  <2> QED
    BY <1>2, <2>2 DEF IRQs
<1>4. MasterLine(irq) = 1 /\ 1 \in pic.m.irr
  BY <1>2, <1>3 DEF MasterLine, Latched
<1>5. 1 \notin pic.m.isr
  BY <1>1, <1>4, DeliverableFirst
<1> QED
  BY <1>3, <1>4, <1>5 DEF IInv, OnlyLineOneLeft, ScancodeWaits

(* A step of a device or of a handler: main stays where it is. *)
LEMMA SetupKept ==
  ASSUME IInv, UNCHANGED mainVars, Setup(pic') = Setup(pic)
  PROVE  PairProgrammed' /\ GatesSet'
<1>1. \A k : Progress(pic, k) => Progress(pic', k)
  BY ProgressSetup
<1> QED
  BY <1>1 DEF IInv, PairProgrammed, GatesSet, mainVars

-----------------------------------------------------------------------------
(* The invariant holds at the start. *)
LEMMA InitIInv == Init => IInv
<1> SUFFICES ASSUME Init PROVE IInv
  OBVIOUS
<1>1. pic \in Pair
  BY DEF Init, Pair, Chip, Lines, Bytes
<1>2. TypeOK
  BY <1>1, KernelCAssumption DEF Init, TypeOK, Bytes
<1>3. PairProgrammed
  BY DEF Init, PairProgrammed, Progress, Told
<1>4. ScancodeWaits /\ OnlyLineOneLeft
  BY DEF Init, ScancodeWaits, OnlyLineOneLeft
<1> QED
  BY <1>2, <1>3, <1>4 DEF Init, IInv, GatesSet, NoKeyBeforeSti

(* Installing the handlers and programming the pair. *)
LEMMA RemapKeepsIInv == ASSUME IInv, isr_install \/ pic_init PROVE IInv'
<1>0. TypeOK /\ PairProgrammed /\ GatesSet /\ NoKeyBeforeSti /\ ScancodeWaits /\ OnlyLineOneLeft
  BY DEF IInv
<1>1. PICK here, next :
        /\ Remap(here, next)
        /\ \/ here = "isr_install" /\ next = "gates"
           \/ here = "pic_init" /\ next = "keyboard_init"
  BY DEF isr_install, pic_init
<1>2. /\ step \in 1..10 /\ pic \in Pair /\ pc = here /\ Len(RemapWrites) = 10
      /\ pic' = Outb(pic, RemapWrites[step][1], RemapWrites[step][2])
      /\ UNCHANGED <<gates, keyVars, devVars>>
  BY <1>0, <1>1, RemapWritesType DEF TypeOK, Remap
<1>3. pic' \in Pair /\ pic'.m.irr \subseteq pic.m.irr /\ pic'.m.isr \subseteq pic.m.isr
  BY <1>2, RemapWritesType, OutbType
<1>4. /\ step < 10 => step' = step + 1 /\ pc' = here
      /\ step = 10 => step' = 1 /\ pc' = next
  BY <1>1, <1>2 DEF Remap
<1>5. TypeOK'
  BY <1>0, <1>1, <1>2, <1>3, <1>4 DEF TypeOK, keyVars, devVars
<1>6. GatesSet' /\ NoKeyBeforeSti'
  BY <1>0, <1>1, <1>2, <1>4 DEF GatesSet, NoKeyBeforeSti, InterruptsOn, keyVars
<1>7. PairProgrammed'
  <2>1. CASE step < 9
    <3>1. step - 1 \in 0..7 /\ Progress(pic, step - 1) /\ step - 1 + 1 = step
      BY <1>0, <1>1, <1>2, <2>1 DEF PairProgrammed
    <3>2. pic' = Outb(pic, InitWrites[step - 1 + 1][1], InitWrites[step - 1 + 1][2])
      BY <1>2, <2>1, <3>1, RemapWritesType
    <3>3. Progress(pic', step)
      BY <1>2, <3>1, <3>2, ProgressWrite
    <3> QED
      BY <1>1, <1>2, <1>4, <2>1, <3>3 DEF PairProgrammed
  <2>2. CASE step >= 9
    <3>1. Progress(pic, 8)
      BY <1>0, <1>1, <1>2, <2>2 DEF PairProgrammed
    <3>2. Progress(pic', 8)
      BY <1>2, <2>2, <3>1, RemapWritesType, MaskWrite
    <3> QED
      BY <1>1, <1>2, <1>4, <2>2, <3>2 DEF PairProgrammed
  <2> QED
    BY <1>2, <2>1, <2>2
<1>8. ScancodeWaits' /\ OnlyLineOneLeft'
  BY <1>0, <1>1, <1>2, <1>3
     DEF ScancodeWaits, OnlyLineOneLeft, NoKeyBeforeSti, InterruptsOn, keyVars, devVars
<1> QED
  BY <1>5, <1>6, <1>7, <1>8 DEF IInv

(* The steps of main that do not write to the pair. *)
LEMMA QuietKeepsIInv ==
  ASSUME IInv, InstallGates \/ keyboard_init \/ Sti \/ test_keyboard
  PROVE  IInv'
<1>0. TypeOK /\ PairProgrammed /\ GatesSet /\ NoKeyBeforeSti
  BY DEF IInv
<1>1. UNCHANGED <<step, pic, last_scancode, devVars>>
  BY DEF InstallGates, keyboard_init, Sti, test_keyboard, keyVars
<1>2. key_buffer' \subseteq 0..127
  BY <1>0 DEF InstallGates, keyboard_init, Sti, test_keyboard, keyVars, TypeOK
<1>3. gates' \in [Vectors -> {"none", "irq", "keyboard"}] /\ GatesSet'
  <2>1. 33 \in Vectors /\ gates \in [Vectors -> {"none", "irq", "keyboard"}]
    BY <1>0 DEF TypeOK, Vectors
  <2> QED
    BY <1>0, <2>1 DEF GatesSet, InstallGates, keyboard_init, Sti, test_keyboard
<1>4. TypeOK'
  BY <1>0, <1>1, <1>2, <1>3
     DEF TypeOK, devVars, InstallGates, keyboard_init, Sti, test_keyboard
<1>5. PairProgrammed'
  <2>1. CASE InstallGates
    <3>1. step = 1 /\ step' = 1 /\ pc' = "pic_init" /\ Progress(pic', 0)
      BY <1>0, <1>1, <2>1 DEF InstallGates, PairProgrammed, Progress, Told
    <3> QED
      BY <3>1 DEF PairProgrammed
  <2>2. CASE keyboard_init \/ Sti \/ test_keyboard
    BY <1>0, <1>1, <2>2 DEF PairProgrammed, keyboard_init, Sti, test_keyboard
  <2> QED
    BY <2>1, <2>2
<1>6. NoKeyBeforeSti'
  BY <1>0, <1>1
     DEF NoKeyBeforeSti, InterruptsOn, InstallGates, keyboard_init, Sti, test_keyboard
<1>7. ScancodeWaits' /\ OnlyLineOneLeft'
  BY <1>1 DEF IInv, ScancodeWaits, OnlyLineOneLeft, devVars
<1> QED
  BY <1>3, <1>4, <1>5, <1>6, <1>7 DEF IInv

(* An interrupt, from the acknowledgement to the end of its handler. *)
LEMMA IrqKeepsIInv == ASSUME IInv, irq_common_stub PROVE IInv'
<1>0. TypeOK /\ NoKeyBeforeSti /\ ScancodeWaits /\ OnlyLineOneLeft
  BY DEF IInv
<1>1. PICK irq \in Deliverable(pic), n \in IrqNumbers :
        pic' = irq_handler(Acknowledge(pic, irq), n)
  BY DEF irq_common_stub
<1>2. UNCHANGED <<mainVars, keyVars, devVars>>
  BY DEF irq_common_stub
<1>3. pic \in Pair
  BY <1>0 DEF TypeOK
<1>4. /\ pic' \in Pair /\ Setup(pic') = Setup(pic)
      /\ pic'.m.isr = pic.m.isr /\ pic'.m.irr \subseteq pic.m.irr
  BY <1>1, <1>3, HandlerEnds
<1>5. TypeOK' /\ NoKeyBeforeSti'
  BY <1>0, <1>2, <1>4 DEF TypeOK, NoKeyBeforeSti, InterruptsOn, mainVars, keyVars, devVars
<1>6. ScancodeWaits' /\ OnlyLineOneLeft'
  BY <1>0, <1>2, <1>4 DEF ScancodeWaits, OnlyLineOneLeft, keyVars, devVars
<1> QED
  BY <1>2, <1>4, <1>5, <1>6, SetupKept DEF IInv

(* The scancode is read, and line 1 is left in service. *)
LEMMA KeyboardKeepsIInv == ASSUME IInv, keyboard_common_stub PROVE IInv'
<1>0. TypeOK /\ ScancodeWaits /\ OnlyLineOneLeft
  BY DEF IInv
<1>1. PICK irq \in Deliverable(pic) :
        gates[VectorOf(pic, irq)] = "keyboard" /\ pic' = Acknowledge(pic, irq)
  BY DEF keyboard_common_stub
<1>2. /\ UNCHANGED <<mainVars, held, kbdq>> /\ obuf' = 0 /\ InterruptsOn
      /\ last_scancode' = obuf
      /\ key_buffer' = IF obuf >= 128 THEN key_buffer \ {obuf - 128} ELSE key_buffer \cup {obuf}
  BY DEF keyboard_common_stub, keyboard_handler
<1>3. pic \in Pair /\ obuf \in 0..255
  BY <1>0 DEF TypeOK, Bytes
<1>4. irq = 1 /\ last_scancode = 0 /\ obuf # 0
  BY <1>1, <1>2, KeyboardIsLineOne
<1>5. 1 \in IRQs /\ MasterLine(1) = 1
  BY DEF IRQs, MasterLine
<1>6. /\ pic' \in Pair /\ Setup(pic') = Setup(pic)
      /\ pic'.m.isr = pic.m.isr \cup {1} /\ pic'.m.irr = pic.m.irr \ {1}
  <2>1. pic' = Acknowledge(pic, 1)
    BY <1>1, <1>4
  <2>2. Acknowledge(pic, 1) \in Pair
    BY <1>3, <1>5, AcknowledgeType
  <2>3. Setup(Acknowledge(pic, 1)) = Setup(pic)
    BY <1>3, AcknowledgeSetup
  <2>4. /\ Acknowledge(pic, 1).m.isr = pic.m.isr \cup {1}
        /\ Acknowledge(pic, 1).m.irr = pic.m.irr \ {1}
    <3>1. /\ Acknowledge(pic, 1).m.isr = pic.m.isr \cup {MasterLine(1)}
          /\ Acknowledge(pic, 1).m.irr = IF 1 < 8 THEN pic.m.irr \ {1} ELSE pic.m.irr
      BY <1>3, <1>5, AcknowledgeMaster
    <3> QED
      BY <1>5, <3>1
  <2> QED
    BY <2>1, <2>2, <2>3, <2>4
<1>7. TypeOK' /\ NoKeyBeforeSti'
  <2>1. key_buffer' \subseteq 0..127
    BY <1>0, <1>2, <1>3 DEF TypeOK
  <2> QED
    BY <1>0, <1>2, <1>3, <1>6, <2>1
       DEF TypeOK, NoKeyBeforeSti, InterruptsOn, mainVars, Bytes
<1>8. ScancodeWaits' /\ OnlyLineOneLeft'
  BY <1>0, <1>2, <1>4, <1>6 DEF ScancodeWaits, OnlyLineOneLeft
<1> QED
  BY <1>2, <1>6, <1>7, <1>8, SetupKept DEF IInv

(* The user presses or lets go a key: a scancode is queued. *)
LEMMA UserKeepsIInv ==
  ASSUME IInv, NEW key \in Keys, Press(key) \/ Release(key)
  PROVE  IInv'
<1>0. TypeOK /\ NoKeyBeforeSti /\ ScancodeWaits /\ OnlyLineOneLeft
  BY DEF IInv
<1>1. PICK c \in Bytes \ {0} :
        /\ kbdq' = Append(kbdq, c) /\ Len(kbdq) < QueueSize
        /\ held' \subseteq Keys
        /\ UNCHANGED <<mainVars, pic, keyVars, obuf>>
  <2>0. key \in 1..127 /\ held \subseteq Keys
    BY <1>0, KernelCAssumption DEF TypeOK
  <2>1. key \in Bytes \ {0} /\ key + 128 \in Bytes \ {0}
    BY <2>0 DEF Bytes
  <2>2. CASE Press(key)
    BY <2>0, <2>1, <2>2 DEF Press
  <2>3. CASE Release(key)
    BY <2>0, <2>1, <2>3 DEF Release
  <2> QED
    BY <2>2, <2>3
<1>2. /\ kbdq \in Seq(Bytes) /\ Len(kbdq) \in Nat /\ QueueSize \in Nat
      /\ Len(kbdq') = Len(kbdq) + 1 /\ kbdq'[Len(kbdq) + 1] = c
      /\ \A i \in 1..Len(kbdq) : kbdq'[i] = kbdq[i]
      /\ kbdq' \in Seq(Bytes) /\ Len(kbdq') <= QueueSize
  <2>1. kbdq \in Seq(Bytes) /\ QueueSize \in Nat
    BY <1>0, KernelCAssumption DEF TypeOK
  <2> QED
    BY <1>1, <2>1
<1>3. TypeOK' /\ NoKeyBeforeSti' /\ PairProgrammed' /\ GatesSet' /\ OnlyLineOneLeft'
  BY <1>0, <1>1, <1>2 DEF IInv, TypeOK, NoKeyBeforeSti, InterruptsOn, mainVars, keyVars,
                          PairProgrammed, GatesSet, OnlyLineOneLeft
<1>4. ScancodeWaits'
  BY <1>0, <1>1, <1>2 DEF ScancodeWaits
<1> QED
  BY <1>3, <1>4 DEF IInv

(* The 8042 takes the oldest scancode and asks for an interrupt. *)
LEMMA TransferKeepsIInv == ASSUME IInv, Transfer PROVE IInv'
<1>0. TypeOK /\ NoKeyBeforeSti /\ ScancodeWaits /\ OnlyLineOneLeft
  BY DEF IInv
<1>1. /\ kbdq # <<>> /\ obuf' = Head(kbdq) /\ kbdq' = Tail(kbdq)
      /\ pic' = Raise(pic, 1) /\ UNCHANGED <<mainVars, keyVars, held>>
  BY DEF Transfer
<1>2. pic' \in Pair /\ Setup(pic') = Setup(pic) /\ pic'.m.isr = pic.m.isr
  <2>1. pic \in Pair /\ 1 \in IRQs
    BY <1>0 DEF TypeOK, IRQs
  <2>2. Raise(pic, 1) \in Pair /\ Raise(pic, 1).m.isr = pic.m.isr
    BY <2>1, RaiseType
  <2>3. Setup(Raise(pic, 1)) = Setup(pic)
    BY <2>1, RaiseSetup
  <2> QED
    BY <1>1, <2>2, <2>3
<1>3. /\ Len(kbdq) \in Nat \ {0} /\ obuf' = kbdq[1] /\ obuf' \in Bytes
      /\ kbdq' \in Seq(Bytes) /\ Len(kbdq') = Len(kbdq) - 1
      /\ \A i \in 1..Len(kbdq') : kbdq'[i] = kbdq[i + 1]
  <2>1. kbdq \in Seq(Bytes)
    BY <1>0 DEF TypeOK
  <2> QED
    BY <1>1, <2>1
<1>4. TypeOK' /\ NoKeyBeforeSti'
  <2>1. Len(kbdq') <= QueueSize
    BY <1>0, <1>3, KernelCAssumption DEF TypeOK
  <2> QED
    BY <1>0, <1>1, <1>2, <1>3, <2>1 DEF TypeOK, NoKeyBeforeSti, InterruptsOn, mainVars, keyVars
<1>5. ScancodeWaits' /\ OnlyLineOneLeft'
  BY <1>0, <1>1, <1>2, <1>3 DEF ScancodeWaits, OnlyLineOneLeft, keyVars
<1> QED
  BY <1>1, <1>2, <1>4, <1>5, SetupKept DEF IInv

(* A device raises its line. *)
LEMMA LineKeepsIInv == ASSUME IInv, NEW irq \in DeviceLines, LineUp(irq) PROVE IInv'
<1>0. TypeOK /\ NoKeyBeforeSti /\ ScancodeWaits /\ OnlyLineOneLeft
  BY DEF IInv
<1>1. irq \in IRQs /\ irq # 1 /\ 1 \in IRQs /\ pic \in Pair
  BY <1>0, KernelCAssumption DEF TypeOK, IRQs
<1>2. /\ pic' \in Pair /\ Setup(pic') = Setup(pic) /\ pic'.m.isr = pic.m.isr
      /\ UNCHANGED <<mainVars, keyVars, devVars>>
  BY <1>1, RaiseType, RaiseSetup DEF LineUp
<1>3. 1 \in pic'.m.irr => 1 \in pic.m.irr
  <2>1. Latched(pic', 1) => Latched(pic, 1)
    BY <1>1, RaiseType DEF LineUp
  <2> QED
    BY <2>1 DEF Latched
<1>4. TypeOK' /\ NoKeyBeforeSti'
  BY <1>0, <1>2 DEF TypeOK, NoKeyBeforeSti, InterruptsOn, mainVars, keyVars, devVars
<1>5. ScancodeWaits' /\ OnlyLineOneLeft'
  BY <1>0, <1>2, <1>3 DEF ScancodeWaits, OnlyLineOneLeft, keyVars, devVars
<1> QED
  BY <1>2, <1>4, <1>5, SetupKept DEF IInv

(* Every step keeps it. *)
LEMMA NextIInv == IInv /\ [Next]_vars => IInv'
<1> SUFFICES ASSUME IInv, [Next]_vars PROVE IInv'
  OBVIOUS
<1>1. CASE UNCHANGED vars
  BY <1>1 DEF IInv, TypeOK, PairProgrammed, GatesSet, NoKeyBeforeSti, InterruptsOn,
              ScancodeWaits, OnlyLineOneLeft, vars, mainVars, keyVars, devVars
<1>2. CASE Next
  BY <1>2, RemapKeepsIInv, QuietKeepsIInv, IrqKeepsIInv, KeyboardKeepsIInv, UserKeepsIInv,
     TransferKeepsIInv, LineKeepsIInv DEF Next, MainStep, Device
<1> QED
  BY <1>1, <1>2

(* So it always holds. *)
LEMMA AlwaysIInv == Spec => []IInv
BY InitIInv, NextIInv, PTL DEF Spec

(* The variables of the interrupt code and of the keyboard keep their      *)
(* types; in particular key_buffer is only indexed from 0 to 127, whatever *)
(* byte the handler finds in the 8042.                                     *)
THEOREM TypeCorrect == Spec => []TypeOK
<1>1. IInv => TypeOK
  BY DEF IInv
<1> QED
  BY <1>1, AlwaysIInv, PTL

(* Every interrupt that reaches the processor, of whatever line, finds one *)
(* of the gates isr_install and keyboard_init have set.                    *)
THEOREM EveryVectorGated == Spec => []VectorsGated
BY AlwaysIInv, IInvVectorsGated, PTL

(* Whatever lines are raised and whatever irq_handler takes for its        *)
(* number, nothing stays in service on the master but line 1, and that     *)
(* from the first scancode on.                                             *)
THEOREM ServiceOfMaster == Spec => []OnlyLineOneLeft
<1>1. IInv => OnlyLineOneLeft
  BY DEF IInv
<1> QED
  BY <1>1, AlwaysIInv, PTL

(* keyboard_handler runs once: what the first scancode left in key_buffer  *)
(* stays, whatever keys are pressed or released and however often the      *)
(* timer ticks.                                                            *)
THEOREM FirstScancodeStays == Spec => OneScancodeOnly
<1> DEFINE A == last_scancode # 0 => UNCHANGED keyVars
<1>1. ASSUME IInv, [Next]_vars PROVE [A]_vars
  <2> SUFFICES ASSUME Next, last_scancode # 0 PROVE UNCHANGED keyVars
    BY <1>1
  <2>1. ~keyboard_common_stub
    BY <1>1, KeyboardIsLineOne DEF keyboard_common_stub
  <2>2. ~keyboard_init
    BY <1>1 DEF keyboard_init, IInv, NoKeyBeforeSti, InterruptsOn
  <2> QED
    BY <2>1, <2>2 DEF Next, MainStep, Device, isr_install, pic_init, Remap, InstallGates, Sti,
         test_keyboard, irq_common_stub, Press, Release, Transfer, LineUp
<1> QED
  BY <1>1, AlwaysIInv, PTL DEF Spec, OneScancodeOnly
=============================================================================
