---------------------------- MODULE KeyboardRing ----------------------------
(***************************************************************************)
(* The ring buffer of legacy/kernel/arch/i386/drivers/keyboard.c: "filled  *)
(* by the IRQ handler, drained by the caller".  buffer_push runs inside an *)
(* interrupt and is one step.  keyboard_read runs with interrupts on and   *)
(* makes six volatile accesses, with a push possible between any two:      *)
(*                                                                         *)
(*   if (buf_tail == buf_head) return false;     load tail, load head      *)
(*   *out_c = buffer[buf_tail];                  load tail, load the byte  *)
(*   buf_tail = (buf_tail + 1) % SIZE;           load tail, store tail     *)
(*                                                                         *)
(* Bytes are numbered in the order they are pushed, so that a byte that is *)
(* lost, repeated or out of order can be told from the others.  In this    *)
(* commit keyboard_callback is a probe and the decoder that called         *)
(* buffer_push is commented out; the ring is modelled as its comments and  *)
(* that decoder use it.                                                    *)
(***************************************************************************)
EXTENDS Integers, Sequences

CONSTANTS
  KBD_BUFFER_SIZE,
  MaxBytes           \* bound: bytes pushed in a behaviour

ASSUME RingAssumption ==
  /\ KBD_BUFFER_SIZE \in Nat /\ KBD_BUFFER_SIZE >= 2
  /\ MaxBytes \in Nat

VARIABLES
  buf_head, buf_tail, buffer,
  rpc,        \* where keyboard_read is
  reg,        \* the index it loaded last
  out_c,      \* the byte it loaded
  answer,     \* what its last call returned: a byte, or NoByte for false
  pushed,     \* history: how many bytes were pushed; byte n is the n-th one
  dropped,    \* history: the bytes an overflow dropped
  returned,   \* history: the bytes handed to the caller
  overtaken   \* history: an overflow has landed inside a call of keyboard_read

bufVars    == <<buf_head, buf_tail, buffer>>
readerVars == <<rpc, reg, out_c, answer, returned>>
ringVars   == <<bufVars, readerVars, pushed, dropped, overtaken>>

N == KBD_BUFFER_SIZE
Index == 0..(N - 1)
Bytes == 1..MaxBytes
NoByte == 0

Inc(i) == (i + 1) % N

(* How many bytes the ring holds, and the slot of the j-th oldest one. *)
Held == IF buf_tail <= buf_head THEN buf_head - buf_tail ELSE buf_head - buf_tail + N
SlotOf(j) == IF buf_tail + j < N THEN buf_tail + j ELSE buf_tail + j - N

(* The bytes held, oldest first. *)
Contents == [k \in 1..Held |-> buffer[SlotOf(k - 1)]]

RingInit ==
  /\ buf_head = 0 /\ buf_tail = 0
  /\ buffer = [i \in Index |-> 0]
  /\ rpc = "idle" /\ reg = 0 /\ out_c = 0 /\ answer = NoByte
  /\ pushed = 0 /\ dropped = {} /\ returned = {}
  /\ overtaken = FALSE

-----------------------------------------------------------------------------
Overflow == Inc(buf_head) = buf_tail

(* A mutant: the test for a full ring is left out. *)
buffer_pushNoDrop ==
  /\ pushed < MaxBytes
  /\ pushed' = pushed + 1
  /\ buffer' = [buffer EXCEPT ![buf_head] = pushed']
  /\ buf_head' = Inc(buf_head)
  /\ overtaken' = overtaken
  /\ UNCHANGED <<buf_tail, dropped, readerVars>>

(* A mutant: the byte goes to the slot after the head. *)
buffer_pushOffByOne ==
  /\ pushed < MaxBytes
  /\ pushed' = pushed + 1
  /\ IF Overflow
     THEN /\ buf_tail' = Inc(buf_tail)
          /\ dropped' = dropped \cup {buffer[buf_tail]}
          /\ overtaken' = (overtaken \/ rpc # "idle")
     ELSE UNCHANGED <<buf_tail, dropped, overtaken>>
  /\ buffer' = [buffer EXCEPT ![Inc(buf_head)] = pushed']
  /\ buf_head' = Inc(buf_head)
  /\ UNCHANGED readerVars

(* The interrupt handler puts the next byte in. *)
buffer_push ==
  /\ pushed < MaxBytes
  /\ pushed' = pushed + 1
  /\ IF Overflow
     THEN /\ buf_tail' = Inc(buf_tail)
          /\ dropped' = dropped \cup {buffer[buf_tail]}
          /\ overtaken' = (overtaken \/ rpc # "idle")
     ELSE UNCHANGED <<buf_tail, dropped, overtaken>>
  /\ buffer' = [buffer EXCEPT ![buf_head] = pushed']
  /\ buf_head' = Inc(buf_head)
  /\ UNCHANGED readerVars

-----------------------------------------------------------------------------
(* keyboard_read, one volatile access at a time. *)

LoadTail ==
  /\ rpc = "idle"
  /\ reg' = buf_tail /\ rpc' = "compare"
  /\ UNCHANGED <<bufVars, out_c, answer, returned, pushed, dropped, overtaken>>

CompareHead ==
  /\ rpc = "compare"
  /\ IF reg = buf_head
     THEN rpc' = "idle" /\ answer' = NoByte
     ELSE rpc' = "index" /\ answer' = answer
  /\ UNCHANGED <<bufVars, reg, out_c, returned, pushed, dropped, overtaken>>

LoadIndex ==
  /\ rpc = "index"
  /\ reg' = buf_tail /\ rpc' = "fetch"
  /\ UNCHANGED <<bufVars, out_c, answer, returned, pushed, dropped, overtaken>>

FetchByte ==
  /\ rpc = "fetch"
  /\ out_c' = buffer[reg] /\ rpc' = "advance"
  /\ UNCHANGED <<bufVars, reg, answer, returned, pushed, dropped, overtaken>>

LoadAdvance ==
  /\ rpc = "advance"
  /\ reg' = buf_tail /\ rpc' = "store"
  /\ UNCHANGED <<bufVars, out_c, answer, returned, pushed, dropped, overtaken>>

(* A mutant: the index is advanced twice. *)
StoreTailTwice ==
  /\ rpc = "store"
  /\ buf_tail' = Inc(Inc(reg)) /\ rpc' = "idle"
  /\ answer' = out_c /\ returned' = returned \cup {out_c}
  /\ UNCHANGED <<buf_head, buffer, reg, out_c, pushed, dropped, overtaken>>

StoreTail ==
  /\ rpc = "store"
  /\ buf_tail' = Inc(reg) /\ rpc' = "idle"
  /\ answer' = out_c /\ returned' = returned \cup {out_c}
  /\ UNCHANGED <<buf_head, buffer, reg, out_c, pushed, dropped, overtaken>>

keyboard_read == \/ LoadTail \/ CompareHead \/ LoadIndex
                 \/ FetchByte \/ LoadAdvance \/ StoreTail

RingNext == buffer_push \/ keyboard_read

RingSpec == RingInit /\ [][RingNext]_ringVars

-----------------------------------------------------------------------------
RingTypeOK ==
  /\ buf_head \in Index /\ buf_tail \in Index
  /\ buffer \in [Index -> 0..MaxBytes]
  /\ rpc \in {"idle", "compare", "index", "fetch", "advance", "store"}
  /\ reg \in Index
  /\ out_c \in 0..MaxBytes
  /\ answer \in 0..MaxBytes
  /\ pushed \in 0..MaxBytes
  /\ dropped \subseteq 0..MaxBytes /\ returned \subseteq 0..MaxBytes
  /\ overtaken \in BOOLEAN

(* Whatever pushes land inside a call of keyboard_read, the ring holds the *)
(* newest bytes: a gapless run, in order, that ends with the last byte     *)
(* buffer_push put in.  A race loses bytes at the old end only.            *)
HoldsNewest ==
  \A j \in 0..(N - 1) :
     j < Held => buffer[SlotOf(j)] = pushed - Held + 1 + j

(* Every byte pushed is still held, or was handed to the caller, or was    *)
(* dropped by an overflow "to make room": no byte is lost otherwise.       *)
NothingLost ==
  1..pushed \subseteq returned \cup dropped \cup {Contents[k] : k \in 1..Held}

(* The code keeps that promise as long as no overflow lands inside a call  *)
(* of keyboard_read.                                                       *)
NothingLostUntilOvertaken == ~overtaken => NothingLost

Fifo == INSTANCE DropOldestFifo
          WITH Capacity <- N - 1, queue <- Contents

(* Until then every step of the ring is a step of the abstract buffer:     *)
(* keyboard_read takes effect when it stores buf_tail, or when it finds    *)
(* the ring empty, and returns the oldest byte held at that moment.        *)
ImplementsFifo ==
  Fifo!Init /\ [][overtaken' \/ Fifo!Next]_<<Contents, answer>>
=============================================================================
