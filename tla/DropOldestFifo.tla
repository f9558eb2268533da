--------------------------- MODULE DropOldestFifo ---------------------------
(***************************************************************************)
(* What the keyboard buffer of legacy/kernel promises to its two users, as *)
(* the comments of drivers/keyboard.c put it: the interrupt handler fills  *)
(* it, "full: drop the oldest byte to make room", and the caller of        *)
(* keyboard_read drains it, oldest byte first.                             *)
(***************************************************************************)
EXTENDS Naturals, Sequences

CONSTANTS Capacity, Bytes

VARIABLES
  queue,   \* the bytes held, oldest first
  answer   \* last answer of keyboard_read: a byte, or NoByte for false

NoByte == 0

Init == queue = <<>> /\ answer = NoByte

Push(c) ==
  /\ queue' = Append(IF Len(queue) = Capacity THEN Tail(queue) ELSE queue, c)
  /\ UNCHANGED answer

Read ==
  /\ queue # <<>>
  /\ answer' = Head(queue)
  /\ queue' = Tail(queue)

ReadNothing ==
  /\ queue = <<>>
  /\ answer' = NoByte
  /\ UNCHANGED queue

Next == Read \/ ReadNothing \/ \E c \in Bytes : Push(c)
=============================================================================
