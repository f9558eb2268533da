-------------------------------- MODULE Heap --------------------------------
(***************************************************************************)
(* The allocator of legacy/kernel-c/kernel/heap.c: a pointer that only     *)
(* moves up.  Sizes and addresses are uint32_t; Word stands for 2^32.      *)
(* kfree does nothing and has no action.                                   *)
(***************************************************************************)
EXTENDS Integers, FiniteSets

CONSTANTS
  Word,        \* number of values of a uint32_t
  HEAP_START, HEAP_SIZE,
  Requests,    \* sizes a caller may ask for
  MaxBlocks    \* bound: no block is asked for once that many are out

ASSUME HeapAssumption ==
  /\ Word \in Nat /\ Word % 4 = 0
  /\ HEAP_START \in Nat /\ HEAP_START % 4 = 0
  /\ HEAP_SIZE \in Nat /\ HEAP_START + HEAP_SIZE + 4 <= Word
  /\ Requests \subseteq 0..Word - 1

VARIABLES
  heap_current,
  blocks,      \* history: what kmalloc returned, and the size asked for
  hung         \* kmalloc found no room and loops for ever

heapVars == <<heap_current, blocks, hung>>

heap_end == HEAP_START + HEAP_SIZE

(* heap_init *)
HeapInit == heap_current = HEAP_START /\ blocks = {} /\ hung = FALSE

(* A mutant: (size & ~3). *)
RoundDown(size) == size - (size % 4)

(* size = (size + 3) & ~3 *)
Round(size) == LET s == (size + 3) % Word IN s - (s % 4)

kmalloc(size) ==
  /\ ~hung
  /\ IF (heap_current + Round(size)) % Word > heap_end
     THEN hung' = TRUE /\ UNCHANGED <<heap_current, blocks>>
     ELSE /\ blocks' = blocks \cup {[at |-> heap_current, asked |-> size]}
          /\ heap_current' = (heap_current + Round(size)) % Word
          /\ UNCHANGED hung

HeapNext == Cardinality(blocks) < MaxBlocks /\ \E size \in Requests : kmalloc(size)

HeapSpec == HeapInit /\ [][HeapNext]_heapVars

-----------------------------------------------------------------------------
(* No request has been so large that its sum with heap_current leaves the  *)
(* 32 bits.                                                                *)
Sane == \A b \in blocks : b.asked <= Word - 4 - heap_end

(* The blocks handed out are aligned, lie inside the heap and share no     *)
(* byte, as long as every request was sane: kmalloc then never hands out   *)
(* a block that is smaller than asked for.  (A request beyond that wraps   *)
(* round, passes the test against heap_end and moves heap_current down     *)
(* into blocks in use.)                                                    *)
HeapApart ==
  Sane => /\ \A b \in blocks : /\ b.at % 4 = 0
                               /\ HEAP_START <= b.at /\ b.at + b.asked <= heap_end
          /\ \A b, c \in blocks :
                b # c => b.at + b.asked <= c.at \/ c.at + c.asked <= b.at
=============================================================================
