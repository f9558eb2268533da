---------------------------- MODULE I386LibProofs ----------------------------
(* Proofs about the keyboard ring and the terminal of the i386 kernel, and *)
(* about printf and the memory functions of its libc.                      *)
EXTENDS KeyboardRing, Printf, LibcMem, SequenceTheorems, WellFoundedInduction, TLAPS

-----------------------------------------------------------------------------
(***************************************************************************)
(* What KeyboardRing promises, for every size of the ring and any number   *)
(* of bytes.  HoldsNewest is not inductive: keyboard_read stores an index  *)
(* it loaded earlier, and pushes may have moved both ends of the ring      *)
(* since.  What saves it is a fact about the slots that are not held: read *)
(* backwards from buf_head, all of them still hold the last bytes pushed   *)
(* (SlotsRecent), so wherever buf_tail lands, the ring again ends with a   *)
(* gapless run; and before the ring has been round once no index is stale  *)
(* (FirstRound).                                                           *)
(*                                                                         *)
(* NothingLostUntilOvertaken and the refinement of DropOldestFifo need, on *)
(* top of that, that the reader's index is current until it is overtaken   *)
(* (UndisturbedInv).                                                       *)
(***************************************************************************)

(* The slot of the j-th newest byte. *)
Back(j) == IF buf_head - 1 - j >= 0 THEN buf_head - 1 - j ELSE buf_head - 1 - j + N

SlotsRecent ==
  \A j \in 0..(N - 1) : j < pushed => buffer[Back(j)] = pushed - j

Committed == {"index", "fetch", "advance", "store"}

FirstRound ==
  pushed < N =>
    /\ buf_head = pushed /\ buf_tail <= buf_head
    /\ rpc \in {"compare", "store"} => reg = buf_tail
    /\ rpc \in Committed => buf_tail < buf_head

IInv == RingTypeOK /\ SlotsRecent /\ FirstRound

-----------------------------------------------------------------------------
(* One step round the ring. *)
LEMMA IncIndex ==
  ASSUME NEW x \in Index
  PROVE  Inc(x) = IF x = N - 1 THEN 0 ELSE x + 1
<1>1. N \in Nat /\ N >= 2 /\ x \in Nat /\ x <= N - 1
  BY RingAssumption DEF N, Index
<1>2. CASE x = N - 1
  <2>1. (x + 1) % N = 0
    BY <1>1, <1>2
  <2> QED
    BY <1>2, <2>1 DEF Inc
<1>3. CASE x # N - 1
  <2>1. (x + 1) % N = x + 1
    BY <1>1, <1>3
  <2> QED
    BY <1>3, <2>1 DEF Inc
<1> QED
  BY <1>2, <1>3

(* The invariant holds at the start. *)
LEMMA InitIInv == RingInit => IInv
<1> SUFFICES ASSUME RingInit PROVE IInv
  OBVIOUS
<1>1. N \in Nat /\ N >= 2 /\ MaxBytes \in Nat
  BY RingAssumption DEF N
<1>2. overtaken \in BOOLEAN
  BY Zenon DEF RingInit
<1> QED
  BY <1>1, <1>2 DEF RingInit, IInv, RingTypeOK, SlotsRecent, FirstRound, Index, NoByte, Committed

(* A push, into a ring that is full or not. *)
LEMMA PushIInv ==
  ASSUME IInv, buffer_push
  PROVE  IInv'
<1>1. /\ N \in Nat /\ N >= 2 /\ MaxBytes \in Nat
      /\ buf_head \in Index /\ buf_tail \in Index /\ pushed \in Nat
      /\ pushed' = pushed + 1 /\ pushed' \in 0..MaxBytes
      /\ buf_head' = IF buf_head = N - 1 THEN 0 ELSE buf_head + 1
      /\ buffer' = [buffer EXCEPT ![buf_head] = pushed + 1]
  BY IncIndex, RingAssumption DEF IInv, RingTypeOK, buffer_push, N
<1>2. buf_head' \in Index
  BY <1>1 DEF Index
<1>3. buffer' \in [Index -> 0..MaxBytes]
  BY <1>1 DEF IInv, RingTypeOK
<1>4. overtaken' \in BOOLEAN
  BY Zenon DEF buffer_push, IInv, RingTypeOK
<1>5. buf_tail' \in Index /\ dropped' \subseteq 0..MaxBytes
  <2>1. CASE Overflow
    <3>1. buf_tail' = Inc(buf_tail) /\ dropped' = dropped \cup {buffer[buf_tail]}
      BY <2>1 DEF buffer_push
    <3>2. Inc(buf_tail) \in Index
      BY <1>1, IncIndex DEF Index
    <3>3. buffer[buf_tail] \in 0..MaxBytes /\ dropped \subseteq 0..MaxBytes
      BY <1>1 DEF IInv, RingTypeOK
    <3> QED
      BY <3>1, <3>2, <3>3
  <2>2. CASE ~Overflow
    BY <2>2 DEF buffer_push, IInv, RingTypeOK
  <2> QED
    BY <2>1, <2>2
<1>6. RingTypeOK'
  BY <1>1, <1>2, <1>3, <1>4, <1>5 DEF IInv, RingTypeOK, buffer_push, readerVars
<1>7. SlotsRecent'
  <2> SUFFICES ASSUME NEW j \in 0..(N - 1), j < pushed'
               PROVE  buffer'[Back(j)'] = pushed' - j
    BY DEF SlotsRecent
  <2>1. CASE j = 0
    <3>1. Back(j)' = buf_head
      BY <1>1, <2>1 DEF Back, Index
    <3> QED
      BY <1>1, <2>1, <3>1 DEF IInv, RingTypeOK
  <2>2. CASE j > 0
    <3>1. j - 1 \in 0..(N - 1) /\ j - 1 < pushed
      BY <1>1, <2>2
    <3>2. Back(j)' = Back(j - 1) /\ Back(j - 1) \in Index /\ Back(j - 1) # buf_head
      BY <1>1, <2>2 DEF Back, Index
    <3>3. buffer[Back(j - 1)] = pushed - (j - 1)
      BY <3>1 DEF IInv, SlotsRecent
    <3> QED
      BY <1>1, <3>1, <3>2, <3>3 DEF IInv, RingTypeOK
  <2> QED
    BY <1>1, <2>1, <2>2
<1>8. FirstRound'
  <2> SUFFICES ASSUME pushed' < N
               PROVE  /\ buf_head' = pushed' /\ buf_tail' <= buf_head'
                      /\ rpc' \in {"compare", "store"} => reg' = buf_tail'
                      /\ rpc' \in Committed => buf_tail' < buf_head'
    BY DEF FirstRound
  <2>1. pushed < N /\ buf_head = pushed /\ buf_head < N - 1
    BY <1>1 DEF IInv, FirstRound
  <2>2. ~Overflow
    <3>1. Inc(buf_head) = buf_head + 1
      BY <1>1, <2>1, IncIndex
    <3> QED
      BY <1>1, <2>1, <3>1 DEF Overflow, IInv, FirstRound, Index
  <2> QED
    BY <1>1, <2>1, <2>2 DEF buffer_push, readerVars, IInv, FirstRound, Index
<1> QED
  BY <1>6, <1>7, <1>8 DEF IInv

(* The stores of keyboard_read. *)
LEMMA StoreIInv ==
  ASSUME IInv, StoreTail
  PROVE  IInv'
<1>1. /\ N \in Nat /\ N >= 2 /\ reg \in Index
      /\ buf_tail' = IF reg = N - 1 THEN 0 ELSE reg + 1
  BY IncIndex, RingAssumption DEF IInv, RingTypeOK, StoreTail, N
<1>2. RingTypeOK'
  BY <1>1 DEF IInv, RingTypeOK, StoreTail, Index
<1>3. SlotsRecent'
  BY DEF IInv, SlotsRecent, StoreTail, Back
<1>4. FirstRound'
  BY <1>1 DEF IInv, RingTypeOK, FirstRound, StoreTail, Index, Committed
<1> QED
  BY <1>2, <1>3, <1>4 DEF IInv

(* Every step keeps it. *)
LEMMA NextIInv == IInv /\ [RingNext]_ringVars => IInv'
<1> SUFFICES ASSUME IInv, [RingNext]_ringVars PROVE IInv'
  OBVIOUS
<1> USE DEF IInv, RingTypeOK, SlotsRecent, FirstRound, Back, Committed, bufVars
<1>1. CASE buffer_push
  BY <1>1, PushIInv
<1>2. CASE LoadTail
  BY <1>2 DEF LoadTail
<1>3. CASE CompareHead
  BY <1>3, RingAssumption DEF CompareHead, NoByte, Index, N
<1>4. CASE LoadIndex
  BY <1>4 DEF LoadIndex
<1>5. CASE FetchByte
  BY <1>5 DEF FetchByte
<1>6. CASE LoadAdvance
  BY <1>6 DEF LoadAdvance
<1>7. CASE StoreTail
  BY <1>7, StoreIInv
<1>8. CASE UNCHANGED ringVars
  BY <1>8 DEF ringVars, readerVars
<1> QED
  BY <1>1, <1>2, <1>3, <1>4, <1>5, <1>6, <1>7, <1>8 DEF RingNext, keyboard_read

(* So it always holds. *)
LEMMA AlwaysIInv == RingSpec => []IInv
BY InitIInv, NextIInv, PTL DEF RingSpec

(* For every size of the ring the indices stay inside the buffer, races    *)
(* or not.                                                                 *)
THEOREM TypeCorrect == RingSpec => []RingTypeOK
<1>1. IInv => RingTypeOK
  BY DEF IInv
<1> QED
  BY <1>1, AlwaysIInv, PTL

(* The bytes held are the last Held slots behind buf_head. *)
LEMMA IInvHoldsNewest == IInv => HoldsNewest
<1> SUFFICES ASSUME IInv, NEW j \in 0..(N - 1), j < Held
             PROVE  buffer[SlotOf(j)] = pushed - Held + 1 + j
  BY DEF HoldsNewest
<1>1. N \in Nat /\ N >= 2 /\ pushed \in Nat /\ buf_head \in Index /\ buf_tail \in Index
  BY RingAssumption DEF N, IInv, RingTypeOK
<1>2. Held \in 0..(N - 1)
  BY <1>1 DEF Held, Index
<1>3. Held <= pushed
  BY <1>1, <1>2 DEF IInv, FirstRound, Held, Index
<1>4. SlotOf(j) = Back(Held - 1 - j)
  BY <1>1, <1>2 DEF SlotOf, Back, Held, Index
<1>5. Held - 1 - j \in 0..(N - 1) /\ Held - 1 - j < pushed
  BY <1>1, <1>2, <1>3
<1>6. buffer[Back(Held - 1 - j)] = pushed - (Held - 1 - j)
  BY <1>5 DEF IInv, SlotsRecent
<1> QED
  BY <1>1, <1>2, <1>4, <1>6

(* Whatever pushes land inside keyboard_read, for every size of the ring   *)
(* it holds the newest bytes, in order and without a gap.                  *)
THEOREM RingHoldsNewest == RingSpec => []HoldsNewest
BY IInvHoldsNewest, AlwaysIInv, PTL

-----------------------------------------------------------------------------
(* As long as no overflow lands inside a call of keyboard_read, the        *)
(* indices that call loaded are the current ones, and every byte that is   *)
(* no longer held was returned or dropped.                                 *)
Accounted == 1..(pushed - Held) \subseteq returned \cup dropped

ReaderCurrent ==
  /\ rpc \in {"compare", "fetch", "store"} => reg = buf_tail
  /\ rpc \in Committed => buf_tail # buf_head
  /\ rpc \in {"advance", "store"} => out_c = buffer[buf_tail]

UndisturbedInv == ~overtaken => Accounted /\ ReaderCurrent

(* An empty ring has lost nothing. *)
LEMMA InitUndisturbed == RingInit => UndisturbedInv
BY RingAssumption DEF RingInit, UndisturbedInv, Accounted, ReaderCurrent, Held, Committed, N

(* How a push and a read change the number of bytes held. *)
LEMMA HeldAfterPush ==
  ASSUME IInv, buffer_push
  PROVE  /\ Held \in 0..(N - 1)
         /\ Overflow => Held = N - 1 /\ Held' = Held
         /\ ~Overflow => Held' = Held + 1
<1>1. /\ N \in Nat /\ N >= 2 /\ buf_head \in Index /\ buf_tail \in Index
      /\ Inc(buf_head) = (IF buf_head = N - 1 THEN 0 ELSE buf_head + 1)
      /\ Inc(buf_tail) = (IF buf_tail = N - 1 THEN 0 ELSE buf_tail + 1)
  BY IncIndex, RingAssumption DEF IInv, RingTypeOK, N
<1>2. CASE Overflow
  <2>1. buf_tail' = Inc(buf_tail) /\ buf_head' = Inc(buf_head) /\ Inc(buf_head) = buf_tail
    BY <1>2 DEF buffer_push, Overflow
  <2> QED
    BY <1>1, <1>2, <2>1 DEF Held, Index
<1>3. CASE ~Overflow
  <2>1. buf_tail' = buf_tail /\ buf_head' = Inc(buf_head) /\ Inc(buf_head) # buf_tail
    BY <1>3 DEF buffer_push, Overflow
  <2> QED
    BY <1>1, <1>3, <2>1 DEF Held, Index
<1> QED
  BY <1>2, <1>3

(* The oldest byte held. *)
LEMMA OldestByte ==
  ASSUME IInv, buf_tail # buf_head
  PROVE  buffer[buf_tail] = pushed - Held + 1 /\ Held \in 1..(N - 1)
<1>1. N \in Nat /\ N >= 2 /\ buf_head \in Index /\ buf_tail \in Index
  BY RingAssumption DEF IInv, RingTypeOK, N
<1>2. Held \in 1..(N - 1) /\ SlotOf(0) = buf_tail /\ 0 \in 0..(N - 1)
  BY <1>1 DEF Held, SlotOf, Index
<1>3. buffer[SlotOf(0)] = pushed - Held + 1 + 0
  BY <1>1, <1>2, IInvHoldsNewest DEF HoldsNewest
<1>4. pushed \in Nat
  BY DEF IInv, RingTypeOK
<1> QED
  BY <1>1, <1>2, <1>3, <1>4

(* A push loses only the byte it counts as dropped. *)
LEMMA PushUndisturbed ==
  ASSUME IInv, UndisturbedInv, buffer_push
  PROVE  UndisturbedInv'
<1>1. /\ pushed \in Nat /\ pushed' = pushed + 1 /\ N \in Nat /\ N >= 2
      /\ UNCHANGED <<rpc, reg, out_c, returned>>
      /\ buf_head \in Index /\ buf_tail \in Index /\ buffer \in [Index -> 0..MaxBytes]
      /\ buffer' = [buffer EXCEPT ![buf_head] = pushed']
  BY RingAssumption DEF IInv, RingTypeOK, buffer_push, readerVars, N
<1> SUFFICES ASSUME ~overtaken' PROVE Accounted' /\ ReaderCurrent'
  BY DEF UndisturbedInv
<1>2. CASE Overflow
  <2>1. ~overtaken /\ rpc = "idle" /\ dropped' = dropped \cup {buffer[buf_tail]}
    BY <1>2 DEF buffer_push
  <2>2. Held' = Held /\ Held = N - 1
    BY <1>2, HeldAfterPush
  <2>3. buf_tail # buf_head
    BY <1>1, <1>2, IncIndex DEF Overflow, Index
  <2>4. buffer[buf_tail] = pushed - Held + 1
    BY <2>3, OldestByte
  <2>5. Accounted'
    BY <1>1, <2>1, <2>2, <2>4 DEF UndisturbedInv, Accounted
  <2> QED
    BY <1>1, <2>1, <2>5 DEF ReaderCurrent, Committed
<1>3. CASE ~Overflow
  <2>1. ~overtaken /\ buf_tail' = buf_tail /\ dropped' = dropped
    BY <1>3 DEF buffer_push
  <2>2. Held' = Held + 1 /\ Held \in 0..(N - 1)
    BY <1>3, HeldAfterPush
  <2>3. Accounted'
    BY <1>1, <2>1, <2>2 DEF UndisturbedInv, Accounted
  <2>4. buf_head' = Inc(buf_head) /\ buf_tail' # buf_head'
    BY <1>3, <2>1 DEF buffer_push, Overflow
  <2>5. rpc \in Committed => buffer'[buf_tail] = buffer[buf_tail]
    BY <1>1, <2>1 DEF UndisturbedInv, ReaderCurrent
  <2> QED
    BY <1>1, <2>1, <2>3, <2>4, <2>5 DEF UndisturbedInv, ReaderCurrent, Committed
<1> QED
  BY <1>2, <1>3

(* A read that was not overtaken takes exactly one byte out. *)
LEMMA StoreUndisturbed ==
  ASSUME IInv, UndisturbedInv, StoreTail
  PROVE  UndisturbedInv'
<1> SUFFICES ASSUME ~overtaken' PROVE Accounted' /\ ReaderCurrent'
  BY DEF UndisturbedInv
<1>1. /\ ~overtaken /\ rpc = "store" /\ rpc' = "idle"
      /\ reg = buf_tail /\ buf_tail # buf_head /\ out_c = buffer[buf_tail]
      /\ returned' = returned \cup {out_c} /\ dropped' = dropped
      /\ pushed' = pushed /\ buf_head' = buf_head /\ buf_tail' = Inc(buf_tail)
  BY DEF StoreTail, UndisturbedInv, ReaderCurrent, Committed
<1>2. N \in Nat /\ N >= 2 /\ buf_head \in Index /\ buf_tail \in Index /\ pushed \in Nat
  BY RingAssumption DEF IInv, RingTypeOK, N
<1>3. buffer[buf_tail] = pushed - Held + 1 /\ Held \in 1..(N - 1)
  BY <1>1, OldestByte
<1>4. Inc(buf_tail) = IF buf_tail = N - 1 THEN 0 ELSE buf_tail + 1
  BY <1>2, IncIndex
<1>5. Held' = Held - 1
  BY <1>1, <1>2, <1>4 DEF Held, Index
<1>6. Accounted'
  BY <1>1, <1>2, <1>3, <1>5 DEF UndisturbedInv, Accounted
<1> QED
  BY <1>1, <1>6 DEF ReaderCurrent, Committed

(* Every step keeps the account. *)
LEMMA NextUndisturbed ==
  IInv /\ UndisturbedInv /\ [RingNext]_ringVars => UndisturbedInv'
<1> SUFFICES ASSUME IInv, UndisturbedInv, [RingNext]_ringVars PROVE UndisturbedInv'
  OBVIOUS
<1> USE DEF UndisturbedInv, Accounted, ReaderCurrent, Held, Committed, bufVars
<1>1. CASE buffer_push
  BY <1>1, PushUndisturbed
<1>2. CASE LoadTail
  BY <1>2 DEF LoadTail
<1>3. CASE CompareHead
  BY <1>3 DEF CompareHead
<1>4. CASE LoadIndex
  BY <1>4 DEF LoadIndex
<1>5. CASE FetchByte
  BY <1>5 DEF FetchByte
<1>6. CASE LoadAdvance
  BY <1>6 DEF LoadAdvance
<1>7. CASE StoreTail
  BY <1>7, StoreUndisturbed
<1>8. CASE UNCHANGED ringVars
  BY <1>8 DEF ringVars, readerVars
<1> QED
  BY <1>1, <1>2, <1>3, <1>4, <1>5, <1>6, <1>7, <1>8 DEF RingNext, keyboard_read

(* The account says where every byte is. *)
LEMMA UndisturbedNothingLost == IInv /\ UndisturbedInv => NothingLostUntilOvertaken
<1> SUFFICES ASSUME IInv, UndisturbedInv, ~overtaken, NEW n \in 1..pushed
             PROVE  n \in returned \cup dropped \cup {Contents[k] : k \in 1..Held}
  BY DEF NothingLostUntilOvertaken, NothingLost
<1>1. N \in Nat /\ N >= 2 /\ buf_head \in Index /\ buf_tail \in Index /\ pushed \in Nat
  BY RingAssumption DEF IInv, RingTypeOK, N
<1>2. Held \in 0..(N - 1)
  BY <1>1 DEF Held, Index
<1>3. CASE n <= pushed - Held
  BY <1>1, <1>2, <1>3 DEF UndisturbedInv, Accounted
<1>4. CASE n > pushed - Held
  <2> DEFINE k == n - (pushed - Held)
  <2>1. k \in 1..Held /\ k - 1 \in 0..(N - 1) /\ k - 1 < Held
    BY <1>1, <1>2, <1>4
  <2>2. Contents[k] = buffer[SlotOf(k - 1)]
    BY <2>1 DEF Contents
  <2>3. buffer[SlotOf(k - 1)] = pushed - Held + 1 + (k - 1)
    BY <2>1, IInvHoldsNewest DEF HoldsNewest
  <2>4. Contents[k] = n
    BY <1>1, <1>2, <2>2, <2>3
  <2> QED
    BY <2>1, <2>4
<1> QED
  BY <1>1, <1>2, <1>3, <1>4

(* Until an overflow lands inside a call of keyboard_read, every byte      *)
(* pushed is held, was returned, or was dropped to make room.              *)
THEOREM NoSilentLoss == RingSpec => []NothingLostUntilOvertaken
BY AlwaysIInv, InitUndisturbed, NextUndisturbed, UndisturbedNothingLost, PTL DEF RingSpec

-----------------------------------------------------------------------------
(* The ring as the abstract buffer.  Since the bytes are numbered and the  *)
(* ring holds the newest ones, its contents are a run of numbers, and a    *)
(* push or a read moves an end of that run.                                *)
Run(a, n) == [k \in 1..n |-> a + k]

(* Two sequences with the same elements are equal. *)
LEMMA SameSeq ==
  ASSUME NEW s \in Seq(Int), NEW t \in Seq(Int), Len(s) = Len(t),
         \A k \in 1..Len(s) : s[k] = t[k]
  PROVE  s = t
OBVIOUS

(* A run of n bytes. *)
LEMMA RunSeq ==
  ASSUME NEW a \in Int, NEW n \in Nat
  PROVE  Run(a, n) \in Seq(Int) /\ Len(Run(a, n)) = n
BY DEF Run

(* The run of no bytes. *)
LEMMA RunEmpty == ASSUME NEW a \in Int PROVE Run(a, 0) = <<>>
BY RunSeq

(* A run grows at its end ... *)
LEMMA RunAppend ==
  ASSUME NEW a \in Int, NEW n \in Nat
  PROVE  Append(Run(a, n), a + n + 1) = Run(a, n + 1)
<1>1. Run(a, n) \in Seq(Int) /\ Len(Run(a, n)) = n /\ a + n + 1 \in Int
  BY RunSeq
<1>2. /\ Append(Run(a, n), a + n + 1) \in Seq(Int)
      /\ Len(Append(Run(a, n), a + n + 1)) = n + 1
      /\ \A k \in 1..n : Append(Run(a, n), a + n + 1)[k] = Run(a, n)[k]
      /\ Append(Run(a, n), a + n + 1)[n + 1] = a + n + 1
  BY <1>1
<1>3. \A k \in 1..n + 1 : Append(Run(a, n), a + n + 1)[k] = a + k
  <2>1. \A k \in 1..n : Run(a, n)[k] = a + k
    BY DEF Run
  <2> QED
    BY <1>2, <2>1
<1>4. Run(a, n + 1) \in Seq(Int) /\ Len(Run(a, n + 1)) = n + 1
  BY RunSeq
<1>5. \A k \in 1..n + 1 : Run(a, n + 1)[k] = a + k
  BY DEF Run
<1> QED
  BY <1>2, <1>3, <1>4, <1>5, SameSeq

(* ... and shrinks at its front. *)
LEMMA RunTail ==
  ASSUME NEW a \in Int, NEW n \in Nat \ {0}
  PROVE  /\ Run(a, n) # <<>>
         /\ Head(Run(a, n)) = a + 1
         /\ Tail(Run(a, n)) = Run(a + 1, n - 1)
<1>1. Run(a, n) \in Seq(Int) /\ Len(Run(a, n)) = n
  BY RunSeq
<1>2. Run(a, n) # <<>> /\ Head(Run(a, n)) = Run(a, n)[1]
  BY <1>1
<1>3. \A k \in 1..n : Run(a, n)[k] = a + k
  BY DEF Run
<1>4. /\ Tail(Run(a, n)) \in Seq(Int) /\ Len(Tail(Run(a, n))) = n - 1
      /\ \A k \in 1..n - 1 : Tail(Run(a, n))[k] = Run(a, n)[k + 1]
  BY <1>1, <1>2
<1>5. Run(a + 1, n - 1) \in Seq(Int) /\ Len(Run(a + 1, n - 1)) = n - 1
  BY RunSeq
<1>6. \A k \in 1..n - 1 : Run(a + 1, n - 1)[k] = Tail(Run(a, n))[k]
  <2>1. \A k \in 1..n - 1 : Run(a + 1, n - 1)[k] = a + 1 + k
    BY DEF Run
  <2> QED
    BY <1>3, <1>4, <2>1
<1>7. Tail(Run(a, n)) = Run(a + 1, n - 1)
  BY <1>4, <1>5, <1>6, SameSeq
<1> QED
  BY <1>2, <1>3, <1>7

HeldRun == Held \in 0..(N - 1) /\ pushed \in Nat /\ Contents = Run(pushed - Held, Held)

(* The ring holds a run that ends with the last byte pushed. *)
LEMMA ContentsRun == IInv => HeldRun
<1> SUFFICES ASSUME IInv PROVE HeldRun
  OBVIOUS
<1>1. N \in Nat /\ N >= 2 /\ pushed \in Nat /\ buf_head \in Index /\ buf_tail \in Index
  BY RingAssumption DEF N, IInv, RingTypeOK
<1>2. Held \in 0..(N - 1)
  BY <1>1 DEF Held, Index
<1>3. ASSUME NEW k \in 1..Held PROVE buffer[SlotOf(k - 1)] = pushed - Held + k
  <2>1. k - 1 \in 0..(N - 1) /\ k - 1 < Held
    BY <1>1, <1>2
  <2>2. buffer[SlotOf(k - 1)] = pushed - Held + 1 + (k - 1)
    BY <2>1, IInvHoldsNewest DEF HoldsNewest
  <2> QED
    BY <1>1, <1>2, <2>2
<1> QED
  BY <1>1, <1>2, <1>3 DEF HeldRun, Contents, Run

(* The same before and after a step. *)
LEMMA ContentsRuns ==
  IInv /\ IInv' =>
    /\ Held \in 0..(N - 1) /\ pushed \in Nat /\ Contents = Run(pushed - Held, Held)
    /\ Held' \in 0..(N - 1) /\ Contents' = Run(pushed' - Held', Held')
    /\ N \in Nat /\ N >= 2
<1>1. IInv' => HeldRun'
  BY ContentsRun, PTL
<1>2. HeldRun' => Held' \in 0..(N - 1) /\ Contents' = Run(pushed' - Held', Held')
  BY DEF HeldRun
<1> QED
  BY <1>1, <1>2, ContentsRun, RingAssumption DEF HeldRun, N

(* buffer_push is a push of the abstract buffer. *)
LEMMA PushRefines ==
  ASSUME IInv, IInv', buffer_push
  PROVE  Fifo!Next
<1>1. /\ Held \in 0..(N - 1) /\ pushed \in Nat /\ Contents = Run(pushed - Held, Held)
      /\ Contents' = Run(pushed' - Held', Held') /\ N \in Nat /\ N >= 2
  BY ContentsRuns
<1>2. pushed' = pushed + 1 /\ pushed' \in Bytes /\ answer' = answer
  BY <1>1, RingAssumption DEF buffer_push, readerVars, Bytes
<1>3. Len(Contents) = Held
  BY <1>1, RunSeq
<1>4. Contents' = Append(IF Len(Contents) = N - 1 THEN Tail(Contents) ELSE Contents, pushed')
  <2>1. CASE Overflow
    <3>1. Held = N - 1 /\ Held' = Held
      BY <2>1, HeldAfterPush
    <3>0. pushed - Held \in Int /\ pushed - Held + 1 \in Int /\ Held \in Nat \ {0}
          /\ Held - 1 \in Nat
      BY <1>1, <3>1
    <3>2. Tail(Contents) = Run(pushed - Held + 1, Held - 1)
      BY <1>1, <3>0, RunTail
    <3>3. Append(Tail(Contents), pushed') = Run(pushed - Held + 1, Held - 1 + 1)
      <4>1. Append(Run(pushed - Held + 1, Held - 1), (pushed - Held + 1) + (Held - 1) + 1)
              = Run(pushed - Held + 1, Held - 1 + 1)
        BY <3>0, RunAppend
      <4>2. (pushed - Held + 1) + (Held - 1) + 1 = pushed'
        BY <1>1, <1>2
      <4> QED
        BY <3>2, <4>1, <4>2
    <3>4. pushed' - Held' = pushed - Held + 1 /\ Held' = Held - 1 + 1
      BY <1>1, <1>2, <3>1
    <3> QED
      BY <1>1, <1>3, <3>1, <3>3, <3>4
  <2>2. CASE ~Overflow
    <3>1. Held' = Held + 1
      BY <2>2, HeldAfterPush
    <3>2. Held # N - 1
      <4>1. Held' \in 0..(N - 1)
        BY ContentsRuns
      <4> QED
        BY <1>1, <3>1, <4>1
    <3>3. /\ pushed' - Held' = pushed - Held /\ (pushed - Held) + Held + 1 = pushed'
      BY <1>1, <1>2, <3>1
    <3>4. Append(Contents, pushed') = Run(pushed - Held, Held + 1)
      <4>1. pushed - Held \in Int /\ Held \in Nat
        BY <1>1
      <4> QED
        BY <1>1, <3>3, <4>1, RunAppend
    <3> QED
      BY <1>1, <1>3, <3>1, <3>2, <3>3, <3>4
  <2> QED
    BY <2>1, <2>2
<1>5. Fifo!Push(pushed')
  BY <1>2, <1>4 DEF Fifo!Push
<1> QED
  BY <1>2, <1>5 DEF Fifo!Next

(* The store of buf_tail is the read, undisturbed. *)
LEMMA StoreRefines ==
  ASSUME IInv, IInv', UndisturbedInv, ~overtaken, StoreTail
  PROVE  Fifo!Next
<1>1. /\ Held \in 0..(N - 1) /\ pushed \in Nat /\ Contents = Run(pushed - Held, Held)
      /\ Contents' = Run(pushed' - Held', Held') /\ N \in Nat /\ N >= 2
  BY ContentsRuns
<1>2. /\ buf_tail # buf_head /\ out_c = buffer[buf_tail] /\ pushed' = pushed
      /\ buf_head' = buf_head /\ buf_tail' = Inc(buf_tail) /\ answer' = out_c
  BY DEF StoreTail, UndisturbedInv, ReaderCurrent, Committed
<1>3. buffer[buf_tail] = pushed - Held + 1 /\ Held \in 1..(N - 1)
  BY <1>2, OldestByte
<1>4. Held' = Held - 1
  <2>1. /\ buf_head \in Index /\ buf_tail \in Index
        /\ Inc(buf_tail) = IF buf_tail = N - 1 THEN 0 ELSE buf_tail + 1
    BY IncIndex DEF IInv, RingTypeOK
  <2> QED
    BY <1>1, <1>2, <2>1 DEF Held, Index
<1>5. /\ Contents # <<>> /\ Head(Contents) = pushed - Held + 1
      /\ Tail(Contents) = Run(pushed - Held + 1, Held - 1)
  <2>1. pushed - Held \in Int /\ Held \in Nat \ {0}
    BY <1>1, <1>3
  <2> QED
    BY <1>1, <2>1, RunTail
<1>6. pushed' - Held' = pushed - Held + 1
  BY <1>1, <1>2, <1>4
<1>7. Fifo!Read
  BY <1>1, <1>2, <1>3, <1>4, <1>5, <1>6 DEF Fifo!Read
<1> QED
  BY <1>7 DEF Fifo!Next

(* A call that compares equal finds the abstract buffer empty. *)
LEMMA CompareRefines ==
  ASSUME IInv, UndisturbedInv, ~overtaken, CompareHead, reg = buf_head
  PROVE  Fifo!Next
<1>1. /\ reg = buf_tail /\ answer' = NoByte /\ UNCHANGED <<buf_head, buf_tail, buffer>>
  BY DEF CompareHead, UndisturbedInv, ReaderCurrent, bufVars
<1>2. Held = 0
  BY <1>1 DEF Held, IInv, RingTypeOK, Index
<1>3. Contents = <<>>
  <2>1. Contents = Run(pushed - 0, 0) /\ pushed - 0 \in Int
    BY <1>2, ContentsRun DEF HeldRun
  <2> QED
    BY <2>1, RunEmpty
<1>4. Contents' = Contents
  BY <1>1 DEF Contents, Held, SlotOf
<1>5. Fifo!ReadNothing
  BY <1>1, <1>3, <1>4 DEF Fifo!ReadNothing, NoByte, Fifo!NoByte
<1> QED
  BY <1>5 DEF Fifo!Next

(* Every step is a step of the queue, or none. *)
LEMMA NextRefines ==
  IInv /\ IInv' /\ UndisturbedInv /\ [RingNext]_ringVars => [overtaken' \/ Fifo!Next]_<<Contents, answer>>
<1> SUFFICES ASSUME IInv, IInv', UndisturbedInv, [RingNext]_ringVars, ~overtaken'
             PROVE  Fifo!Next \/ UNCHANGED <<Contents, answer>>
  OBVIOUS
<1>0. ~overtaken
  BY DEF RingNext, buffer_push, keyboard_read, LoadTail, CompareHead, LoadIndex, FetchByte,
         LoadAdvance, StoreTail, ringVars
<1>1. CASE buffer_push
  BY <1>1, PushRefines
<1>2. CASE StoreTail
  BY <1>0, <1>2, StoreRefines
<1>3. CASE CompareHead /\ reg = buf_head
  BY <1>0, <1>3, CompareRefines
<1>4. CASE UNCHANGED <<bufVars, answer>>
  BY <1>4 DEF bufVars, Contents, Held, SlotOf
<1>5. CASE LoadTail \/ LoadIndex \/ FetchByte \/ LoadAdvance
  BY <1>4, <1>5 DEF LoadTail, LoadIndex, FetchByte, LoadAdvance
<1>6. CASE CompareHead /\ reg # buf_head
  BY <1>4, <1>6 DEF CompareHead
<1>7. CASE UNCHANGED ringVars
  BY <1>4, <1>7 DEF ringVars, readerVars
<1> QED
  BY <1>1, <1>2, <1>3, <1>5, <1>6, <1>7 DEF RingNext, keyboard_read

(* For every size of the ring and any number of bytes, until an overflow   *)
(* lands inside a call of keyboard_read the ring implements the buffer     *)
(* that drops the oldest byte: each call takes effect in one step, with    *)
(* the pushes that land inside it before or after that step.               *)
THEOREM RingImplementsFifo == RingSpec => ImplementsFifo
<1>1. RingInit => Fifo!Init
  <2> SUFFICES ASSUME RingInit PROVE Fifo!Init
    OBVIOUS
  <2>1. Held = 0 /\ answer = 0
    BY DEF RingInit, Held, NoByte
  <2>2. Contents = <<>>
    <3>1. Contents = Run(pushed - 0, 0) /\ pushed - 0 \in Int
      BY <2>1, InitIInv, ContentsRun DEF HeldRun
    <3> QED
      BY <3>1, RunEmpty
  <2> QED
    BY <2>1, <2>2 DEF Fifo!Init, Fifo!NoByte
<1> QED
  BY <1>1, AlwaysIInv, InitUndisturbed, NextUndisturbed, NextRefines, PTL DEF RingSpec, ImplementsFifo

-----------------------------------------------------------------------------
(* The terminal is a text page, for every size of the screen. *)

(* The cursor stays on the screen. *)
TtyInv ==
  /\ terminal_row \in 0..VGA_HEIGHT - 1
  /\ terminal_column \in 0..VGA_WIDTH - 1
  /\ terminal_color \in Colors

(* Places on the page: line r, column c. *)
LEMMA LineBounds ==
  ASSUME NEW w \in Nat \ {0}, NEW h \in Nat \ {0}, NEW r \in 0..h - 1
  PROVE  /\ r * w \in Nat /\ w * h \in Nat \ {0}
         /\ (r + 1) * w = r * w + w
         /\ r * w + w <= w * h
         /\ r + 1 = h => r * w + w = w * h
         /\ r + 1 # h => r * w + w + w <= w * h
<1>1. r * w \in Nat /\ w * h \in Nat \ {0}
  OBVIOUS
<1>2. (r + 1) * w = r * w + w /\ (r + 2) * w = r * w + w + w
  OBVIOUS
<1>3. r + 1 = h => r * w + w = w * h
  BY <1>2
<1>4. \A m, n, k \in Nat : m <= n => m * k <= n * k
  OBVIOUS
<1>5. h * w = w * h
  OBVIOUS
<1>6. r + 1 # h => (r + 2) * w <= h * w
  <2>1. r + 1 # h => r + 2 <= h
    OBVIOUS
  <2> QED
    BY <1>4, <2>1
<1> QED
  BY <1>1, <1>2, <1>3, <1>5, <1>6

(* A place on the page is its own remainder. *)
LEMMA SmallMod == ASSUME NEW m \in Nat \ {0}, NEW x \in 0..m - 1 PROVE x % m = x /\ m % m = 0
OBVIOUS

(* The column of a place. *)
LEMMA ColumnOf ==
  ASSUME NEW w \in Nat \ {0}, NEW r \in Nat, NEW c \in 0..w - 1
  PROVE  (r * w + c) % w = c
OBVIOUS

-----------------------------------------------------------------------------
(* Where the cursor is on the page. *)
LEMMA CursorOnPage ==
  ASSUME TtyInv, NEW w, w = VGA_WIDTH, NEW cells, cells = VGA_WIDTH * VGA_HEIGHT,
         NEW line, line = terminal_row * VGA_WIDTH
  PROVE  /\ w \in Nat \ {0} /\ cells \in Nat \ {0} /\ line \in Nat
         /\ line + w <= cells
         /\ (line + terminal_column) % w = terminal_column
         /\ NextRow * w = (line + w) % cells
<1>1. /\ w \in Nat \ {0} /\ VGA_HEIGHT \in Nat \ {0}
      /\ terminal_row \in 0..VGA_HEIGHT - 1 /\ terminal_column \in 0..w - 1
  BY TtyAssumption DEF TtyInv
<1>2. /\ line \in Nat /\ cells \in Nat \ {0} /\ line + w <= cells
      /\ (terminal_row + 1) * w = line + w
      /\ terminal_row + 1 = VGA_HEIGHT => line + w = cells
      /\ terminal_row + 1 # VGA_HEIGHT => line + w + w <= cells
  BY <1>1, LineBounds
<1>3. (line + terminal_column) % w = terminal_column
  BY <1>1, ColumnOf
<1>4. NextRow * w = (line + w) % cells
  <2>1. CASE terminal_row + 1 = VGA_HEIGHT
    <3>1. NextRow * w = 0 /\ line + w = cells
      BY <1>1, <1>2, <2>1 DEF NextRow
    <3> QED
      BY <1>2, <3>1, SmallMod
  <2>2. CASE terminal_row + 1 # VGA_HEIGHT
    <3>1. NextRow * w = line + w /\ line + w \in 0..cells - 1
      BY <1>1, <1>2, <2>2 DEF NextRow
    <3> QED
      BY <1>2, <3>1, SmallMod
  <2> QED
    BY <2>1, <2>2
<1> QED
  BY <1>1, <1>2, <1>3, <1>4

(* The row after the last is the first. *)
LEMMA RowStays == ASSUME TtyInv PROVE NextRow \in 0..VGA_HEIGHT - 1
BY TtyAssumption DEF TtyInv, NextRow

(* PutGlyph prints at the cursor and moves it on, from the end of a line   *)
(* and of the page too.                                                    *)
LEMMA GlyphIsPut ==
  ASSUME TtyInv, NEW c \in Glyphs \cup {Blank}, PutGlyph(c), terminal_color' = terminal_color
  PROVE  Page!Put(c) /\ TtyInv'
<1> DEFINE w == VGA_WIDTH
           cells == VGA_WIDTH * VGA_HEIGHT
           line == terminal_row * VGA_WIDTH
<1>1. /\ w \in Nat \ {0} /\ cells \in Nat \ {0} /\ line \in Nat
      /\ line + w <= cells /\ NextRow * w = (line + w) % cells
      /\ terminal_column \in 0..w - 1
  BY CursorOnPage DEF TtyInv
<1>2. TtyInv'
  BY <1>1, RowStays DEF TtyInv, PutGlyph
<1>3. terminal_row' * w + terminal_column' = (line + terminal_column + 1) % cells
  <2>1. CASE terminal_column + 1 = w
    <3>1. terminal_column' = 0 /\ terminal_row' = NextRow
      BY <2>1 DEF PutGlyph
    <3>2. NextRow * w + 0 = NextRow * w
      BY RowStays, <1>1, TtyAssumption
    <3>3. line + terminal_column + 1 = line + w
      BY <1>1, <2>1
    <3> QED
      BY <1>1, <3>1, <3>2, <3>3
  <2>2. CASE terminal_column + 1 # w
    <3>1. terminal_column' = terminal_column + 1 /\ terminal_row' = terminal_row
      BY <2>2 DEF PutGlyph
    <3>2. line + terminal_column + 1 \in 0..cells - 1
      BY <1>1, <2>2
    <3>3. line + (terminal_column + 1) = line + terminal_column + 1
      BY <1>1
    <3> HIDE DEF line, cells
    <3>4. (line + terminal_column + 1) % cells = line + terminal_column + 1
      BY <1>1, <3>2, SmallMod
    <3> QED
      BY <3>1, <3>3, <3>4 DEF line
  <2> QED
    BY <2>1, <2>2
<1> QED
  BY <1>2, <1>3 DEF Page!Put, PutGlyph, terminal_putentryat, vga_entry

(* Every character is a step of the page. *)
LEMMA PutcharIsStep ==
  ASSUME TtyInv, NEW c \in Glyphs \cup {Blank} \cup Control, terminal_putchar(c)
  PROVE  [Page!Next]_Page!textVars /\ TtyInv'
<1> DEFINE w == VGA_WIDTH
           cells == VGA_WIDTH * VGA_HEIGHT
           line == terminal_row * VGA_WIDTH
<1>0. terminal_color' = terminal_color
  BY DEF terminal_putchar
<1>1. /\ w \in Nat \ {0} /\ cells \in Nat \ {0} /\ line \in Nat
      /\ line + w <= cells /\ NextRow * w = (line + w) % cells
      /\ terminal_column \in 0..w - 1
      /\ (line + terminal_column) % w = terminal_column
  BY CursorOnPage DEF TtyInv
<1>2. CASE c = "NL" /\ PutNewline
  <2>1. /\ terminal_column' = 0 /\ terminal_row' = NextRow /\ terminal_buffer' = terminal_buffer
    BY <1>2 DEF PutNewline
  <2>2. terminal_row' * w + terminal_column' = (line + terminal_column - terminal_column + w) % cells
    <3>1. line + terminal_column - terminal_column + w = line + w
      BY <1>1
    <3>2. NextRow * w + 0 = NextRow * w
      BY RowStays, <1>1, TtyAssumption
    <3> QED
      BY <1>1, <2>1, <3>1, <3>2
  <2>3. Page!NewLine
    BY <1>0, <1>1, <2>1, <2>2 DEF Page!NewLine
  <2>4. TtyInv'
    BY <1>0, <1>1, <2>1, RowStays DEF TtyInv
  <2> QED
    BY <2>3, <2>4 DEF Page!Next
<1>3. CASE c = "CR" /\ PutReturn
  <2>1. terminal_column' = 0 /\ terminal_row' = terminal_row /\ terminal_buffer' = terminal_buffer
    BY <1>3 DEF PutReturn
  <2>2. terminal_row' * w + terminal_column' = line + terminal_column - terminal_column
    BY <1>1, <2>1
  <2>3. Page!CarriageReturn
    BY <1>0, <1>1, <2>1, <2>2 DEF Page!CarriageReturn
  <2>4. TtyInv'
    BY <1>0, <1>1, <2>1 DEF TtyInv
  <2> QED
    BY <2>3, <2>4 DEF Page!Next
<1>4. CASE c = "BS" /\ PutBackspace
  <2>1. CASE terminal_column > 0
    <3>1. /\ terminal_column' = terminal_column - 1 /\ terminal_row' = terminal_row
          /\ terminal_buffer' = [terminal_buffer EXCEPT
                ![terminal_row * VGA_WIDTH + (terminal_column - 1)] =
                   [glyph |-> Blank, ink |-> terminal_color]]
      BY <1>4, <2>1 DEF PutBackspace, terminal_putentryat, vga_entry
    <3>2. line + (terminal_column - 1) = (line + terminal_column) - 1 /\ terminal_column # 0
      BY <1>1, <2>1
    <3>3. terminal_buffer' = [terminal_buffer EXCEPT
            ![(terminal_row * VGA_WIDTH + terminal_column) - 1] =
               [glyph |-> Blank, ink |-> terminal_color]]
      BY <3>1, <3>2, Zenon
    <3>4. Page!Rubout
      BY <1>0, <1>1, <3>1, <3>2, <3>3 DEF Page!Rubout
    <3>5. TtyInv'
      BY <1>0, <1>1, <2>1, <3>1 DEF TtyInv
    <3> QED
      BY <3>4, <3>5 DEF Page!Next
  <2>2. CASE ~(terminal_column > 0)
    <3>1. UNCHANGED <<terminal_row, terminal_column, terminal_buffer>>
      BY <1>4, <2>2 DEF PutBackspace
    <3> QED
      BY <1>0, <3>1 DEF Page!textVars, TtyInv
  <2> QED
    BY <2>1, <2>2
<1>5. CASE c = "HT" /\ PutTab
  BY <1>0, <1>5 DEF PutTab, Page!textVars, TtyInv
<1>6. CASE c \notin Control /\ PutGlyph(c)
  <2>1. c \in Glyphs \cup {Blank}
    BY <1>6
  <2> QED
    BY <1>0, <1>6, <2>1, GlyphIsPut DEF Page!Next
<1> QED
  BY <1>2, <1>3, <1>4, <1>5, <1>6 DEF terminal_putchar

(* Every call is a step of the page. *)
LEMMA TtyStep == TtyInv /\ [TtyNext]_ttyVars => [Page!Next]_Page!textVars /\ TtyInv'
<1> SUFFICES ASSUME TtyInv, [TtyNext]_ttyVars PROVE [Page!Next]_Page!textVars /\ TtyInv'
  OBVIOUS
<1>1. CASE \E c \in Glyphs \cup {Blank} \cup Control : terminal_putchar(c)
  BY <1>1, PutcharIsStep
<1>2. CASE \E color \in Colors : next_stop = 0 /\ terminal_setcolor(color)
  <2>1. Page!NewInk
    BY <1>2 DEF terminal_setcolor, Page!NewInk
  <2> QED
    BY <1>2, <2>1 DEF terminal_setcolor, TtyInv, Page!Next
<1>3. CASE TabLoop
  <2>1. terminal_color' = terminal_color
    BY <1>3 DEF TabLoop
  <2>2. CASE PutGlyph(Blank)
    BY <2>1, <2>2, GlyphIsPut DEF Page!Next
  <2>3. CASE UNCHANGED <<terminal_row, terminal_column, terminal_buffer>>
    BY <2>1, <2>3 DEF Page!textVars, TtyInv
  <2> QED
    BY <1>3, <2>2, <2>3 DEF TabLoop
<1>4. CASE UNCHANGED ttyVars
  BY <1>4 DEF ttyVars, Page!textVars, TtyInv
<1> QED
  BY <1>1, <1>2, <1>3, <1>4 DEF TtyNext

(* On a screen of every cells the terminal implements the page: row and     *)
(* column, each wrapped on its own, are one position that moves on in      *)
(* order, a newline and the end of a line lead to the same place, and a    *)
(* tab prints blanks like any others.                                      *)
THEOREM TerminalImplementsPage == TtySpec => ImplementsPage
<1>1. terminal_initialize => TtyInv /\ Page!Init
  <2> SUFFICES ASSUME terminal_initialize PROVE TtyInv /\ Page!Init
    OBVIOUS
  <2>1. TtyInv
    BY TtyAssumption DEF terminal_initialize, TtyInv
  <2>2. terminal_row * VGA_WIDTH + terminal_column = 0
    BY TtyAssumption DEF terminal_initialize
  <2> QED
    BY <2>1, <2>2, TtyAssumption DEF terminal_initialize, vga_entry, Page!Init, Page!Places
<1> QED
  BY <1>1, TtyStep, PTL DEF TtySpec, ImplementsPage, Page!Spec

-----------------------------------------------------------------------------
(* The memory functions, for every memory, every call and every argument. *)

(* The arguments of the call that runs, as its caller promised them. *)
CallOK ==
  /\ dst \in Nat /\ src \in Nat /\ size \in Nat /\ value \in Values /\ i \in Nat
  /\ mem \in [Addresses -> Values] /\ mem0 \in [Addresses -> Values]
  /\ fn \in Routines \cup {"none", "returned"}
  /\ fn \in Routines =>
       /\ called = fn
       /\ dst + size <= Size /\ src + size <= Size
       /\ fn = "memcpy" => dst + size <= src \/ src + size <= dst
       /\ fn = "strlen" => size = 0 /\ \E k \in src..Size - 1 : mem0[k] = 0

Upwards == fn = "memcpy" \/ (fn = "memmove" /\ dst < src)

(* What the turns of the loop so far have done. *)
LoopInv ==
  /\ fn = "none" => mem = mem0
  /\ Upwards =>
       /\ i <= size
       /\ \A a \in Addresses :
            mem[a] = IF a \in dst..dst + i - 1 THEN mem0[src + (a - dst)] ELSE mem0[a]
  /\ fn = "memmove" /\ ~Upwards =>
       /\ i <= size
       /\ \A a \in Addresses :
            mem[a] = IF a \in dst + i..dst + size - 1 THEN mem0[src + (a - dst)] ELSE mem0[a]
  /\ fn = "memset" =>
       /\ i <= size
       /\ \A a \in Addresses :
            mem[a] = IF a \in dst..dst + i - 1 THEN value ELSE mem0[a]
  /\ fn = "memcmp" =>
       /\ i <= size /\ mem = mem0
       /\ \A k \in 0..i - 1 : mem0[dst + k] = mem0[src + k]
  /\ fn = "strlen" =>
       /\ mem = mem0
       /\ \A k \in 0..i - 1 : mem0[src + k] # 0

MemInv == CallOK /\ LoopInv /\ LibcCorrect

(* Every address gets what it is to have when memory is looked at byte by  *)
(* byte.                                                                   *)
LEMMA ByteStored ==
  ASSUME CallOK, NEW a \in Addresses, NEW b \in Values, Store(a, b)
  PROVE  /\ mem' \in [Addresses -> Values]
         /\ \A k \in Addresses : mem'[k] = IF k = a THEN b ELSE mem[k]
         /\ UNCHANGED <<fn, dst, src, size, value, mem0, called, result>>
BY DEF CallOK, Store, argVars

(* CopyUp, for the two functions that use it: the byte it reads has not    *)
(* been overwritten.                                                       *)
LEMMA CopyUpKeeps ==
  ASSUME MemInv, Upwards, CopyUp
  PROVE  MemInv'
<1>0. /\ CallOK /\ LoopInv /\ fn \in {"memcpy", "memmove"} /\ i <= size
      /\ dst \in Nat /\ src \in Nat /\ size \in Nat /\ i \in Nat /\ Size \in Nat
      /\ dst + size <= Size /\ src + size <= Size /\ called = fn
  BY LibcMemAssumption DEF MemInv, CallOK, LoopInv, Upwards, Routines
<1>1. CASE i < size
  <2>1. /\ dst + i \in Addresses /\ src + i \in Addresses
        /\ Store(dst + i, mem[src + i]) /\ i' = i + 1
    BY <1>0, <1>1 DEF CopyUp, Addresses
  <2>2. src + i \notin dst..dst + i - 1
    BY <1>0, <1>1 DEF CallOK, Upwards, Routines
  <2>3. mem[src + i] = mem0[src + i] /\ mem[src + i] \in Values
    BY <1>0, <2>1, <2>2 DEF LoopInv, CallOK
  <2>4. /\ mem' \in [Addresses -> Values]
        /\ \A k \in Addresses : mem'[k] = IF k = dst + i THEN mem[src + i] ELSE mem[k]
        /\ UNCHANGED <<fn, dst, src, size, value, mem0, called, result>>
    BY <1>0, <2>1, <2>3, ByteStored
  <2>5. CallOK'
    BY <1>0, <2>1, <2>4 DEF CallOK
  <2>6. ASSUME NEW a \in Addresses
        PROVE  mem'[a] = IF a \in dst..dst + (i + 1) - 1 THEN mem0[src + (a - dst)] ELSE mem0[a]
    <3>1. a \in Int
      BY DEF Addresses
    <3>2. CASE a = dst + i
      <4>1. a \in dst..dst + (i + 1) - 1 /\ src + (a - dst) = src + i
        BY <1>0, <3>2
      <4> QED
        BY <2>3, <2>4, <3>2, <4>1
    <3>3. CASE a # dst + i
      <4>1. a \in dst..dst + (i + 1) - 1 <=> a \in dst..dst + i - 1
        BY <1>0, <3>1, <3>3
      <4> QED
        BY <1>0, <2>4, <3>3, <4>1 DEF LoopInv
    <3> QED
      BY <3>2, <3>3
  <2>7. LoopInv'
    BY <1>0, <1>1, <2>1, <2>4, <2>6 DEF LoopInv, Upwards
  <2> QED
    BY <1>0, <2>4, <2>5, <2>7 DEF MemInv, LibcCorrect
<1>2. CASE ~(i < size)
  <2>1. i = size /\ Return(0)
    BY <1>0, <1>2 DEF CopyUp
  <2>2. fn' = "returned" /\ UNCHANGED <<i, mem, dst, src, size, value, mem0, called>>
    BY <2>1 DEF Return, argVars
  <2>3. CallOK' /\ LoopInv'
    BY <1>0, <2>2 DEF CallOK, LoopInv, Upwards, Routines
  <2>4. ASSUME NEW a \in Addresses
        PROVE  mem[a] = Expected(a)
    <3>1. a \in Int
      BY DEF Addresses
    <3>2. src + (a - dst) = src + a - dst
      BY <1>0, <3>1
    <3>3. mem[a] = IF a \in dst..dst + size - 1 THEN mem0[src + a - dst] ELSE mem0[a]
      BY <1>0, <2>1, <3>2 DEF LoopInv
    <3> QED
      BY <1>0, <3>3 DEF Expected
  <2>5. LibcCorrect'
    BY <1>0, <2>2, <2>4 DEF LibcCorrect, Expected
  <2> QED
    BY <2>3, <2>5 DEF MemInv
<1> QED
  BY <1>1, <1>2

(* CopyDown, for the other overlap: it reads what lies below the bytes it  *)
(* has written.                                                            *)
LEMMA CopyDownKeeps ==
  ASSUME MemInv, fn = "memmove", ~(dst < src), CopyDown
  PROVE  MemInv'
<1>0. /\ CallOK /\ LoopInv /\ ~Upwards /\ i <= size /\ src <= dst
      /\ dst \in Nat /\ src \in Nat /\ size \in Nat /\ i \in Nat /\ Size \in Nat
      /\ dst + size <= Size /\ src + size <= Size /\ called = fn
  BY LibcMemAssumption DEF MemInv, CallOK, LoopInv, Upwards, Routines
<1>1. CASE i # 0
  <2> DEFINE to == dst + i - 1
             from == src + i - 1
  <2>1. /\ to \in Addresses /\ from \in Addresses
        /\ Store(to, mem[from]) /\ i' = i - 1 /\ i' \in Nat /\ i' <= size
    BY <1>0, <1>1 DEF CopyDown, Addresses
  <2>2. from \notin dst + i..dst + size - 1
    BY <1>0, <1>1
  <2>3. mem[from] = mem0[from] /\ mem[from] \in Values
    BY <1>0, <2>1, <2>2 DEF LoopInv, CallOK
  <2>4. /\ mem' \in [Addresses -> Values]
        /\ \A k \in Addresses : mem'[k] = IF k = to THEN mem[from] ELSE mem[k]
        /\ UNCHANGED <<fn, dst, src, size, value, mem0, called, result>>
    BY <1>0, <2>1, <2>3, ByteStored
  <2>5. CallOK'
    BY <1>0, <2>1, <2>4 DEF CallOK
  <2>6. ASSUME NEW a \in Addresses
        PROVE  mem'[a] = IF a \in dst + (i - 1)..dst + size - 1
                         THEN mem0[src + (a - dst)] ELSE mem0[a]
    <3>1. a \in Int
      BY DEF Addresses
    <3>2. CASE a = to
      <4>1. a \in dst + (i - 1)..dst + size - 1 /\ src + (a - dst) = from
        BY <1>0, <1>1, <3>2
      <4> QED
        BY <2>3, <2>4, <3>2, <4>1
    <3>3. CASE a # to
      <4>1. a \in dst + (i - 1)..dst + size - 1 <=> a \in dst + i..dst + size - 1
        BY <1>0, <1>1, <3>1, <3>3
      <4> QED
        BY <1>0, <2>4, <3>3, <4>1 DEF LoopInv
    <3> QED
      BY <3>2, <3>3
  <2>7. LoopInv'
    BY <1>0, <2>1, <2>4, <2>6 DEF LoopInv, Upwards
  <2> QED
    BY <2>4, <2>5, <2>7 DEF MemInv, LibcCorrect
<1>2. CASE i = 0
  <2>1. fn' = "returned" /\ UNCHANGED <<i, mem, dst, src, size, value, mem0, called>>
    BY <1>2 DEF CopyDown, Return, argVars
  <2>2. CallOK' /\ LoopInv'
    BY <1>0, <2>1 DEF CallOK, LoopInv, Upwards, Routines
  <2>3. ASSUME NEW a \in Addresses
        PROVE  mem[a] = Expected(a)
    <3>1. a \in Int
      BY DEF Addresses
    <3>2. src + (a - dst) = src + a - dst /\ dst + i = dst
      BY <1>0, <1>2, <3>1
    <3>3. mem[a] = IF a \in dst..dst + size - 1 THEN mem0[src + a - dst] ELSE mem0[a]
      BY <1>0, <3>2 DEF LoopInv
    <3> QED
      BY <1>0, <3>3 DEF Expected
  <2>4. LibcCorrect'
    BY <1>0, <2>1, <2>3 DEF LibcCorrect, Expected
  <2> QED
    BY <2>2, <2>4 DEF MemInv
<1> QED
  BY <1>1, <1>2

(* A turn of memset stores the value once more. *)
LEMMA MemsetKeeps == ASSUME MemInv, memset PROVE MemInv'
<1>0. /\ CallOK /\ LoopInv /\ fn = "memset" /\ i <= size
      /\ dst \in Nat /\ size \in Nat /\ i \in Nat /\ Size \in Nat
      /\ dst + size <= Size /\ called = fn
  BY LibcMemAssumption DEF MemInv, CallOK, LoopInv, Routines, memset
<1>1. CASE i < size
  <2>1. dst + i \in Addresses /\ Store(dst + i, value) /\ i' = i + 1 /\ value \in Values
    BY <1>0, <1>1 DEF memset, Addresses, CallOK
  <2>2. /\ mem' \in [Addresses -> Values]
        /\ \A k \in Addresses : mem'[k] = IF k = dst + i THEN value ELSE mem[k]
        /\ UNCHANGED <<fn, dst, src, size, value, mem0, called, result>>
    BY <1>0, <2>1, ByteStored
  <2>3. CallOK'
    BY <1>0, <2>1, <2>2 DEF CallOK
  <2>4. ASSUME NEW a \in Addresses
        PROVE  mem'[a] = IF a \in dst..dst + (i + 1) - 1 THEN value ELSE mem0[a]
    <3>1. a \in Int
      BY DEF Addresses
    <3>2. CASE a = dst + i
      <4>1. a \in dst..dst + (i + 1) - 1
        BY <1>0, <3>2
      <4> QED
        BY <2>2, <3>2, <4>1
    <3>3. CASE a # dst + i
      <4>1. a \in dst..dst + (i + 1) - 1 <=> a \in dst..dst + i - 1
        BY <1>0, <3>1, <3>3
      <4> QED
        BY <1>0, <2>2, <3>3, <4>1 DEF LoopInv
    <3> QED
      BY <3>2, <3>3
  <2>5. LoopInv'
    BY <1>0, <1>1, <2>1, <2>2, <2>4 DEF LoopInv, Upwards
  <2> QED
    BY <1>0, <2>2, <2>3, <2>5 DEF MemInv, LibcCorrect
<1>2. CASE ~(i < size)
  <2>1. i = size /\ fn' = "returned" /\ UNCHANGED <<i, mem, dst, src, size, value, mem0, called>>
    BY <1>0, <1>2 DEF memset, Return, argVars
  <2>2. CallOK' /\ LoopInv'
    BY <1>0, <2>1 DEF CallOK, LoopInv, Upwards, Routines
  <2>3. ASSUME NEW a \in Addresses
        PROVE  mem[a] = Expected(a)
    BY <1>0, <2>1 DEF LoopInv, Expected
  <2>4. LibcCorrect'
    BY <1>0, <2>1, <2>3 DEF LibcCorrect, Expected
  <2> QED
    BY <2>2, <2>4 DEF MemInv
<1> QED
  BY <1>1, <1>2

(* A turn of memcmp finds a difference or one more equal byte. *)
LEMMA MemcmpKeeps == ASSUME MemInv, memcmp PROVE MemInv'
<1>0. /\ CallOK /\ fn = "memcmp" /\ i <= size /\ mem = mem0
      /\ \A k \in 0..i - 1 : mem0[dst + k] = mem0[src + k]
      /\ dst \in Nat /\ src \in Nat /\ size \in Nat /\ i \in Nat /\ Size \in Nat
      /\ dst + size <= Size /\ src + size <= Size /\ called = fn
  BY LibcMemAssumption DEF MemInv, CallOK, LoopInv, Routines, memcmp
<1>1. CASE i < size /\ mem[dst + i] = mem[src + i]
  <2>1. i' = i + 1 /\ UNCHANGED <<fn, mem, dst, src, size, value, mem0, called, result>>
    BY <1>1 DEF memcmp, argVars
  <2>2. \A k \in 0..(i + 1) - 1 : mem0[dst + k] = mem0[src + k]
    <3>1. \A k \in 0..(i + 1) - 1 : k \in 0..i - 1 \/ k = i
      BY <1>0
    <3> QED
      BY <1>0, <1>1, <3>1
  <2> QED
    BY <1>0, <1>1, <2>1, <2>2 DEF MemInv, CallOK, LoopInv, Upwards, LibcCorrect
<1>2. CASE ~(i < size /\ mem[dst + i] = mem[src + i])
  <2>1. /\ fn' = "returned" /\ UNCHANGED <<i, mem, dst, src, size, value, mem0, called>>
        /\ result' = IF i = size THEN 0 ELSE IF mem0[dst + i] < mem0[src + i] THEN -1 ELSE 1
    BY <1>0, <1>2 DEF memcmp, Return, argVars
  <2>2. CallOK' /\ LoopInv'
    BY <1>0, <2>1 DEF CallOK, LoopInv, Upwards, Routines
  <2>3. \A a \in Addresses : mem[a] = Expected(a)
    BY <1>0 DEF Expected
  <2>4. i # size => mem0[dst + i] # mem0[src + i] /\ i \in 0..size - 1
    BY <1>0, <1>2
  <2>5. ASSUME NEW k \in 0..Size, FirstDifference(k)
        PROVE  (result' < 0 <=> mem0[dst + k] < mem0[src + k]) /\ result' # 0
    <3>1. k \in 0..size - 1 /\ mem0[dst + k] # mem0[src + k] /\ ~(k \in 0..i - 1)
      BY <1>0, <2>5 DEF FirstDifference
    <3>2. i # size /\ i <= k
      BY <1>0, <3>1
    <3>3. k = i
      <4>1. ~(i \in 0..k - 1)
        BY <2>4, <2>5, <3>2 DEF FirstDifference
      <4> QED
        BY <1>0, <3>1, <3>2, <4>1
    <3> QED
      BY <2>1, <3>2, <3>3
  <2>6. (\A k \in 0..size - 1 : mem0[dst + k] = mem0[src + k]) => result' = 0
    BY <2>1, <2>4
  <2>7. LibcCorrect'
    BY <1>0, <2>1, <2>3, <2>5, <2>6 DEF LibcCorrect, Expected, FirstDifference
  <2> QED
    BY <2>2, <2>7 DEF MemInv
<1> QED
  BY <1>1, <1>2

(* strlen stops inside the memory: the string ends there. *)
LEMMA StrlenKeeps == ASSUME MemInv, strlen PROVE MemInv'
<1>0. /\ CallOK /\ fn = "strlen" /\ mem = mem0 /\ size = 0
      /\ \A k \in 0..i - 1 : mem0[src + k] # 0
      /\ src \in Nat /\ i \in Nat /\ Size \in Nat /\ called = fn
  BY LibcMemAssumption DEF MemInv, CallOK, LoopInv, Routines, strlen
<1>1. CASE mem[src + i] # 0
  <2>1. i' = i + 1 /\ UNCHANGED <<fn, mem, dst, src, size, value, mem0, called, result>>
    BY <1>1 DEF strlen, argVars
  <2>2. \A k \in 0..(i + 1) - 1 : mem0[src + k] # 0
    <3>1. \A k \in 0..(i + 1) - 1 : k \in 0..i - 1 \/ k = i
      BY <1>0
    <3> QED
      BY <1>0, <1>1, <3>1
  <2> QED
    BY <1>0, <2>1, <2>2 DEF MemInv, CallOK, LoopInv, Upwards, LibcCorrect
<1>2. CASE mem[src + i] = 0
  <2>1. /\ fn' = "returned" /\ result' = i
        /\ UNCHANGED <<i, mem, dst, src, size, value, mem0, called>>
    BY <1>2 DEF strlen, Return, argVars
  <2>2. CallOK' /\ LoopInv'
    BY <1>0, <2>1 DEF CallOK, LoopInv, Upwards, Routines
  <2>3. \A a \in Addresses : mem[a] = Expected(a)
    BY <1>0 DEF Expected
  <2>4. LibcCorrect'
    BY <1>0, <1>2, <2>1, <2>3 DEF LibcCorrect, Expected
  <2> QED
    BY <2>2, <2>4 DEF MemInv
<1> QED
  BY <1>1, <1>2

(* A call: the memory is still the one it finds. *)
LEMMA CallKeeps ==
  ASSUME MemInv, NEW f \in Routines, NEW d \in Addresses, NEW s \in Addresses,
         NEW n \in 0..Size, NEW v \in Values, CallMem(f, d, s, n, v)
  PROVE  MemInv'
<1>0. /\ CallOK /\ mem = mem0 /\ fn' = f /\ called' = f /\ Allowed(f, d, s, n, v)
      /\ dst' = d /\ src' = s /\ size' = n /\ value' = v
      /\ i' = (IF f = "memmove" /\ ~(d < s) THEN n ELSE 0)
      /\ UNCHANGED <<mem, mem0, result>>
  BY DEF MemInv, LoopInv, CallMem, Ascending
<1>1. Size \in Nat /\ d \in Nat /\ s \in Nat /\ n \in Nat /\ v \in Nat /\ f # "returned" /\ f # "none"
  BY LibcMemAssumption DEF Addresses, Routines
<1>2. CallOK'
  BY <1>0, <1>1 DEF CallOK, Allowed
<1>3. LoopInv'
  <2>1. \A a \in Addresses : a \notin d..d + 0 - 1 /\ a \notin d + n..d + n - 1
    BY <1>1
  <2>2. i' \in Nat /\ i' <= n /\ (f # "memmove" \/ d < s => i' = 0)
    BY <1>0, <1>1
  <2>3. 0..0 - 1 = {}
    OBVIOUS
  <2> QED
    BY <1>0, <1>1, <2>1, <2>2, <2>3 DEF LoopInv, Upwards
<1>4. LibcCorrect'
  BY <1>0, <1>1 DEF LibcCorrect
<1> QED
  BY <1>2, <1>3, <1>4 DEF MemInv

(* Every step keeps the invariant. *)
LEMMA MemNextInv == MemInv /\ [MemNext]_memVars => MemInv'
<1> SUFFICES ASSUME MemInv, [MemNext]_memVars PROVE MemInv'
  OBVIOUS
<1>1. CASE \E f \in Routines, d, s \in Addresses, n \in 0..Size, v \in Values :
             CallMem(f, d, s, n, v)
  BY <1>1, CallKeeps
<1>2. CASE memcpy
  BY <1>2, CopyUpKeeps DEF memcpy, Upwards
<1>3. CASE memmove
  BY <1>3, CopyUpKeeps, CopyDownKeeps DEF memmove, Ascending, Upwards
<1>4. CASE memset
  BY <1>4, MemsetKeeps
<1>5. CASE memcmp
  BY <1>5, MemcmpKeeps
<1>6. CASE strlen
  BY <1>6, StrlenKeeps
<1>7. CASE UNCHANGED memVars
  BY <1>7 DEF memVars, MemInv, CallOK, LoopInv, Upwards, LibcCorrect, Expected, FirstDifference
<1> QED
  BY <1>1, <1>2, <1>3, <1>4, <1>5, <1>6, <1>7 DEF MemNext

(* For every memory, every call a caller may make leaves the memory C      *)
(* promises, bytes outside the destination included and however the        *)
(* ranges of memmove overlap, and memcmp and strlen answer rightly.        *)
THEOREM MemoryFunctionsCorrect == MemSpec => []LibcCorrect
<1>1. MemInit => MemInv
  <2> SUFFICES ASSUME MemInit PROVE MemInv
    OBVIOUS
  <2>1. CallOK
    BY LibcMemAssumption DEF MemInit, CallOK, Routines
  <2> QED
    BY <2>1 DEF MemInit, MemInv, LoopInv, Upwards, LibcCorrect
<1>2. MemInv => LibcCorrect
  BY DEF MemInv
<1> QED
  BY <1>1, <1>2, MemNextInv, PTL DEF MemSpec

-----------------------------------------------------------------------------
(***************************************************************************)
(* What Printf promises, for every format and every argument.  What the    *)
(* format means is a recursive function; that it exists, and what it is on *)
(* literal text, is proved with the least number principle in the place of *)
(* an induction.  The inductive invariant says that what has been sent,    *)
(* the bytes print still holds, and the meaning of the rest of the format  *)
(* make up the meaning of the format, and that the count is the number of  *)
(* the first two.                                                          *)
(***************************************************************************)

(* The least number principle, which stands in for an induction. *)
LEMMA LeastNumber ==
  ASSUME NEW S \in SUBSET Nat, S # {}
  PROVE  \E x \in S : \A y \in S : x <= y
<1> DEFINE less == OpToRel(<, Nat)
<1>1. IsWellFoundedOn(less, Nat)
  BY NatLessThanWellFounded
<1>2. \A x, y \in Nat : <<y, x>> \in less <=> y < x
  BY DEF OpToRel
<1> HIDE DEF less
<1>3. PICK x \in S : \A y \in S : ~(<<y, x>> \in less)
  BY <1>1, WFMin
<1>4. ASSUME NEW y \in S PROVE x <= y
  <2>1. x \in Nat /\ y \in Nat /\ ~(y < x)
    BY <1>2, <1>3
  <2>2. QED
    BY <2>1
<1>5. QED
  BY <1>4


(* format[p] is c, as IsAt has it. *)
HasAt(f, p, c) == p \in 1..Len(f) /\ f[p] = c

(* The recursion of Meaning, for a format f and arguments a. *)
OutAt(out, f, a, p) ==
  [n \in Nat |->
     IF p > Len(f) THEN <<>>
     ELSE IF f[p] # "%" THEN <<f[p]>> \o out[p + 1][n]
     ELSE IF HasAt(f, p + 1, "%") THEN <<"%">> \o out[p + 2][n]
     ELSE IF HasAt(f, p + 1, "c") THEN <<a[n].c>> \o out[p + 2][n + 1]
     ELSE IF HasAt(f, p + 1, "s") THEN a[n].s \o out[p + 2][n + 1]
     ELSE SubSeq(f, p, Len(f))]
OutFrom(out, f, a, m) == out = [p \in m..Len(f) + 1 |-> OutAt(out, f, a, p)]
Out(f, a) == CHOOSE out : OutFrom(out, f, a, 1)

(* Meaning, for the format and the arguments of the call. *)
LEMMA MeaningIsOut ==
  Meaning = Out(format, args)[1][1] /\ Meaning' = Out(format', args')[1][1]
BY DEF Meaning, Out, OutFrom, OutAt, HasAt, IsAt

(* The output from p on depends on the output further on only, *)
LEMMA OutAtLocal ==
  ASSUME NEW f \in Seq(Characters), NEW a, NEW p \in 1..Len(f) + 1, NEW x, NEW y,
         p <= Len(f) => x[p + 1] = y[p + 1],
         p + 1 <= Len(f) => x[p + 2] = y[p + 2]
  PROVE  OutAt(x, f, a, p) = OutAt(y, f, a, p)
<1>1. Len(f) \in Nat
  OBVIOUS
<1>2. CASE p > Len(f)
  BY <1>1, <1>2 DEF OutAt
<1>3. CASE p <= Len(f) /\ ~(p + 1 <= Len(f))
  <2>1. \A c : ~HasAt(f, p + 1, c)
    BY <1>1, <1>3 DEF HasAt
  <2>2. x[p + 1] = y[p + 1]
    BY <1>3
  <2>3. QED
    BY <2>1, <2>2 DEF OutAt
<1>4. CASE p + 1 <= Len(f)
  <2>1. x[p + 1] = y[p + 1] /\ x[p + 2] = y[p + 2]
    BY <1>1, <1>4
  <2>2. QED
    BY <2>1 DEF OutAt
<1>5. QED
  BY <1>1, <1>2, <1>3, <1>4

(* and so there is such a function. *)
LEMMA OutExists ==
  ASSUME NEW f \in Seq(Characters), NEW a
  PROVE  \E out : OutFrom(out, f, a, 1)
<1> DEFINE L == Len(f)
           T == {k \in 0..L : ~ \E out : OutFrom(out, f, a, L + 1 - k)}
<1>1. L \in Nat
  OBVIOUS
<1>2. T = {}
  <2> SUFFICES ASSUME T # {} PROVE FALSE
    OBVIOUS
  <2>1. PICK x \in T : \A y \in T : x <= y
    <3>1. T \in SUBSET Nat
      BY <1>1
    <3> HIDE DEF T
    <3>2. QED
      BY <3>1, LeastNumber
  <2> DEFINE m == L + 1 - x
  <2>2. x \in 0..L /\ m \in 1..L + 1 /\ \A out : ~OutFrom(out, f, a, m)
    BY <1>1
  <2>3. PICK u : \A p \in m + 1..L + 1 : u[p] = OutAt(u, f, a, p)
    <3>1. CASE x = 0
      BY <1>1, <3>1
    <3>2. CASE x # 0
      <4>0. x - 1 \in 0..L /\ L + 1 - (x - 1) = m + 1 /\ ~(x <= x - 1)
        BY <1>1, <2>2, <3>2
      <4>1. x - 1 \in 0..L /\ x - 1 \notin T /\ L + 1 - (x - 1) = m + 1
        <5> HIDE DEF T
        <5>1. QED
          BY <2>1, <4>0
      <4>2. PICK u : OutFrom(u, f, a, L + 1 - (x - 1))
        BY <4>1
      <4>3. OutFrom(u, f, a, m + 1)
        BY <4>1, <4>2
      <4> HIDE DEF m
      <4>4. QED
        BY <4>3, Zenon DEF OutFrom
    <3>3. QED
      BY <3>1, <3>2
  <2> DEFINE w == [p \in m..L + 1 |-> OutAt(u, f, a, p)]
  <2>4. \A p \in m + 1..L + 1 : w[p] = u[p]
    BY <1>1, <2>2, <2>3
  <2>5. w = [p \in m..L + 1 |-> w[p]] /\ \A p \in m..L + 1 : w[p] = OutAt(u, f, a, p)
    OBVIOUS
  <2> HIDE DEF w, m
  <2>6. ASSUME NEW p \in m..L + 1 PROVE OutAt(u, f, a, p) = OutAt(w, f, a, p)
    <3>1. p \in 1..L + 1 /\ (p <= L => p + 1 \in m + 1..L + 1) /\ (p + 1 <= L => p + 2 \in m + 1..L + 1)
      BY <1>1, <2>2
    <3>2. (p <= L => u[p + 1] = w[p + 1]) /\ (p + 1 <= L => u[p + 2] = w[p + 2])
      BY <2>4, <3>1
    <3>3. QED
      BY <3>1, <3>2, OutAtLocal
  <2>7. w = [p \in m..L + 1 |-> OutAt(w, f, a, p)]
    BY <2>5, <2>6
  <2>8. QED
    BY <2>2, <2>7 DEF OutFrom
<1>3. L \in 0..L /\ L + 1 - L = 1
  BY <1>1
<1>4. \E out : OutFrom(out, f, a, L + 1 - L)
  BY <1>2, <1>3
<1>5. QED
  BY <1>3, <1>4

(* What Meaning computes, case by case. *)
OutRules(out, f, a, p, n) ==
  /\ p > Len(f) => out[p][n] = <<>>
  /\ p <= Len(f) /\ f[p] # "%" => out[p][n] = <<f[p]>> \o out[p + 1][n]
  /\ p <= Len(f) /\ f[p] = "%" =>
       /\ HasAt(f, p + 1, "%") => out[p][n] = <<"%">> \o out[p + 2][n]
       /\ HasAt(f, p + 1, "c") => out[p][n] = <<a[n].c>> \o out[p + 2][n + 1]
       /\ HasAt(f, p + 1, "s") => out[p][n] = a[n].s \o out[p + 2][n + 1]
       /\ ~(\E c \in {"%", "c", "s"} : HasAt(f, p + 1, c)) => out[p][n] = SubSeq(f, p, Len(f))

(* Out follows these rules. *)
LEMMA OutSteps ==
  ASSUME NEW f \in Seq(Characters), NEW a, NEW p \in 1..Len(f) + 1, NEW n \in Nat
  PROVE  OutRules(Out(f, a), f, a, p, n)
<1> DEFINE out == Out(f, a)
<1>1. OutFrom(out, f, a, 1)
  BY OutExists, Zenon DEF Out
<1> HIDE DEF out
<1>2. out[p] = OutAt(out, f, a, p)
  BY <1>1, Zenon DEF OutFrom
<1>3. out[p][n] =
           IF p > Len(f) THEN <<>>
           ELSE IF f[p] # "%" THEN <<f[p]>> \o out[p + 1][n]
           ELSE IF HasAt(f, p + 1, "%") THEN <<"%">> \o out[p + 2][n]
           ELSE IF HasAt(f, p + 1, "c") THEN <<a[n].c>> \o out[p + 2][n + 1]
           ELSE IF HasAt(f, p + 1, "s") THEN a[n].s \o out[p + 2][n + 1]
           ELSE SubSeq(f, p, Len(f))
  BY <1>2, Zenon DEF OutAt
<1>4. p <= Len(f) <=> ~(p > Len(f))
  OBVIOUS
<1>5. \A c, d : HasAt(f, p + 1, c) /\ HasAt(f, p + 1, d) => c = d
  BY DEF HasAt
<1>6. "c" # "%" /\ "s" # "%" /\ "s" # "c"
  OBVIOUS
<1>7. /\ HasAt(f, p + 1, "c") => ~HasAt(f, p + 1, "%")
      /\ HasAt(f, p + 1, "s") => ~HasAt(f, p + 1, "%") /\ ~HasAt(f, p + 1, "c")
  BY <1>5, <1>6
<1>8. QED
  BY <1>3, <1>4, <1>7, Zenon DEF out, OutRules

(* Facts about sequences of characters. *)
LEMMA Concat3 ==
  \A s, t, u \in Seq(Characters) : (s \o t) \o u = s \o (t \o u)
BY ConcatAssociative

(* The same for two of them. *)
LEMMA Concat2 ==
  \A s, t \in Seq(Characters) :
    /\ s \o t \in Seq(Characters) /\ Len(s \o t) = Len(s) + Len(t) /\ Len(s) \in Nat
    /\ SubSeq(s \o t, 1, Len(s)) = s
    /\ s \o <<>> = s /\ <<>> \o s = s
<1> SUFFICES ASSUME NEW s \in Seq(Characters), NEW t \in Seq(Characters)
             PROVE  /\ s \o t \in Seq(Characters) /\ Len(s \o t) = Len(s) + Len(t) /\ Len(s) \in Nat
                    /\ SubSeq(s \o t, 1, Len(s)) = s
                    /\ s \o <<>> = s /\ <<>> \o s = s
  OBVIOUS
<1>1. s \o t \in Seq(Characters) /\ Len(s \o t) = Len(s) + Len(t) /\ Len(s) \in Nat
  OBVIOUS
<1>2. s \o <<>> = s /\ <<>> \o s = s
  BY ConcatEmptySeq
<1>3. SubSeq(s \o t, 1, Len(s)) = s
  <2>1. CASE Len(s) = 0
    <3>1. s = <<>> /\ SubSeq(s \o t, 1, 0) = <<>>
      BY <2>1, EmptySeq, SubSeqEmpty
    <3>2. QED
      BY <2>1, <3>1
  <2>2. CASE Len(s) # 0
    <3>1. 1 \in 1..Len(s) /\ Len(s) \in 1..Len(s)
      BY <1>1, <2>2
    <3>2. SubSeq(s \o t, 1, Len(s)) = SubSeq(s, 1, Len(s))
      BY <3>1, SubSeqOfConcat1
    <3>3. QED
      BY <3>2, SubSeqFull
  <2>3. QED
    BY <2>1, <2>2
<1>4. QED
  BY <1>1, <1>2, <1>3

(* The arguments suffice for the format: n is the next one at p. *)
Enough(f, a) ==
  /\ f \in Seq(Characters) /\ a \in Seq([c : Characters, s : Seq(Characters)])
  /\ Len(f) <= 2 * Len(a) + 1
Room(p, n) == n \in Nat \ {0} /\ 2 * (n - 1) <= p - 1

(* A conversion that begins at p finds its argument. *)
LEMMA RoomSteps ==
  ASSUME NEW f, NEW a, Enough(f, a), NEW p \in 1..Len(f) + 1, NEW n, Room(p, n)
  PROVE  /\ n \in Nat /\ Room(p + 1, n) /\ Room(p + 2, n) /\ Room(p + 2, n + 1)
         /\ p + 1 <= Len(f) => n \in 1..Len(a) /\ a[n].c \in Characters /\ a[n].s \in Seq(Characters)
<1>1. Len(f) \in Nat /\ Len(a) \in Nat /\ Len(f) <= 2 * Len(a) + 1
      /\ a \in Seq([c : Characters, s : Seq(Characters)])
  BY DEF Enough
<1>2. n \in Nat /\ Room(p + 1, n) /\ Room(p + 2, n) /\ Room(p + 2, n + 1)
  BY <1>1 DEF Room
<1>3. p + 1 <= Len(f) => n \in 1..Len(a)
  BY <1>1 DEF Room
<1>4. n \in 1..Len(a) => a[n] \in [c : Characters, s : Seq(Characters)]
  BY <1>1, ElementOfSeq
<1>5. QED
  BY <1>2, <1>3, <1>4

(* With enough arguments the output is a sequence of characters. *)
LEMMA OutIsSeq ==
  ASSUME NEW f, NEW a, Enough(f, a)
  PROVE  \A p \in 1..Len(f) + 1 : \A n : Room(p, n) => Out(f, a)[p][n] \in Seq(Characters)
<1> DEFINE L == Len(f)
           out == Out(f, a)
           P(p) == \A n : Room(p, n) => out[p][n] \in Seq(Characters)
           T == {k \in 0..L : ~P(L + 1 - k)}
<1>1. f \in Seq(Characters) /\ L \in Nat
  BY DEF Enough
<1>2. ASSUME NEW p \in 1..L + 1, p <= L => P(p + 1), p + 1 <= L => P(p + 2) PROVE P(p)
  <2> SUFFICES ASSUME NEW n, Room(p, n) PROVE out[p][n] \in Seq(Characters)
    OBVIOUS
  <2>1. /\ n \in Nat /\ Room(p + 1, n) /\ Room(p + 2, n) /\ Room(p + 2, n + 1)
        /\ p + 1 <= L => a[n].c \in Characters /\ a[n].s \in Seq(Characters)
    BY RoomSteps
  <2>2. /\ p > L => out[p][n] = <<>>
        /\ p <= L /\ f[p] # "%" => out[p][n] = <<f[p]>> \o out[p + 1][n]
        /\ p <= L /\ f[p] = "%" =>
             /\ HasAt(f, p + 1, "%") => out[p][n] = <<"%">> \o out[p + 2][n]
             /\ HasAt(f, p + 1, "c") => out[p][n] = <<a[n].c>> \o out[p + 2][n + 1]
             /\ HasAt(f, p + 1, "s") => out[p][n] = a[n].s \o out[p + 2][n + 1]
             /\ ~(\E c \in {"%", "c", "s"} : HasAt(f, p + 1, c)) => out[p][n] = SubSeq(f, p, L)
    <3>1. OutRules(out, f, a, p, n)
      BY <1>1, <2>1, OutSteps
    <3> HIDE DEF out
    <3>2. QED
      BY <3>1, Zenon DEF OutRules
  <2>3. p <= L => f[p] \in Characters /\ out[p + 1][n] \in Seq(Characters)
    BY <1>1, <1>2, <2>1
  <2>4. p + 1 <= L => out[p + 2][n] \in Seq(Characters) /\ out[p + 2][n + 1] \in Seq(Characters)
    BY <1>2, <2>1
  <2>5. \A c : HasAt(f, p + 1, c) => p + 1 <= L
    BY <1>1 DEF HasAt
  <2>6. SubSeq(f, p, L) \in Seq(Characters)
    <3>1. \A e \in p..L : f[e] \in Characters
      BY <1>1
    <3>2. QED
      BY <1>1, <3>1, SubSeqProperties
  <2>7. \A c \in Characters, s \in Seq(Characters) : <<c>> \o s \in Seq(Characters)
    OBVIOUS
  <2>8. \A t, s \in Seq(Characters) : t \o s \in Seq(Characters)
    OBVIOUS
  <2>9. <<>> \in Seq(Characters)
    OBVIOUS
  <2> HIDE DEF out, P, L
  <2>10. CASE p > L
    BY <2>2, <2>9, <2>10
  <2>11. CASE p <= L /\ f[p] # "%"
    BY <2>2, <2>3, <2>7, <2>11
  <2>12. CASE p <= L /\ f[p] = "%" /\ HasAt(f, p + 1, "%")
    <3>1. out[p][n] = <<f[p]>> \o out[p + 2][n]
      BY <2>2, <2>12
    <3>2. QED
      BY <2>3, <2>4, <2>5, <2>7, <2>12, <3>1
  <2>13. CASE p <= L /\ f[p] = "%" /\ HasAt(f, p + 1, "c")
    BY <2>1, <2>2, <2>4, <2>5, <2>7, <2>13
  <2>14. CASE p <= L /\ f[p] = "%" /\ HasAt(f, p + 1, "s")
    BY <2>1, <2>2, <2>4, <2>5, <2>8, <2>14
  <2>15. CASE p <= L /\ f[p] = "%" /\ ~(\E c \in {"%", "c", "s"} : HasAt(f, p + 1, c))
    BY <2>2, <2>6, <2>15
  <2>16. p > L \/ p <= L
    BY <1>1
  <2>17. QED
    BY <2>10, <2>11, <2>12, <2>13, <2>14, <2>15, <2>16, Zenon
<1> HIDE DEF P
<1>3. T = {}
  <2> SUFFICES ASSUME T # {} PROVE FALSE
    OBVIOUS
  <2>1. PICK x \in T : \A y \in T : x <= y
    <3>1. T \in SUBSET Nat
      BY <1>1
    <3> HIDE DEF T
    <3>2. QED
      BY <3>1, LeastNumber
  <2> DEFINE p == L + 1 - x
  <2>2. x \in 0..L /\ p \in 1..L + 1 /\ ~P(p)
    BY <1>1
  <2>3. \A y \in 0..x - 1 : P(L + 1 - y)
    BY <1>1, <2>1, <2>2
  <2>4. p <= L => x - 1 \in 0..x - 1 /\ L + 1 - (x - 1) = p + 1
    BY <1>1, <2>2
  <2>5. p + 1 <= L => x - 2 \in 0..x - 1 /\ L + 1 - (x - 2) = p + 2
    BY <1>1, <2>2
  <2> HIDE DEF p, T
  <2>6. (p <= L => P(p + 1)) /\ (p + 1 <= L => P(p + 2))
    BY <2>3, <2>4, <2>5
  <2>7. QED
    BY <1>2, <2>2, <2>6
<1>4. ASSUME NEW p \in 1..L + 1 PROVE P(p)
  <2>1. L + 1 - p \in 0..L /\ L + 1 - (L + 1 - p) = p
    BY <1>1
  <2>2. P(L + 1 - (L + 1 - p))
    BY <1>3, <2>1
  <2>3. QED
    BY <2>1, <2>2
<1>5. QED
  BY <1>4 DEF P

(* Text without a '%' stands for itself. *)
StandsForItself(f, a, p, q, n) == Out(f, a)[p][n] = SubSeq(f, p, q) \o Out(f, a)[q + 1][n]

(* By induction on its length. *)
LEMMA LiteralOut ==
  ASSUME NEW f, NEW a, Enough(f, a), NEW n \in Nat \ {0}
  PROVE  \A j \in Nat : \A p \in 1..Len(f) + 1 :
           Room(p, n) /\ p + j <= Len(f) + 1 /\ (\A e \in p..p + j - 1 : f[e] # "%")
             => StandsForItself(f, a, p, p + j - 1, n)
<1> DEFINE L == Len(f)
           out == Out(f, a)
           Plain(j, p) == Room(p, n) /\ p + j <= L + 1 /\ \A e \in p..p + j - 1 : f[e] # "%"
           P(j) == \A p \in 1..L + 1 :
                     Plain(j, p) => out[p][n] = SubSeq(f, p, p + j - 1) \o out[p + j][n]
           T == {j \in Nat : ~P(j)}
<1>1. f \in Seq(Characters) /\ L \in Nat
  BY DEF Enough
<1>2. \A p \in 1..L + 1 : Room(p, n) => out[p][n] \in Seq(Characters)
  BY OutIsSeq
<1>3. P(0)
  <2> SUFFICES ASSUME NEW p \in 1..L + 1, Room(p, n)
               PROVE  out[p][n] = SubSeq(f, p, p + 0 - 1) \o out[p + 0][n]
    OBVIOUS
  <2>1. p + 0 = p /\ p + 0 - 1 < p /\ p \in Int /\ p + 0 - 1 \in Int
    BY <1>1
  <2>2. SubSeq(f, p, p + 0 - 1) = <<>>
    BY <2>1, SubSeqEmpty
  <2>3. out[p][n] = <<>> \o out[p][n]
    BY <1>2, ConcatEmptySeq
  <2>4. QED
    BY <2>1, <2>2, <2>3
<1>4. ASSUME NEW j \in Nat, P(j) PROVE P(j + 1)
  <2> SUFFICES ASSUME NEW p \in 1..L + 1, Plain(j + 1, p)
               PROVE  out[p][n] = SubSeq(f, p, p + (j + 1) - 1) \o out[p + (j + 1)][n]
    OBVIOUS
  <2>1. /\ p <= L /\ f[p] # "%" /\ p + 1 \in 1..L + 1 /\ p \in 1..L
        /\ p + (j + 1) = (p + 1) + j /\ p + (j + 1) - 1 = p + j /\ (p + 1) + j - 1 = p + j
        /\ p + j \in p..L /\ (p + 1) + j \in 1..L + 1
    BY <1>1
  <2>2. Room(p, n) /\ Room(p + 1, n) /\ Room(p + 1 + j, n)
    BY <1>1 DEF Room
  <2>3. Plain(j, p + 1)
    BY <1>1, <2>1, <2>2
  <2>4. out[p + 1][n] = SubSeq(f, p + 1, p + j) \o out[(p + 1) + j][n]
    BY <1>4, <2>1, <2>3
  <2>5. out[p][n] = <<f[p]>> \o out[p + 1][n]
    <3>1. n \in Nat
      OBVIOUS
    <3>2. OutRules(out, f, a, p, n)
      BY <1>1, <3>1, OutSteps
    <3> HIDE DEF out
    <3>3. QED
      BY <2>1, <3>2 DEF OutRules
  <2>6. SubSeq(f, p, p + j) = <<f[p]>> \o SubSeq(f, p + 1, p + j)
    BY <1>1, <2>1, SubSeqRecursiveFirst
  <2>7. /\ <<f[p]>> \in Seq(Characters) /\ out[(p + 1) + j][n] \in Seq(Characters)
        /\ SubSeq(f, p + 1, p + j) \in Seq(Characters)
    <3>1. \A e \in p + 1..p + j : f[e] \in Characters
      BY <1>1, <2>1
    <3>2. SubSeq(f, p + 1, p + j) \in Seq(Characters)
      BY <2>1, <3>1, SubSeqProperties
    <3>3. QED
      BY <1>1, <1>2, <2>1, <2>2, <3>2
  <2> DEFINE h == <<f[p]>>
             t == SubSeq(f, p + 1, p + j)
             r == out[(p + 1) + j][n]
  <2> HIDE DEF out, h, t, r
  <2>8. h \in Seq(Characters) /\ t \in Seq(Characters) /\ r \in Seq(Characters)
    BY <2>7 DEF h, t, r
  <2>9. (h \o t) \o r = h \o (t \o r)
    BY <2>8, Concat3
  <2>10. QED
    BY <2>1, <2>4, <2>5, <2>6, <2>9 DEF h, t, r
<1> HIDE DEF P
<1>5. T = {}
  <2> SUFFICES ASSUME T # {} PROVE FALSE
    OBVIOUS
  <2>1. PICK x \in T : \A y \in T : x <= y
    <3>1. T \in SUBSET Nat
      OBVIOUS
    <3> HIDE DEF T
    <3>2. QED
      BY <3>1, LeastNumber
  <2>2. x \in Nat /\ x # 0 /\ ~P(x)
    BY <1>3
  <2>3. x - 1 \in Nat /\ x - 1 \notin T /\ (x - 1) + 1 = x
    BY <2>1, <2>2
  <2>4. QED
    BY <1>4, <2>2, <2>3
<1>6. ASSUME NEW j \in Nat, NEW p \in 1..L + 1, Plain(j, p)
      PROVE  StandsForItself(f, a, p, p + j - 1, n)
  <2>1. out[p][n] = SubSeq(f, p, p + j - 1) \o out[p + j][n]
    BY <1>5, <1>6 DEF P
  <2>2. p + j - 1 + 1 = p + j
    BY <1>1
  <2>3. QED
    BY <2>1, <2>2 DEF StandsForItself
<1>7. QED
  BY <1>6

(* The same for the text from p to q. *)
LEMMA LiteralText ==
  ASSUME NEW f, NEW a, Enough(f, a), NEW p \in 1..Len(f) + 1, NEW q \in p - 1..Len(f),
         NEW n, Room(p, n), \A e \in p..q : f[e] # "%"
  PROVE  StandsForItself(f, a, p, q, n)
<1> DEFINE j == q + 1 - p
           Holds(k) == Room(p, n) /\ p + k <= Len(f) + 1 /\ (\A e \in p..p + k - 1 : f[e] # "%")
             => StandsForItself(f, a, p, p + k - 1, n)
<1>1. Len(f) \in Nat /\ n \in Nat \ {0}
  BY DEF Enough, Room
<1>2. j \in Nat /\ p + j = q + 1 /\ p + j - 1 = q /\ p + j <= Len(f) + 1
  BY <1>1
<1>3. \A k \in Nat : Holds(k)
  BY <1>1, LiteralOut
<1> HIDE DEF j
<1>4. Holds(j)
  BY <1>2, <1>3
<1>5. QED
  BY <1>2, <1>4

(* Where the literal text ends: before the first '%' behind p. *)
LEMMA LiteralEnds ==
  ASSUME format \in Seq(Characters), NEW p \in 1..Len(format)
  PROVE  /\ LiteralEnd(p) \in p..Len(format)
         /\ \A e \in p + 1..LiteralEnd(p) : format[e] # "%"
<1> DEFINE L == Len(format)
           Ends(q) == q = L \/ format[q + 1] = "%"
           T == {q \in p..L : Ends(q)}
           Good(q) == Ends(q) /\ \A e \in p + 1..q : format[e] # "%"
<1>1. L \in Nat /\ L \in T /\ T \in SUBSET Nat
  OBVIOUS
<1>2. PICK q \in T : \A y \in T : q <= y
  <2> HIDE DEF T
  <2>1. QED
    BY <1>1, LeastNumber
<1>3. ASSUME NEW e \in p + 1..q PROVE format[e] # "%"
  <2>1. e - 1 \in p..L /\ ~(q <= e - 1) /\ e - 1 + 1 = e
    BY <1>1
  <2>2. e - 1 \notin T
    <3> HIDE DEF T
    <3>1. QED
      BY <1>2, <2>1
  <2>3. QED
    BY <2>1, <2>2
<1>4. q \in p..L /\ Good(q)
  BY <1>3
<1>5. LiteralEnd(p) = CHOOSE r \in p..L : Good(r)
  BY DEF LiteralEnd
<1> HIDE DEF Good
<1>6. LiteralEnd(p) \in p..L /\ Good(LiteralEnd(p))
  BY <1>4, <1>5
<1>7. QED
  BY <1>6 DEF Good

(* A piece of the format is the beginning of what is left to print. *)
Fits(text, next, takes) ==
  /\ text \in Seq(Characters) /\ next \in 1..Len(format) + 1 /\ Room(next, arg + takes)
  /\ Out(format, args)[at][arg] = text \o Out(format, args)[next][arg + takes]

(* NextPiece is such a piece. *)
LEMMA NextPieceOut ==
  ASSUME Enough(format, args), at \in 1..Len(format), Room(at, arg)
  PROVE  \E text, next, takes : NextPiece = Piece(text, next, takes) /\ Fits(text, next, takes)
                                /\ takes \in {0, 1}
<1> DEFINE L == Len(format)
           out == Out(format, args)
<1>1. format \in Seq(Characters) /\ L \in Nat /\ arg \in Nat \ {0}
  BY DEF Enough, Room
<1>2. OutRules(out, format, args, at, arg)
  BY <1>1, OutSteps
<1>3. /\ Room(at + 1, arg) /\ Room(at + 2, arg) /\ Room(at + 2, arg + 1)
      /\ at + 1 <= L => args[arg].c \in Characters /\ args[arg].s \in Seq(Characters)
  BY RoomSteps
<1>4. \A c : HasAt(format, at + 1, c) => at + 1 <= L /\ at + 2 \in 1..L + 1
  BY <1>1 DEF HasAt
<1>5. \A p \in 1..L + 1 : \A n : Room(p, n) => out[p][n] \in Seq(Characters)
  BY OutIsSeq
<1>6. \A e, j \in Int : 1 <= e /\ j <= L => SubSeq(format, e, j) \in Seq(Characters)
  <2> SUFFICES ASSUME NEW e \in Int, NEW j \in Int, 1 <= e, j <= L
               PROVE  SubSeq(format, e, j) \in Seq(Characters)
    OBVIOUS
  <2>1. \A k \in e..j : format[k] \in Characters
    BY <1>1
  <2>2. QED
    BY <2>1, SubSeqProperties
<1>7. \A p \in at..L + 1 : Room(p, arg)
  BY <1>1 DEF Room
<1>9. CASE format[at] # "%"
  <2> DEFINE q == LiteralEnd(at)
  <2>1. q \in at..L /\ \A e \in at + 1..q : format[e] # "%"
    BY <1>1, LiteralEnds
  <2>2. NextPiece = Piece(SubSeq(format, at, q), q + 1, 0)
    BY <1>9 DEF NextPiece, Literal, IsAt
  <2> HIDE DEF q
  <2>3. q \in at - 1..L /\ at \in 1..L + 1 /\ \A e \in at..q : format[e] # "%"
    BY <1>1, <1>9, <2>1
  <2>5. out[at][arg] = SubSeq(format, at, q) \o out[q + 1][arg]
    <3>1. StandsForItself(format, args, at, q, arg)
      BY <2>3, LiteralText
    <3>2. QED
      BY <3>1 DEF StandsForItself
  <2>6. q + 1 \in at..L + 1 /\ q + 1 \in 1..L + 1 /\ arg + 0 = arg /\ q \in Int /\ q <= L
    BY <1>1, <2>1
  <2>7. Fits(SubSeq(format, at, q), q + 1, 0)
    <3>1. SubSeq(format, at, q) \in Seq(Characters) /\ Room(q + 1, arg + 0)
      BY <1>1, <1>6, <1>7, <2>6
    <3>2. QED
      BY <2>5, <2>6, <3>1 DEF Fits
  <2>8. QED
    BY <2>2, <2>7
<1>10. CASE format[at] = "%" /\ HasAt(format, at + 1, "%")
  <2> DEFINE q == LiteralEnd(at + 1)
  <2>0. at + 1 \in 1..L
    BY <1>1, <1>4, <1>10
  <2>1. q \in at + 1..L /\ \A e \in at + 1 + 1..q : format[e] # "%"
    BY <1>1, <2>0, LiteralEnds
  <2>2. NextPiece = Piece(SubSeq(format, at + 1, q), q + 1, 0)
    BY <1>10 DEF NextPiece, Literal, IsAt, HasAt
  <2> HIDE DEF q
  <2>3. q \in at + 2 - 1..L /\ at + 2 \in 1..L + 1 /\ \A e \in at + 2..q : format[e] # "%"
    BY <1>1, <2>1
  <2>4. out[at + 2][arg] = SubSeq(format, at + 2, q) \o out[q + 1][arg]
    <3>1. StandsForItself(format, args, at + 2, q, arg)
      BY <1>3, <2>3, LiteralText
    <3>2. QED
      BY <3>1 DEF StandsForItself
  <2>5. out[at][arg] = <<"%">> \o out[at + 2][arg]
    <3> HIDE DEF out
    <3>1. QED
      BY <1>1, <1>2, <1>10 DEF OutRules
  <2>6. SubSeq(format, at + 1, q) = <<"%">> \o SubSeq(format, at + 2, q)
    <3>1. format[at + 1] = "%"
      BY <1>10 DEF HasAt
    <3>2. SubSeq(format, at + 1, q) = <<format[at + 1]>> \o SubSeq(format, at + 1 + 1, q)
      BY <1>1, <2>0, <2>1, SubSeqRecursiveFirst
    <3>3. at + 1 + 1 = at + 2
      BY <1>1
    <3>4. QED
      BY <3>1, <3>2, <3>3
  <2>7. q + 1 \in at..L + 1 /\ q + 1 \in 1..L + 1 /\ arg + 0 = arg /\ q \in Int /\ q <= L
        /\ at + 1 \in Int /\ 1 <= at + 1 /\ at + 2 \in Int /\ 1 <= at + 2
    BY <1>1, <2>1
  <2> DEFINE h == <<"%">>
             t == SubSeq(format, at + 2, q)
             r == out[q + 1][arg]
  <2>8. h \in Seq(Characters) /\ t \in Seq(Characters) /\ r \in Seq(Characters)
    <3>1. "%" \in Characters
      BY <1>1, <1>10
    <3>2. h \in Seq(Characters)
      BY <3>1
    <3>3. t \in Seq(Characters)
      BY <1>6, <2>7
    <3>4. r \in Seq(Characters)
      BY <1>5, <1>7, <2>7
    <3>5. QED
      BY <3>2, <3>3, <3>4
  <2> HIDE DEF out, h, t, r
  <2>9. (h \o t) \o r = h \o (t \o r) /\ h \o t \in Seq(Characters)
    BY <2>8, Concat3, Concat2
  <2>10. out[at][arg] = SubSeq(format, at + 1, q) \o out[q + 1][arg]
    BY <2>3, <2>4, <2>5, <2>6, <2>9 DEF h, t, r
  <2>11. Fits(SubSeq(format, at + 1, q), q + 1, 0)
    <3>1. SubSeq(format, at + 1, q) \in Seq(Characters) /\ Room(q + 1, arg + 0)
      BY <1>6, <1>7, <2>7
    <3>2. QED
      BY <2>7, <2>10, <3>1 DEF Fits, out
  <2>12. QED
    BY <2>2, <2>11
<1>11. CASE format[at] = "%" /\ HasAt(format, at + 1, "c")
  <2>1. NextPiece = Piece(<<args[arg].c>>, at + 2, 1)
    BY <1>11 DEF NextPiece, Literal, IsAt, HasAt
  <2>2. at + 1 <= L /\ at + 2 \in 1..L + 1
    BY <1>4, <1>11
  <2>3. out[at][arg] = <<args[arg].c>> \o out[at + 2][arg + 1]
    <3> HIDE DEF out
    <3>1. QED
      BY <1>1, <1>2, <1>11 DEF OutRules
  <2>4. Fits(<<args[arg].c>>, at + 2, 1)
    BY <1>3, <2>2, <2>3 DEF Fits
  <2>5. QED
    BY <2>1, <2>4
<1>12. CASE format[at] = "%" /\ HasAt(format, at + 1, "s")
  <2>1. NextPiece = Piece(args[arg].s, at + 2, 1)
    BY <1>12 DEF NextPiece, Literal, IsAt, HasAt
  <2>2. at + 1 <= L /\ at + 2 \in 1..L + 1
    BY <1>4, <1>12
  <2>3. out[at][arg] = args[arg].s \o out[at + 2][arg + 1]
    <3> HIDE DEF out
    <3>1. at <= Len(format)
      BY <1>1
    <3>2. QED
      BY <1>2, <1>12, <3>1, Zenon DEF OutRules
  <2>4. Fits(args[arg].s, at + 2, 1)
    BY <1>3, <2>2, <2>3 DEF Fits
  <2>5. QED
    BY <2>1, <2>4
<1>13. CASE format[at] = "%" /\ ~(\E c \in {"%", "c", "s"} : HasAt(format, at + 1, c))
  <2> DEFINE t == SubSeq(format, at, L)
  <2>1. NextPiece = Piece(t, L + 1, 0)
    <3>1. IsAt(at, "%") /\ \A c \in {"%", "c", "s"} : ~IsAt(at + 1, c)
      BY <1>13 DEF IsAt, HasAt
    <3>2. QED
      BY <3>1 DEF NextPiece
  <2>2. out[at][arg] = t
    <3> HIDE DEF out
    <3>1. QED
      BY <1>1, <1>2, <1>13 DEF OutRules
  <2>3. out[L + 1][arg] = <<>>
    <3>1. L + 1 \in 1..L + 1 /\ L + 1 > L /\ arg \in Nat
      BY <1>1
    <3>2. OutRules(out, format, args, L + 1, arg)
      BY <1>1, <3>1, OutSteps
    <3> HIDE DEF out
    <3>3. QED
      BY <3>1, <3>2 DEF OutRules
  <2>4. t \in Seq(Characters)
    BY <1>1, <1>6
  <2>5. L + 1 \in at..L + 1 /\ L + 1 \in 1..L + 1 /\ arg + 0 = arg
    BY <1>1
  <2> HIDE DEF out, t
  <2>6. t \o <<>> = t
    BY <2>4, Concat2
  <2>7. Fits(t, L + 1, 0)
    BY <1>7, <2>2, <2>3, <2>4, <2>5, <2>6 DEF Fits, out
  <2>8. QED
    BY <2>1, <2>7
<1>14. QED
  BY <1>9, <1>10, <1>11, <1>12, <1>13, Zenon

-----------------------------------------------------------------------------
(* What has been sent, what print has left of a piece, and what the rest   *)
(* of the format stands for make up the meaning of the format.             *)
Running ==
  /\ Enough(format, args) /\ at \in 1..Len(format) + 1 /\ Room(at, arg)
  /\ sent \in Seq(Characters) /\ bytes \in Seq(Characters)
  /\ written = Len(sent) + Len(bytes) /\ written <= INT_MAX
  /\ (sent \o bytes) \o Out(format, args)[at][arg] = Meaning

(* The inductive invariant. *)
PrintfInv ==
  /\ call \in {"none", "running", "returned"}
  /\ call = "none" => at = 1 /\ arg = 1 /\ written = 0 /\ bytes = <<>> /\ sent = <<>>
  /\ call = "running" => Running
  /\ call = "returned" => bytes = <<>>
  /\ PrintfOutput

(* It holds before the call. *)
LEMMA PrintfStart == PrintfInit => PrintfInv
BY DEF PrintfInit, PrintfInv, PrintfOutput

(* A call: everything is left to print. *)
LEMMA CallStarts ==
  ASSUME PrintfInv, NEW f, NEW a, Enough(f, a), printf(f, a)
  PROVE  PrintfInv'
<1>1. /\ at' = 1 /\ arg' = 1 /\ written' = 0 /\ bytes' = <<>> /\ sent' = <<>>
      /\ format' = f /\ args' = a /\ call' = "running"
  BY DEF PrintfInv, printf
<1> DEFINE m == Out(f, a)[1][1]
<1>2. f \in Seq(Characters) /\ Len(f) \in Nat
  BY DEF Enough
<1>3. Room(1, 1) /\ 1 \in 1..Len(f) + 1
  BY <1>2 DEF Room
<1>4. m \in Seq(Characters)
  BY <1>3, OutIsSeq
<1>5. Meaning' = m
  <2>1. Meaning' = Out(format', args')[1][1]
    BY MeaningIsOut
  <2>2. QED
    BY <1>1, <2>1
<1> HIDE DEF m
<1>6. <<>> \in Seq(Characters) /\ <<>> \o <<>> = <<>> /\ <<>> \o m = m /\ Len(<<>>) = 0
  <2>1. <<>> \in Seq(Characters) /\ Len(<<>>) = 0
    OBVIOUS
  <2>2. QED
    BY <1>4, <2>1, Concat2
<1>7. (sent' \o bytes') \o Out(format', args')[at'][arg'] = Meaning'
  BY <1>1, <1>5, <1>6 DEF m
<1>8. Running'
  BY <1>1, <1>2, <1>3, <1>6, <1>7, PrintfAssumption DEF Running
<1>9. QED
  BY <1>1, <1>8 DEF PrintfInv, PrintfOutput

(* A turn of the loop: a piece to print, or the end of the call. *)
LEMMA LoopPrints ==
  ASSUME PrintfInv, PrintfLoop
  PROVE  PrintfInv'
<1> DEFINE out == Out(format, args)
<1>1. /\ call = "running" /\ bytes = <<>> /\ at <= Len(format) /\ Running
  BY DEF PrintfLoop, Idle, PrintfInv
<1>2. /\ Enough(format, args) /\ at \in 1..Len(format) /\ Room(at, arg) /\ Len(format) \in Nat
      /\ sent \in Seq(Characters) /\ Len(sent) \in Nat /\ written = Len(sent) /\ written <= INT_MAX
      /\ (sent \o <<>>) \o out[at][arg] = Meaning
  BY <1>1 DEF Running, Enough
<1>3. PICK text, next, takes :
        NextPiece = Piece(text, next, takes) /\ Fits(text, next, takes) /\ takes \in {0, 1}
  BY <1>2, NextPieceOut
<1>4. NextPiece.text = text /\ NextPiece.next = next /\ NextPiece.takes = takes
  BY <1>3 DEF Piece
<1> DEFINE r == out[next][arg + takes]
<1>5. /\ text \in Seq(Characters) /\ next \in 1..Len(format) + 1 /\ Room(next, arg + takes)
      /\ out[at][arg] = text \o r
  BY <1>3 DEF Fits
<1>6. r \in Seq(Characters)
  BY <1>2, <1>5, OutIsSeq
<1>7. Meaning = (sent \o text) \o r
  <2>1. sent \o <<>> = sent
    BY <1>2, Concat2
  <2> HIDE DEF r, out
  <2>2. (sent \o text) \o r = sent \o (text \o r)
    BY <1>2, <1>5, <1>6, Concat3
  <2>3. QED
    BY <1>2, <1>5, <2>1, <2>2
<1> HIDE DEF r
<1>8. CASE INT_MAX - written < Len(text)
  <2>1. Returns(-1)
    BY <1>4, <1>8 DEF PrintfLoop
  <2>2. /\ call' = "returned" /\ ret' = -1 /\ sent' = sent /\ bytes' = bytes
        /\ format' = format /\ args' = args
    BY <2>1 DEF Returns
  <2>3. Meaning' = Meaning
    BY <2>2, MeaningIsOut
  <2>4. /\ text \o r \in Seq(Characters) /\ Len(text \o r) = Len(text) + Len(r)
        /\ Len(text) \in Nat /\ Len(r) \in Nat
    BY <1>5, <1>6, Concat2
  <2>5. Meaning = sent \o (text \o r)
    BY <1>2, <1>5, <1>6, <1>7, Concat3
  <2>6. Len(Meaning) = Len(sent) + (Len(text) + Len(r)) /\ SubSeq(Meaning, 1, Len(sent)) = sent
    <3> DEFINE z == text \o r
    <3> HIDE DEF z
    <3>1. z \in Seq(Characters) /\ Len(z) = Len(text) + Len(r) /\ Meaning = sent \o z
      BY <2>4, <2>5 DEF z
    <3>2. QED
      BY <1>2, <3>1, Concat2
  <2>7. ~(Len(Meaning) <= INT_MAX) /\ Len(sent) <= INT_MAX
    BY <1>2, <1>8, <2>4, <2>6, PrintfAssumption
  <2>8. PrintfOutput'
    BY <2>2, <2>3, <2>6, <2>7 DEF PrintfOutput
  <2>9. QED
    BY <1>1, <2>2, <2>8 DEF PrintfInv
<1>9. CASE ~(INT_MAX - written < Len(text))
  <2>1. /\ bytes' = text /\ at' = next /\ arg' = arg + takes /\ written' = written + Len(text)
        /\ UNCHANGED <<ttyVars, call, format, args, ret, sent>>
    BY <1>4, <1>9 DEF PrintfLoop
  <2>2. format' = format /\ args' = args /\ sent' = sent /\ call' = "running"
    BY <1>1, <2>1
  <2>3. Meaning' = Meaning
    BY <2>2, MeaningIsOut
  <2>4. Len(text) \in Nat /\ written' = Len(sent) + Len(text) /\ written' <= INT_MAX
    BY <1>2, <1>5, <1>9, <2>1, PrintfAssumption
  <2>5. (sent' \o bytes') \o Out(format', args')[at'][arg'] = Meaning'
    BY <1>7, <2>1, <2>2, <2>3 DEF r
  <2>6. Running'
    BY <1>2, <1>5, <2>1, <2>2, <2>4, <2>5 DEF Running
  <2>7. QED
    BY <2>2, <2>6 DEF PrintfInv, PrintfOutput
<1>10. QED
  BY <1>8, <1>9

(* The end of the format. *)
LEMMA EndReturns ==
  ASSUME PrintfInv, PrintfEnd
  PROVE  PrintfInv'
<1>1. /\ call = "running" /\ bytes = <<>> /\ at > Len(format) /\ Returns(written) /\ Running
  BY DEF PrintfEnd, Idle, PrintfInv
<1>2. /\ format \in Seq(Characters) /\ Len(format) \in Nat /\ at = Len(format) + 1
      /\ at \in 1..Len(format) + 1 /\ arg \in Nat
      /\ sent \in Seq(Characters) /\ Len(sent) \in Nat /\ written = Len(sent) /\ written <= INT_MAX
      /\ (sent \o <<>>) \o Out(format, args)[at][arg] = Meaning
  BY <1>1 DEF Running, Enough, Room
<1>3. Out(format, args)[at][arg] = <<>>
  <2> DEFINE out == Out(format, args)
  <2>1. OutRules(out, format, args, at, arg)
    BY <1>2, OutSteps
  <2> HIDE DEF out
  <2>2. out[at][arg] = <<>>
    BY <1>1, <2>1, Zenon DEF OutRules
  <2>3. QED
    BY <2>2 DEF out
<1>4. Meaning = sent
  <2>1. sent \o <<>> = sent
    BY <1>2, Concat2
  <2>2. QED
    BY <1>2, <1>3, <2>1
<1>5. /\ call' = "returned" /\ ret' = Len(sent) /\ sent' = sent /\ bytes' = bytes
      /\ format' = format /\ args' = args
  BY <1>1, <1>2 DEF Returns
<1>6. Meaning' = sent'
  BY <1>4, <1>5, MeaningIsOut
<1>7. PrintfOutput'
  BY <1>2, <1>5, <1>6 DEF PrintfOutput
<1>8. QED
  BY <1>1, <1>5, <1>7 DEF PrintfInv

(* A byte goes from what is left of the piece to what has been sent. *)
LEMMA ByteMoves ==
  ASSUME PrintfInv, PutByte
  PROVE  PrintfInv'
<1>1. /\ bytes # <<>> /\ bytes' = Tail(bytes) /\ sent' = Append(sent, Head(bytes))
      /\ UNCHANGED <<call, format, args, at, arg, written, ret>>
  BY DEF PutByte
<1>2. call = "running" /\ Running
  BY <1>1 DEF PrintfInv
<1>3. sent \in Seq(Characters) /\ bytes \in Seq(Characters)
  BY <1>2 DEF Running
<1>4. /\ sent' \in Seq(Characters) /\ bytes' \in Seq(Characters)
      /\ Len(sent') + Len(bytes') = Len(sent) + Len(bytes)
      /\ sent' \o bytes' = sent \o bytes
  <2> DEFINE h == <<Head(bytes)>>
             t == Tail(bytes)
  <2>1. h \in Seq(Characters) /\ t \in Seq(Characters) /\ bytes = h \o t
        /\ Len(bytes) = 1 + Len(t) /\ Len(t) \in Nat
    BY <1>1, <1>3
  <2>2. sent' = sent \o h /\ sent' \in Seq(Characters) /\ Len(sent') = Len(sent) + 1
        /\ Len(sent) \in Nat /\ bytes' = t
    BY <1>1, <1>3, AppendIsConcat
  <2> HIDE DEF h, t
  <2>3. (sent \o h) \o t = sent \o (h \o t)
    BY <1>3, <2>1, Concat3
  <2>4. QED
    BY <2>1, <2>2, <2>3
<1>5. Meaning' = Meaning /\ Out(format', args')[at'][arg'] = Out(format, args)[at][arg]
  BY <1>1, MeaningIsOut
<1>6. Running'
  BY <1>1, <1>2, <1>4, <1>5 DEF Running
<1>7. QED
  BY <1>1, <1>2, <1>6 DEF PrintfInv, PrintfOutput

(* The terminal alone. *)
LEMMA PrintfStutter == PrintfInv /\ UNCHANGED printfVars => PrintfInv'
<1> SUFFICES ASSUME PrintfInv, UNCHANGED printfVars PROVE PrintfInv'
  OBVIOUS
<1>1. UNCHANGED <<call, format, args, at, arg, written, bytes, ret, sent>>
  BY DEF printfVars
<1>2. Meaning' = Meaning
  BY <1>1, MeaningIsOut
<1>3. PrintfOutput'
  BY <1>1, <1>2 DEF PrintfInv, PrintfOutput
<1>4. call = "running" => Running'
  BY <1>1, <1>2 DEF PrintfInv, Running
<1>5. QED
  BY <1>1, <1>3, <1>4 DEF PrintfInv

(* A printf or puts that returns has sent what its format and arguments    *)
(* mean and returns the length; when that is no int it returns -1, having  *)
(* sent a beginning of it.                                                 *)
THEOREM PrintfPrints == PrintfSpec => []PrintfOutput
<1>1. PrintfInit => PrintfInv
  BY PrintfStart
<1>2. PrintfInv /\ [PrintfStep \/ PrintfCall]_<<ttyVars, printfVars>> => PrintfInv'
  <2> SUFFICES ASSUME PrintfInv, [PrintfStep \/ PrintfCall]_<<ttyVars, printfVars>>
               PROVE  PrintfInv'
    OBVIOUS
  <2>1. ASSUME NEW f \in Formats, NEW a \in Arguments, printf(f, a) PROVE PrintfInv'
    <3>1. Enough(f, a)
      BY PrintfAssumption DEF Enough
    <3>2. QED
      BY <2>1, <3>1, CallStarts
  <2>2. ASSUME NEW a \in Arguments, puts(a[1].s) PROVE PrintfInv'
    <3> DEFINE f == <<"%", "s", "NL">>
               b == <<[c |-> Blank, s |-> a[1].s]>>
    <3>1. Enough(f, b)
      <4>1. a \in Seq([c : Characters, s : Seq(Characters)]) /\ a # <<>>
        BY PrintfAssumption
      <4>2. a[1] \in [c : Characters, s : Seq(Characters)]
        <5> DEFINE R == [c : Characters, s : Seq(Characters)]
        <5> HIDE DEF R
        <5>1. a \in Seq(R) /\ a # <<>>
          BY <4>1 DEF R
        <5>2. 1 \in 1..Len(a)
          BY <5>1
        <5>3. a[1] \in R
          BY <5>1, <5>2, ElementOfSeq
        <5>4. QED
          BY <5>3 DEF R
      <4>3. "%" \in Characters /\ "s" \in Characters /\ "NL" \in Characters /\ Blank \in Characters
        BY PrintfAssumption DEF Characters, Control
      <4>4. f \in Seq(Characters) /\ Len(f) = 3
        BY <4>3
      <4>5. b \in Seq([c : Characters, s : Seq(Characters)]) /\ Len(b) = 1
        BY <4>2, <4>3
      <4> HIDE DEF f, b
      <4>6. QED
        BY <4>4, <4>5 DEF Enough
    <3>2. printf(f, b)
      BY <2>2 DEF puts
    <3>3. QED
      BY <3>1, <3>2, CallStarts
  <2>3. CASE PrintTab \/ UNCHANGED <<ttyVars, printfVars>>
    <3>1. UNCHANGED printfVars
      BY <2>3 DEF PrintTab
    <3>2. QED
      BY <3>1, PrintfStutter
  <2>4. QED
    BY <2>1, <2>2, <2>3, LoopPrints, EndReturns, ByteMoves DEF PrintfStep, PrintfCall
<1>3. PrintfInv => PrintfOutput
  BY DEF PrintfInv
<1>4. QED
  BY <1>1, <1>2, <1>3, PTL DEF PrintfSpec
=============================================================================
