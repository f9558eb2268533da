---------------------------- MODULE KernelCProofs ----------------------------
(* Proofs about kernel-c: its boot sector, its heap and its screen; and    *)
(* about the decimal writers, of which one is kernel-c's.                  *)
EXTENDS BootSector, Heap, Screen, SequenceTheorems, WellFoundedInduction, TLAPS

-----------------------------------------------------------------------------
(***************************************************************************)
(* What BootSector promises, for every size of kernel.  The inductive      *)
(* invariant ties the three places where disk_load_many keeps its          *)
(* progress to each other: the sectors left, the cylinder, head and sector *)
(* to read next, and the address in bx.  All three must name the same      *)
(* sector of the disk; and between tracks the next sector is the first of  *)
(* a track unless nothing is left.                                         *)
(***************************************************************************)

Done == total - left

(* The position on the disk and in memory after Done sectors. *)
Position ==
  /\ 0 <= Done /\ Done <= total
  /\ bx = KERNEL_OFFSET + SECTOR_SIZE * Done
  /\ left > 0 => SectorNumber(cyl, head, sect) = 1 + Done
  /\ Done <= 54
  /\ cyl <= 2
  /\ left > 0 => sect \in 1..18

(* The request made of int 0x13. *)
Request ==
  /\ left > 0
  /\ now = (IF left <= Available THEN left ELSE Available)

(* The boot sector and its stack are in place until the code is lost. *)
Intact ==
  pc # "lost" => mem[BootBlock] = 0 /\ mem[StackBlock] = Other

Entered ==
  /\ pc \in {"loaded", "switch_to_pm", "kernel"} => left = 0
  /\ pc = "kernel" => mode = "protected" /\ ~interrupts

IInv ==
  /\ TypeOK
  /\ Intact
  /\ Loading => Position
  /\ pc = "int13" => Request
  /\ KernelInPlace
  /\ Entered
  /\ SmallKernelIsSafe

-----------------------------------------------------------------------------
(* The invariant holds at the start. *)
LEMMA InitIInv == Init => IInv
<1> SUFFICES ASSUME Init PROVE IInv
  OBVIOUS
<1>1. 62 \in Blocks /\ 71 \in Blocks
  BY SMT DEF Blocks, LastBlock
<1>2. mem \in [Blocks -> Int]
  BY SMT DEF Init, Other
<1>3. mem[62] = 0 /\ mem[71] = -1
  BY <1>1, SMT DEF Init, BootBlock, Other
<1>4. interrupts \in BOOLEAN
  BY Zenon DEF Init
<1>5. TypeOK
  BY <1>2, <1>4, SMT DEF Init, TypeOK
<1> QED
  BY <1>3, <1>5, SMT
     DEF Init, IInv, Intact, Loading, KernelInPlace, Entered,
         SmallKernelIsSafe, BootBlock, StackBlock, Other

(* What int 0x13 is asked for never crosses the end of the track, and ends *)
(* there unless it is all that is left.                                    *)
LEMMA RequestOnTrack ==
  ASSUME IInv, pc = "int13"
  PROVE  /\ now \in 1..18 /\ now <= left
         /\ sect \in 1..18 /\ sect + now - 1 <= 18
         /\ left > now => sect + now - 1 = 18
<1>1. left \in Nat /\ left > 0 /\ sect \in 1..18
  BY SMT DEF IInv, TypeOK, Position, Request, Loading
<1>2. now = (IF left <= 19 - sect THEN left ELSE 19 - sect)
  BY <1>1, SMT DEF IInv, Request, Available, SECTORS_PER_TRACK
<1> QED
  BY <1>1, <1>2, SMT

(* The read of a track that leaves the boot code in place. *)
LEMMA ReadTrackIInv ==
  ASSUME IInv, ReadTrack
  PROVE  IInv'
<1> USE SizesAssumption DEF SECTORS_PER_TRACK, HEADS_PER_CYLINDER,
        KERNEL_OFFSET, SECTOR_SIZE, BootBlock, StackBlock, Other
<1>1. /\ pc = "int13" /\ total \in Nat /\ total < 65536 /\ left \in Nat
      /\ cyl \in 0..2 /\ head \in 0..1 /\ sect \in 1..18 /\ now \in 1..18
      /\ bx = 4096 + 512 * (total - left)
      /\ total - left \in 0..54 /\ now <= left
      /\ SectorNumber(cyl, head, sect) = 1 + total - left
      /\ left > now => sect + now = 19
      /\ total' = total /\ now' = now
  BY RequestOnTrack, SMT
     DEF ReadTrack, IInv, TypeOK, Position, Request, Done, Loading
<1>2. bx \div 512 = 8 + total - left
  BY <1>1, SMT
<1>3. mem' = [b \in Blocks |->
                IF b >= 8 + total - left /\ b < 8 + total - left + now
                THEN b - 7 ELSE mem[b]]
  <2>1. mem' = MemAfterRead
    BY DEF ReadTrack
  <2> DEFINE first == 8 + total - left
  <2>2. bx \div SECTOR_SIZE = first /\ SectorNumber(cyl, head, sect) = first - 7
        /\ first \in Int
    BY <1>1, <1>2, SMT
  <2>3. Blocks \subseteq Int
    BY SMT DEF Blocks, LastBlock
  <2> HIDE DEF first
  <2>4. mem' = [b \in Blocks |->
                  IF b >= first /\ b < first + now THEN first - 7 + b - first ELSE mem[b]]
    BY <2>1, <2>2, SMT DEF MemAfterRead
  <2>5. mem' = [b \in Blocks |->
                  IF b >= first /\ b < first + now THEN b - 7 ELSE mem[b]]
    BY <2>2, <2>3, <2>4, SMT
  <2> QED
    BY <2>5 DEF first
<1>4. mem' \in [Blocks -> Int]
  BY <1>1, <1>3, SMT DEF IInv, TypeOK, Blocks
<1>5. mem[62] = 0 /\ mem[71] = -1
  BY <1>1, SMT DEF IInv, Intact
<1>6. CASE mem'[62] = 0 /\ mem'[71] = -1
  <2>1. /\ pc' = "loop" /\ left' = left - now /\ sect' = 1
        /\ bx' = (bx + 512 * now) % 65536
        /\ head = 0 => head' = 1 /\ cyl' = cyl
        /\ head = 1 => head' = 0 /\ cyl' = (cyl + 1) % 256
    BY <1>1, <1>6, SMT DEF ReadTrack, Advance
  <2>2. total - left + now \in 0..54
    <3>1. 62 \in Blocks
      BY SMT DEF Blocks, LastBlock
    <3> QED
      BY <1>1, <1>3, <1>6, <3>1, SMT
  <2>3. bx' = 4096 + 512 * (total' - left') /\ bx' \in Nat /\ bx' < 65536
    BY <1>1, <2>1, <2>2, SMT
  <2>4. head' \in 0..1 /\ cyl' \in 0..2
    BY <1>1, <2>1, <2>2, SMT DEF SectorNumber
  <2>5. left' > 0 => SectorNumber(cyl', head', 1) = 1 + total' - left'
    BY <1>1, <2>1, SMT DEF SectorNumber
  <2>6. Position'
    BY <1>1, <2>1, <2>2, <2>3, <2>4, <2>5, SMT DEF Position, Done
  <2>7. TypeOK'
    BY <1>1, <1>4, <2>1, <2>3, <2>4, SMT DEF IInv, TypeOK, ReadTrack, cpu
  <2>8. KernelInPlace'
    BY <1>1, <1>3, <2>1, <2>2, SMT DEF IInv, KernelInPlace, Loading, Blocks
  <2> QED
    BY <1>1, <1>6, <2>1, <2>6, <2>7, <2>8, SMT
       DEF IInv, Intact, Entered, SmallKernelIsSafe, Loading
<1>7. CASE ~(mem'[62] = 0 /\ mem'[71] = -1)
  <2>1. pc' = "lost" /\ UNCHANGED <<left, bx, cyl, head, sect, mode, interrupts>>
    BY <1>7, SMT DEF ReadTrack, chs, cpu
  <2>2. total > 54
    <3>1. 62 \in Blocks /\ 71 \in Blocks
      BY SMT DEF Blocks, LastBlock
    <3> QED
      BY <1>1, <1>3, <1>5, <1>7, <3>1, SMT
  <2> QED
    BY <1>1, <1>4, <2>1, <2>2, SMT
       DEF IInv, TypeOK, Intact, KernelInPlace, Entered, SmallKernelIsSafe, Loading
<1> QED
  BY <1>6, <1>7, SMT

(* Every step keeps it. *)
LEMMA NextIInv == IInv /\ [Next]_vars => IInv'
<1> SUFFICES ASSUME IInv, [Next]_vars PROVE IInv'
  OBVIOUS
<1>0. switch_to_pm => interrupts' \in BOOLEAN /\ ~interrupts'
  BY Zenon DEF switch_to_pm
<1> USE SizesAssumption DEF IInv, Intact, Entered, SmallKernelIsSafe, Loading
<1>1. CASE load_kernel
  <2>1. TypeOK'
    BY <1>1, SMT DEF load_kernel, TypeOK, cpu, KERNEL_OFFSET
  <2>2. Position'
    BY <1>1, SMT DEF load_kernel, TypeOK, Position, Done, KERNEL_OFFSET, SECTOR_SIZE,
                     SectorNumber, HEADS_PER_CYLINDER, SECTORS_PER_TRACK
  <2>3. KernelInPlace'
    BY <1>1, SMT DEF load_kernel, TypeOK, KernelInPlace, Blocks
  <2> QED
    BY <1>1, <2>1, <2>2, <2>3, SMT DEF load_kernel, cpu
<1>2. CASE NextTrack
  <2>1. Position /\ left \in Nat
    BY <1>2, SMT DEF NextTrack, TypeOK
  <2>2. UNCHANGED <<total, left, cyl, head, sect, bx, mem, mode, interrupts>>
    BY <1>2 DEF NextTrack, chs, cpu
  <2>3. Position' /\ KernelInPlace'
    BY <1>2, <2>1, <2>2, SMT
       DEF NextTrack, Position, Done, KernelInPlace, SectorNumber
  <2>4. CASE left = 0
    BY <1>2, <2>2, <2>3, <2>4, SMT DEF NextTrack, TypeOK
  <2>5. CASE left # 0
    <3>1. pc' = "int13" /\ now' = (IF left <= Available THEN left ELSE Available)
      BY <1>2, <2>5, SMT DEF NextTrack
    <3>2. now' \in 0..18
      BY <2>1, <2>5, <3>1, SMT DEF Position, Available, SECTORS_PER_TRACK
    <3>3. Request'
      BY <2>1, <2>2, <2>5, <3>1, SMT DEF Request, Available
    <3>4. TypeOK'
      BY <2>2, <3>1, <3>2, SMT DEF TypeOK
    <3> QED
      BY <1>2, <2>2, <2>3, <3>1, <3>3, <3>4, SMT DEF NextTrack
  <2> QED
    BY <2>4, <2>5
<1>3. CASE ReadTrack
  BY <1>3, ReadTrackIInv
<1>4. CASE DiskError
  BY <1>4, SMT DEF DiskError, TypeOK, KernelInPlace, chs, cpu
<1>5. CASE SectorsError
  BY <1>5, SMT DEF SectorsError, TypeOK, KernelInPlace, chs, cpu
<1>6. CASE switch_to_vga_mode
  BY <1>6, SMT DEF switch_to_vga_mode, TypeOK, Position, Done, KernelInPlace,
                   SectorNumber, chs, cpu
<1>7. CASE switch_to_pm
  <2>1. interrupts' \in BOOLEAN /\ ~interrupts'
    BY <1>0, <1>7
  <2>2. /\ pc = "switch_to_pm" /\ pc' = "kernel" /\ mode' = "protected"
        /\ UNCHANGED <<total, left, cyl, head, sect, now, bx, mem>>
    BY <1>7 DEF switch_to_pm, chs
  <2>3. TypeOK'
    BY <2>1, <2>2, SMT DEF TypeOK
  <2>4. Position' /\ KernelInPlace'
    BY <2>2, SMT DEF TypeOK, Position, Done, KernelInPlace, SectorNumber
  <2>5. left' = 0
    BY <2>2, SMT
  <2> QED
    BY <2>1, <2>2, <2>3, <2>4, <2>5, SMT
<1>8. CASE UNCHANGED vars
  BY <1>8, SMT DEF vars, TypeOK, Position, Done, Request, Available, KernelInPlace,
                   SectorNumber, chs, cpu
<1> QED
  BY <1>1, <1>2, <1>3, <1>4, <1>5, <1>6, <1>7, <1>8 DEF Next

(* So it always holds. *)
LEMMA AlwaysIInv == Spec => []IInv
BY InitIInv, NextIInv, PTL DEF Spec

(* For every size of kernel the variables of the boot code keep their      *)
(* types: no byte or word of disk_load_many overflows before the kernel    *)
(* is in memory.                                                           *)
THEOREM TypeCorrect == Spec => []TypeOK
<1>1. IInv => TypeOK
  BY DEF IInv
<1> QED
  BY <1>1, AlwaysIInv, PTL

(* For every size of kernel, int 0x13 is only asked for sectors that are   *)
(* on the current track.                                                   *)
THEOREM NeverPastTrack == Spec => []StaysOnTrack
<1>1. IInv => StaysOnTrack
  BY RequestOnTrack, SMT DEF StaysOnTrack, SECTORS_PER_TRACK
<1> QED
  BY <1>1, AlwaysIInv, PTL

(* For every size of kernel, what was read is in memory in disk order.     *)
THEOREM LoadedInOrder == Spec => []KernelInPlace
<1>1. IInv => KernelInPlace
  BY DEF IInv
<1> QED
  BY <1>1, AlwaysIInv, PTL

(* The kernel is only ever called when all of it is in memory.             *)
THEOREM KernelCalledComplete == Spec => []KernelComplete
<1>1. IInv => KernelComplete
  BY SizesAssumption, SMT DEF IInv, TypeOK, KernelComplete, KernelInPlace, Entered, Loading
<1> QED
  BY <1>1, AlwaysIInv, PTL

(* A kernel of at most 54 sectors never overwrites its loader.             *)
THEOREM SmallKernelLoads == Spec => []SmallKernelIsSafe
<1>1. IInv => SmallKernelIsSafe
  BY DEF IInv
<1> QED
  BY <1>1, AlwaysIInv, PTL

-----------------------------------------------------------------------------
(***************************************************************************)
(* The blocks of kmalloc are apart, for every word size, heap and set of   *)
(* requests, as long as no request wraps round.                            *)
(***************************************************************************)

(* The blocks, where they come from and how far the pointer has come. *)
HeapInv ==
  /\ blocks \subseteq [at : Nat, asked : 0..Word - 1]
  /\ heap_current \in Nat
  /\ Sane => /\ HEAP_START <= heap_current /\ heap_current <= heap_end
             /\ heap_current % 4 = 0
             /\ \A b \in blocks : b.at + b.asked <= heap_current
  /\ HeapApart

(* A number below the word size is its own remainder. *)
LEMMA SmallRemainder ==
  ASSUME NEW x \in Nat, x < Word
  PROVE  x % Word = x
BY HeapAssumption

(* Rounding down to a multiple of four, as "& ~3" does. *)
LEMMA DownToFour ==
  ASSUME NEW s \in Nat
  PROVE  /\ s - (s % 4) \in Nat
         /\ (s - (s % 4)) % 4 = 0
         /\ s - 3 <= s - (s % 4) /\ s - (s % 4) <= s
OBVIOUS

(* A sane size is rounded up to the next multiple of four. *)
LEMMA RoundUp ==
  ASSUME NEW size \in 0..Word - 4 - heap_end
  PROVE  /\ Round(size) \in Nat
         /\ size <= Round(size) /\ Round(size) <= size + 3
         /\ Round(size) % 4 = 0
<1>0. /\ Word \in Nat /\ heap_end \in Nat /\ size \in Nat
  BY HeapAssumption DEF heap_end
<1>1. (size + 3) % Word = size + 3
  BY <1>0, SmallRemainder
<1>2. Round(size) = (size + 3) - ((size + 3) % 4)
  BY <1>1 DEF Round
<1>. QED  BY <1>0, <1>2, DownToFour

(* Every size is rounded to some number. *)
LEMMA RoundNat == ASSUME NEW size \in Nat PROVE Round(size) \in Nat
<1>. DEFINE s == (size + 3) % Word
<1>1. s \in Nat
  BY HeapAssumption
<1>. HIDE DEF s
<1>2. s - (s % 4) \in Nat
  BY <1>1
<1>. QED  BY <1>2 DEF Round, s

(* kmalloc keeps the blocks apart. *)
LEMMA KmallocKeeps ==
  ASSUME HeapInv, NEW size \in Requests, kmalloc(size)
  PROVE  HeapInv'
<1>0. /\ Word \in Nat \ {0} /\ HEAP_START \in Nat /\ heap_end \in Nat
      /\ HEAP_START % 4 = 0 /\ heap_end + 4 <= Word /\ size \in 0..Word - 1
  BY HeapAssumption DEF heap_end
<1>1. CASE hung'
  <2>1. UNCHANGED <<heap_current, blocks>> \/ ~hung'
    BY DEF kmalloc
  <2>. QED  BY <1>1, <2>1 DEF HeapInv, HeapApart, Sane
<1>2. CASE ~hung'
  <2>. DEFINE new == [at |-> heap_current, asked |-> size]
  <2>1. /\ (heap_current + Round(size)) % Word <= heap_end
        /\ blocks' = blocks \cup {new}
        /\ heap_current' = (heap_current + Round(size)) % Word
    <3>1. (heap_current + Round(size)) % Word \in Nat
      BY <1>0, RoundNat DEF HeapInv
    <3>. QED  BY <1>0, <1>2, <3>1 DEF kmalloc
  <2>2. /\ blocks' \subseteq [at : Nat, asked : 0..Word - 1]
        /\ heap_current' \in Nat
    BY <1>0, <2>1, RoundNat DEF HeapInv
  <2>3. ASSUME Sane'
        PROVE  /\ HEAP_START <= heap_current' /\ heap_current' <= heap_end
               /\ heap_current' % 4 = 0
               /\ \A b \in blocks' : b.at + b.asked <= heap_current'
               /\ heap_current + size <= heap_current'
               /\ heap_current <= heap_current'
    <3>1. Sane /\ size \in 0..Word - 4 - heap_end
      <4>1. Sane
        BY <2>1, <2>3 DEF Sane, heap_end
      <4>2. new \in blocks' /\ new.asked = size
        BY <2>1
      <4>3. new.asked <= Word - 4 - heap_end
        BY <2>3, <4>2 DEF Sane, heap_end
      <4>. QED  BY <1>0, <4>1, <4>2, <4>3
    <3>2. /\ Round(size) \in Nat /\ size <= Round(size) /\ Round(size) <= size + 3
          /\ Round(size) % 4 = 0
      BY <3>1, RoundUp
    <3>3. heap_current' = heap_current + Round(size)
      BY <1>0, <2>1, <3>1, <3>2, SmallRemainder DEF HeapInv
    <3>4. heap_current' % 4 = 0
      BY <3>1, <3>2, <3>3 DEF HeapInv
    <3>5. \A b \in blocks : b.at + b.asked <= heap_current'
      BY <1>0, <3>1, <3>2, <3>3 DEF HeapInv
    <3>6. new.at + new.asked <= heap_current'
      BY <1>0, <3>1, <3>2, <3>3 DEF HeapInv
    <3>7. \A b \in blocks' : b.at + b.asked <= heap_current'
      BY <2>1, <3>5, <3>6
    <3>8. heap_current' <= heap_end
      BY <2>1
    <3>9. /\ HEAP_START <= heap_current'
          /\ heap_current + size <= heap_current' /\ heap_current <= heap_current'
      BY <1>0, <3>1, <3>2, <3>3 DEF HeapInv
    <3>. QED  BY <3>4, <3>7, <3>8, <3>9
  <2>4. ASSUME Sane'
        PROVE  HeapApart'
    <3>1. Sane
      BY <2>1, <2>4 DEF Sane
    <3>2. \A b \in blocks' : /\ b.at % 4 = 0
                             /\ HEAP_START <= b.at /\ b.at + b.asked <= heap_end
      <4>1. ASSUME NEW b \in blocks
            PROVE  /\ b.at % 4 = 0
                   /\ HEAP_START <= b.at /\ b.at + b.asked <= heap_end
        BY <3>1 DEF HeapInv, HeapApart
      <4>2. /\ new.at % 4 = 0
            /\ HEAP_START <= new.at /\ new.at + new.asked <= heap_end
        BY <1>0, <2>2, <2>3, <2>4, <3>1 DEF HeapInv
      <4>. QED  BY <2>1, <4>1, <4>2
    <3>3. ASSUME NEW b \in blocks', NEW c \in blocks', b # c
          PROVE  b.at + b.asked <= c.at \/ c.at + c.asked <= b.at
      <4>1. CASE b \in blocks /\ c \in blocks
        BY <3>1, <3>3, <4>1 DEF HeapInv, HeapApart
      <4>2. CASE b = new
        BY <2>1, <3>1, <3>3, <4>2 DEF HeapInv
      <4>3. CASE c = new
        BY <2>1, <3>1, <3>3, <4>3 DEF HeapInv
      <4>. QED  BY <2>1, <4>1, <4>2, <4>3
    <3>. QED  BY <3>2, <3>3 DEF HeapApart, heap_end
  <2>. QED  BY <2>2, <2>3, <2>4 DEF HeapInv, HeapApart, heap_end
<1>. QED  BY <1>1, <1>2

(* kmalloc hands out aligned blocks inside the heap that share no byte,    *)
(* as long as every request was small enough not to wrap round.            *)
THEOREM BlocksStayApart == HeapSpec => []HeapApart
<1>1. HeapInit => HeapInv
  BY HeapAssumption DEF HeapInit, HeapInv, HeapApart, Sane, heap_end
<1>2. HeapInv /\ [HeapNext]_heapVars => HeapInv'
  <2>1. ASSUME HeapInv, HeapNext
        PROVE  HeapInv'
    BY <2>1, KmallocKeeps DEF HeapNext
  <2>2. ASSUME HeapInv, UNCHANGED heapVars
        PROVE  HeapInv'
    BY <2>2 DEF HeapInv, HeapApart, Sane, heapVars
  <2>. QED  BY <2>1, <2>2
<1>3. HeapInv => HeapApart
  BY DEF HeapInv
<1>. QED  BY <1>1, <1>2, <1>3, PTL DEF HeapSpec

-----------------------------------------------------------------------------
(***************************************************************************)
(* What Digits promises, for every number of 32 bits.  Its loops are       *)
(* recursive functions; what they compute is proved with the least number  *)
(* principle in the place of an induction.  That such a function exists:   *)
(* the least m up to which there is none would be one more than a number   *)
(* up to which there is one.  What its values are: a least argument at     *)
(* which they are not as claimed would have the claim for the one before.  *)
(***************************************************************************)

(* The least number principle, which stands in for an induction. *)
LEMMA LeastNumber ==
  ASSUME NEW S \in SUBSET Nat, S # {}
  PROVE  \E x \in S : \A y \in S : x <= y
<1> DEFINE less == OpToRel(<, Nat)
<1>1. IsWellFoundedOn(less, Nat)
  BY NatLessThanWellFounded
<1>2. \A x, y \in Nat : <<y, x>> \in less <=> y < x
  BY DEF OpToRel
<1> HIDE DEF less
<1>3. PICK x \in S : \A y \in S : ~(<<y, x>> \in less)
  BY <1>1, WFMin
<1>4. ASSUME NEW y \in S PROVE x <= y
  <2>1. x \in Nat /\ y \in Nat /\ ~(y < x)
    BY <1>2, <1>3
  <2>2. QED
    BY <2>1
<1>5. QED
  BY <1>4

(* The characters of digits. *)
Numerals == {Ascii(d) : d \in 0..9}

(* The digit a character stands for. *)
Digit(c) == CHOOSE d \in 0..9 : Ascii(d) = c

(* Ten different characters; "0" is that of 0. *)
LEMMA AsciiDigit == \A d \in 0..9 : Digit(Ascii(d)) = d /\ (Ascii(d) = "0" <=> d = 0)
<1>1. \A d, e \in 0..9 : Ascii(d) = Ascii(e) => d = e
  BY DEF Ascii
<1>2. \A d \in 0..9 : Ascii(d) = "0" <=> d = 0
  BY DEF Ascii
<1>3. ASSUME NEW d \in 0..9 PROVE Digit(Ascii(d)) = d
  <2>1. \E e \in 0..9 : Ascii(e) = Ascii(d)
    OBVIOUS
  <2>2. Digit(Ascii(d)) \in 0..9 /\ Ascii(Digit(Ascii(d))) = Ascii(d)
    BY <2>1, Zenon DEF Digit
  <2>3. QED
    BY <1>1, <2>2
<1>4. QED
  BY <1>2, <1>3

(* The recursion of TakeDigits on the numbers up to m. *)
NextDigits(f, n) == IF n < 10 THEN <<Ascii(n)>> ELSE <<Ascii(n % 10)>> \o f[n \div 10]
DigitsUpTo(f, m) == f = [n \in 0..m |-> NextDigits(f, n)]

(* It goes to smaller numbers only, *)
LEMMA TenthSmaller == \A n \in Nat : n >= 10 => n \div 10 \in 1..n - 1
OBVIOUS

(* and so it defines a function. *)
LEMMA DigitsExist == \A m \in Nat : \E f : DigitsUpTo(f, m)
<1> DEFINE T == {m \in Nat : ~ \E f : DigitsUpTo(f, m)}
<1>1. SUFFICES ASSUME T # {} PROVE FALSE
  OBVIOUS
<1>2. PICK x \in T : \A y \in T : x <= y
  <2>1. T \in SUBSET Nat
    OBVIOUS
  <2> HIDE DEF T
  <2>2. QED
    BY <1>1, <2>1, LeastNumber
<1>3. x \in Nat /\ \A f : ~DigitsUpTo(f, x)
  OBVIOUS
<1>4. PICK f : \A n \in 0..x - 1 : f[n] = NextDigits(f, n)
  <2>1. CASE x = 0
    BY <2>1
  <2>2. CASE x # 0
    <3>1. x - 1 \in Nat /\ x - 1 \notin T
      BY <1>2, <1>3, <2>2
    <3>2. PICK f : DigitsUpTo(f, x - 1)
      BY <3>1
    <3>3. QED
      BY <3>2, Zenon DEF DigitsUpTo
  <2>3. QED
    BY <2>1, <2>2
<1> DEFINE g == [n \in 0..x |-> NextDigits(f, n)]
<1>5. ASSUME NEW n \in 0..x PROVE NextDigits(g, n) = NextDigits(f, n)
  <2>1. CASE n < 10
    BY <2>1 DEF NextDigits
  <2>2. CASE ~(n < 10)
    <3>1. n \div 10 \in 0..x - 1 /\ n \div 10 \in 0..x
      BY <1>3, <2>2, TenthSmaller
    <3>2. g[n \div 10] = f[n \div 10]
      BY <1>4, <3>1
    <3> HIDE DEF g
    <3>3. QED
      BY <3>2 DEF NextDigits
  <2>3. QED
    BY <2>1, <2>2
<1>6. g = [n \in 0..x |-> g[n]] /\ \A n \in 0..x : g[n] = NextDigits(f, n)
  OBVIOUS
<1> HIDE DEF g
<1>7. DigitsUpTo(g, x)
  BY <1>5, <1>6 DEF DigitsUpTo
<1>8. QED
  BY <1>3, <1>7

(* The same for the value of the first m characters of s. *)
NextValue(v, s, i) == IF i = 0 THEN 0 ELSE 10 * v[i - 1] + Digit(s[i])
ValuesUpTo(v, s, m) == v = [i \in 0..m |-> NextValue(v, s, i)]

(* It defines a function, too. *)
LEMMA ValuesExist == \A s : \A m \in Nat : \E v : ValuesUpTo(v, s, m)
<1> TAKE s
<1> DEFINE T == {m \in Nat : ~ \E v : ValuesUpTo(v, s, m)}
<1>1. SUFFICES ASSUME T # {} PROVE FALSE
  OBVIOUS
<1>2. PICK x \in T : \A y \in T : x <= y
  <2>1. T \in SUBSET Nat
    OBVIOUS
  <2> HIDE DEF T
  <2>2. QED
    BY <1>1, <2>1, LeastNumber
<1>3. x \in Nat /\ \A v : ~ValuesUpTo(v, s, x)
  OBVIOUS
<1>4. PICK v : \A i \in 0..x - 1 : v[i] = NextValue(v, s, i)
  <2>1. CASE x = 0
    BY <2>1
  <2>2. CASE x # 0
    <3>1. x - 1 \in Nat /\ x - 1 \notin T
      BY <1>2, <1>3, <2>2
    <3>2. PICK v : ValuesUpTo(v, s, x - 1)
      BY <3>1
    <3>3. QED
      BY <3>2, Zenon DEF ValuesUpTo
  <2>3. QED
    BY <2>1, <2>2
<1> DEFINE w == [i \in 0..x |-> NextValue(v, s, i)]
<1>5. ASSUME NEW i \in 0..x PROVE NextValue(w, s, i) = NextValue(v, s, i)
  <2>1. CASE i = 0
    BY <2>1 DEF NextValue
  <2>2. CASE i # 0
    <3>1. i - 1 \in 0..x - 1 /\ i - 1 \in 0..x
      BY <1>3, <2>2
    <3>2. w[i - 1] = v[i - 1]
      BY <1>4, <3>1
    <3> HIDE DEF w
    <3>3. QED
      BY <3>2 DEF NextValue
  <2>3. QED
    BY <2>1, <2>2
<1>6. w = [i \in 0..x |-> w[i]] /\ \A i \in 0..x : w[i] = NextValue(v, s, i)
  OBVIOUS
<1> HIDE DEF w
<1>7. ValuesUpTo(w, s, x)
  BY <1>5, <1>6 DEF ValuesUpTo
<1>8. QED
  BY <1>3, <1>7

(* The values of the beginnings of s, the last of which ValueOf returns. *)
Values(s) == CHOOSE v : ValuesUpTo(v, s, Len(s))

(* What ValueOf computes, step by step. *)
LEMMA ValueSteps ==
  ASSUME NEW S, NEW s \in Seq(S)
  PROVE  /\ ValueOf(s) = Values(s)[Len(s)]
         /\ Values(s)[0] = 0
         /\ \A i \in 1..Len(s) : Values(s)[i] = 10 * Values(s)[i - 1] + Digit(s[i])
<1>1. Len(s) \in Nat
  OBVIOUS
<1>2. ValuesUpTo(Values(s), s, Len(s))
  BY <1>1, ValuesExist, Zenon DEF Values
<1>3. ValueOf(s) = Values(s)[Len(s)]
  BY DEF ValueOf, Values, ValuesUpTo, NextValue, Digit
<1>4. \A i \in 0..Len(s) : Values(s)[i] = NextValue(Values(s), s, i)
  BY <1>2, Zenon DEF ValuesUpTo
<1>5. QED
  BY <1>1, <1>3, <1>4 DEF NextValue

(* A further character is a further digit. *)
LEMMA ValueAppend ==
  ASSUME NEW S, NEW s \in Seq(S), NEW c \in S
  PROVE  ValueOf(Append(s, c)) = 10 * ValueOf(s) + Digit(c)
<1> DEFINE t == Append(s, c)
           v == Values(s)
           w == Values(t)
           T == {i \in 0..Len(s) : v[i] # w[i]}
<1>1. t \in Seq(S) /\ Len(t) = Len(s) + 1 /\ Len(s) \in Nat /\ t[Len(t)] = c
      /\ \A i \in 1..Len(s) : t[i] = s[i]
  OBVIOUS
<1>2. /\ ValueOf(s) = v[Len(s)] /\ v[0] = 0
      /\ \A i \in 1..Len(s) : v[i] = 10 * v[i - 1] + Digit(s[i])
  BY ValueSteps
<1>3. /\ ValueOf(t) = w[Len(t)] /\ w[0] = 0
      /\ \A i \in 1..Len(t) : w[i] = 10 * w[i - 1] + Digit(t[i])
  <2> HIDE DEF t
  <2>1. QED
    BY <1>1, ValueSteps
<1> HIDE DEF t, v, w
<1>4. T = {}
  <2> SUFFICES ASSUME T # {} PROVE FALSE
    OBVIOUS
  <2>1. PICK x \in T : \A y \in T : x <= y
    <3>1. T \in SUBSET Nat
      BY <1>1
    <3> HIDE DEF T
    <3>2. QED
      BY <3>1, LeastNumber
  <2>2. x \in 1..Len(s) /\ v[x] # w[x]
    BY <1>1, <1>2, <1>3
  <2>3. x - 1 \in 0..Len(s) /\ x - 1 \notin T
    BY <1>1, <2>1, <2>2
  <2>4. v[x - 1] = w[x - 1] /\ t[x] = s[x] /\ x \in 1..Len(t)
    BY <1>1, <2>2, <2>3
  <2>5. QED
    BY <1>2, <1>3, <2>2, <2>4
<1>5. v[Len(s)] = w[Len(s)]
  BY <1>1, <1>4
<1>6. w[Len(t)] = 10 * w[Len(s)] + Digit(c)
  BY <1>1, <1>3
<1>7. ValueOf(t) = 10 * ValueOf(s) + Digit(c)
  BY <1>2, <1>3, <1>5, <1>6
<1>8. QED
  BY <1>7 DEF t

-----------------------------------------------------------------------------
(* Reading the digits backwards: the first one becomes the last. *)
LEMMA ReverseCons ==
  ASSUME NEW S, NEW c \in S, NEW s \in Seq(S)
  PROVE  /\ Reverse(s) \in Seq(S) /\ Len(Reverse(s)) = Len(s)
         /\ Reverse(<<c>> \o s) = Append(Reverse(s), c)
<1>1. Reverse(s) \in Seq(S) /\ Len(Reverse(s)) = Len(s)
  BY DEF Reverse
<1> DEFINE t == <<c>> \o s
           r == Reverse(s)
<1>2. Len(t) = Len(s) + 1 /\ \A i \in 1..Len(s) + 1 : t[i] = IF i = 1 THEN c ELSE s[i - 1]
  OBVIOUS
<1>3. /\ r \in Seq(S) /\ Len(r) = Len(s) /\ Len(s) \in Nat
      /\ \A i \in 1..Len(s) : r[i] = s[(Len(s) - i) + 1]
  BY <1>1 DEF Reverse
<1> HIDE DEF t, r
<1>4. Reverse(t) = [i \in 1..Len(s) + 1 |-> t[(Len(s) + 1 - i) + 1]]
  BY <1>2 DEF Reverse
<1>5. Append(r, c) = [i \in 1..Len(s) + 1 |-> IF i = Len(s) + 1 THEN c ELSE r[i]]
  <2> DEFINE a == Append(r, c)
  <2>1. a \in Seq(S) /\ Len(a) = Len(s) + 1
    BY <1>3
  <2>2. \A i \in 1..Len(s) + 1 : a[i] = IF i = Len(s) + 1 THEN c ELSE r[i]
    BY <1>3
  <2> HIDE DEF a
  <2>3. a = [i \in 1..Len(s) + 1 |-> a[i]]
    BY <2>1
  <2>4. a = [i \in 1..Len(s) + 1 |-> IF i = Len(s) + 1 THEN c ELSE r[i]]
    BY <2>2, <2>3
  <2>5. QED
    BY <2>4 DEF a
<1>6. ASSUME NEW i \in 1..Len(s) + 1
      PROVE  t[(Len(s) + 1 - i) + 1] = IF i = Len(s) + 1 THEN c ELSE r[i]
  <2>1. (Len(s) + 1 - i) + 1 \in 1..Len(s) + 1 /\ (Len(s) + 1 - i) + 1 - 1 = (Len(s) - i) + 1
        /\ ((Len(s) + 1 - i) + 1 = 1 <=> i = Len(s) + 1)
    BY <1>3
  <2>2. i # Len(s) + 1 => r[i] = s[(Len(s) - i) + 1]
    BY <1>3
  <2>3. QED
    BY <1>2, <2>1, <2>2
<1>7. Reverse(t) = Append(r, c)
  BY <1>4, <1>5, <1>6
<1>8. QED
  BY <1>1, <1>7 DEF t, r

(* The sign that int_to_ascii stores behind the digits comes to the front. *)
LEMMA ReverseAppend ==
  ASSUME NEW S, NEW s \in Seq(S), NEW c \in S
  PROVE  Reverse(Append(s, c)) = <<c>> \o Reverse(s)
<1>1. Reverse(s) \in Seq(S) /\ Len(Reverse(s)) = Len(s) /\ Len(s) \in Nat
      /\ \A i \in 1..Len(s) : Reverse(s)[i] = s[(Len(s) - i) + 1]
  BY DEF Reverse
<1> DEFINE t == Append(s, c)
           r == Reverse(s)
<1>2. Len(t) = Len(s) + 1 /\ \A i \in 1..Len(s) + 1 : t[i] = IF i = Len(s) + 1 THEN c ELSE s[i]
  OBVIOUS
<1> HIDE DEF t, r
<1>3. Reverse(t) = [i \in 1..Len(s) + 1 |-> t[(Len(s) + 1 - i) + 1]]
  BY <1>2 DEF Reverse
<1>4. <<c>> \o r = [i \in 1..Len(s) + 1 |-> IF i = 1 THEN c ELSE r[i - 1]]
  BY <1>1 DEF r
<1>5. ASSUME NEW i \in 1..Len(s) + 1
      PROVE  t[(Len(s) + 1 - i) + 1] = IF i = 1 THEN c ELSE r[i - 1]
  <2>1. (Len(s) + 1 - i) + 1 \in 1..Len(s) + 1 /\ ((Len(s) + 1 - i) + 1 = Len(s) + 1 <=> i = 1)
    BY <1>1
  <2>2. CASE i = 1
    BY <1>2, <2>1, <2>2
  <2>3. CASE i # 1
    <3>1. i - 1 \in 1..Len(s) /\ (Len(s) - (i - 1)) + 1 = (Len(s) + 1 - i) + 1
      BY <1>1, <2>3
    <3>2. r[i - 1] = s[(Len(s) - (i - 1)) + 1]
      BY <1>1, <3>1 DEF r
    <3>3. t[(Len(s) + 1 - i) + 1] = s[(Len(s) + 1 - i) + 1]
      BY <1>2, <2>1, <2>3
    <3>4. QED
      BY <2>3, <3>1, <3>2, <3>3
  <2>4. QED
    BY <2>2, <2>3
<1>6. QED
  BY <1>3, <1>4, <1>5 DEF t, r

(* What the swaps of int_to_ascii leave, after j of them and at the end. *)
LEMMA SwapEndsReverses ==
  ASSUME NEW S, NEW s \in Seq(S)
  PROVE  SwapEnds(s) = Reverse(s)
<1> DEFINE i == Len(s)
           Turn(f, j) == IF j = 0 THEN s
                         ELSE [f[j-1] EXCEPT ![j] = f[j-1][i - j + 1], ![i - j + 1] = f[j-1][j]]
           Fixed(f) == f = [j \in 0..i \div 2 |-> Turn(f, j)]
           m == CHOOSE f : Fixed(f)
           goal == [j \in 0..i \div 2 |->
                      [k \in 1..i |-> IF k <= j \/ k > i - j THEN s[(i - k) + 1] ELSE s[k]]]
<1>1. i \in Nat /\ i \div 2 \in Nat /\ 2 * (i \div 2) <= i /\ i <= 2 * (i \div 2) + 1
  OBVIOUS
<1>2. s = [k \in 1..i |-> s[k]]
  OBVIOUS
<1>3. SwapEnds(s) = m[i \div 2]
  BY DEF SwapEnds
<1> HIDE DEF i
<1>4. goal[0] = s
  <2>1. goal[0] = [k \in 1..i |-> IF k <= 0 \/ k > i - 0 THEN s[(i - k) + 1] ELSE s[k]]
    BY <1>1
  <2>2. \A k \in 1..i : ~(k <= 0 \/ k > i - 0)
    BY <1>1
  <2> HIDE DEF goal
  <2>3. goal[0] = [k \in 1..i |-> s[k]]
    BY <2>1, <2>2
  <2>4. QED
    BY <1>2, <2>3
<1>5. ASSUME NEW j \in 1..i \div 2 PROVE Turn(goal, j) = goal[j]
  <2> DEFINE a == goal[j - 1]
             b == goal[j]
  <2>1. j \in 1..i /\ i - j + 1 \in 1..i /\ j < i - j + 1 /\ j # 0
    BY <1>1
  <2>2. a = [k \in 1..i |-> IF k <= j - 1 \/ k > i - (j - 1) THEN s[(i - k) + 1] ELSE s[k]]
    BY <1>1
  <2>3. b = [k \in 1..i |-> IF k <= j \/ k > i - j THEN s[(i - k) + 1] ELSE s[k]]
    BY <1>1
  <2>4. Turn(goal, j) = [a EXCEPT ![j] = a[i - j + 1], ![i - j + 1] = a[j]]
    BY <2>1
  <2> HIDE DEF a, b, goal, Turn
  <2>5. a[j] = s[j] /\ a[i - j + 1] = s[i - j + 1]
    BY <1>1, <2>1, <2>2
  <2>6. [a EXCEPT ![j] = a[i - j + 1], ![i - j + 1] = a[j]]
          = [k \in 1..i |-> IF k = i - j + 1 THEN s[j] ELSE IF k = j THEN s[i - j + 1] ELSE a[k]]
    BY <2>1, <2>2, <2>5
  <2>7. ASSUME NEW k \in 1..i
        PROVE  (IF k = i - j + 1 THEN s[j] ELSE IF k = j THEN s[i - j + 1] ELSE a[k])
                 = IF k <= j \/ k > i - j THEN s[(i - k) + 1] ELSE s[k]
    <3>1. CASE k = i - j + 1
      <4>1. k > i - j /\ (i - k) + 1 = j
        BY <1>1, <3>1
      <4>2. QED
        BY <3>1, <4>1
    <3>2. CASE k = j
      <4>1. k <= j /\ (i - k) + 1 = i - j + 1 /\ k # i - j + 1
        BY <1>1, <2>1, <3>2
      <4>2. QED
        BY <3>2, <4>1
    <3>3. CASE k # j /\ k # i - j + 1
      <4>1. a[k] = IF k <= j - 1 \/ k > i - (j - 1) THEN s[(i - k) + 1] ELSE s[k]
        BY <2>2
      <4>2. (k <= j - 1 \/ k > i - (j - 1)) <=> (k <= j \/ k > i - j)
        BY <1>1, <2>1, <3>3
      <4>3. QED
        BY <3>3, <4>1, <4>2
    <3>4. QED
      BY <3>1, <3>2, <3>3
  <2>8. QED
    BY <2>3, <2>4, <2>6, <2>7 DEF b
<1>6. Fixed(goal)
  <2>1. goal = [j \in 0..i \div 2 |-> goal[j]]
    OBVIOUS
  <2>2. \A f : Turn(f, 0) = s
    OBVIOUS
  <2> HIDE DEF goal, Turn
  <2>3. \A j \in 0..i \div 2 : goal[j] = Turn(goal, j)
    BY <1>1, <1>4, <1>5, <2>2
  <2>4. QED
    BY <2>1, <2>3
<1>7. Fixed(m)
  <2> HIDE DEF Fixed
  <2>1. QED
    BY <1>6
<1>8. \A f : Turn(f, 0) = s
  OBVIOUS
<1>9. \A f, g : \A j \in 1..i \div 2 : f[j - 1] = g[j - 1] => Turn(f, j) = Turn(g, j)
  OBVIOUS
<1>10. m[i \div 2] = goal[i \div 2]
  <2> DEFINE T == {j \in 0..i \div 2 : m[j] # goal[j]}
  <2>0. m = [j \in 0..i \div 2 |-> Turn(m, j)]
    BY <1>7
  <2> HIDE DEF m, goal, Fixed, Turn
  <2>1. \A j \in 0..i \div 2 : m[j] = Turn(m, j)
    BY <2>0, Zenon
  <2>2. T = {}
    <3> SUFFICES ASSUME T # {} PROVE FALSE
      OBVIOUS
    <3>1. PICK x \in T : \A y \in T : x <= y
      <4>1. T \in SUBSET Nat
        BY <1>1
      <4> HIDE DEF T
      <4>2. QED
        BY <4>1, LeastNumber
    <3>2. x \in 1..i \div 2 /\ m[x] # goal[x]
      BY <1>1, <1>4, <1>8, <2>1
    <3>3. x - 1 \in 0..i \div 2 /\ x - 1 \notin T
      BY <1>1, <3>1, <3>2
    <3>4. m[x] = Turn(goal, x)
      BY <1>9, <2>1, <3>2, <3>3
    <3>5. QED
      BY <1>5, <3>2, <3>4
  <2>3. QED
    BY <1>1, <2>2
<1>11. goal[i \div 2] = [k \in 1..i |->
          IF k <= i \div 2 \/ k > i - (i \div 2) THEN s[(i - k) + 1] ELSE s[k]]
  BY <1>1
<1> HIDE DEF m, goal
<1>12. ASSUME NEW k \in 1..i
       PROVE  (IF k <= i \div 2 \/ k > i - (i \div 2) THEN s[(i - k) + 1] ELSE s[k]) = s[(i - k) + 1]
  <2>1. ~(k <= i \div 2 \/ k > i - (i \div 2)) => (i - k) + 1 = k
    BY <1>1
  <2>2. QED
    BY <2>1
<1>13. SwapEnds(s) = [k \in 1..i |-> s[(i - k) + 1]]
  BY <1>3, <1>10, <1>11, <1>12
<1>14. QED
  BY <1>13 DEF Reverse, i

-----------------------------------------------------------------------------
(* The first numbers that take two digits, three, and so on. *)
Limit == <<10, 100, 1000, 10000, 100000, 1000000, 10000000, 100000000, 1000000000>>

(* What the loop over n % 10 leaves for n: its shortest numeral, the last  *)
(* digit first.                                                            *)
DigitsOf(s, n) ==
  /\ s \in Seq(Numerals) /\ s # <<>>
  /\ ValueOf(Reverse(s)) = n
  /\ s[Len(s)] = "0" => s = <<"0">>
  /\ \A k \in 1..9 : n < Limit[k] => Len(s) <= k
  /\ Unsigned(n) => Len(s) <= 10

(* A tenth of a number takes a digit less, *)
LEMMA LimitStep ==
  ASSUME NEW n \in Nat, n >= 10
  PROVE  \A k \in 1..9 : n < Limit[k] => k - 1 \in 1..9 /\ n \div 10 < Limit[k - 1]
BY DEF Limit

(* and a tenth of a 32-bit number takes nine. *)
LEMMA LimitWord == \A n : Unsigned(n) => n \div 10 < Limit[9]
BY DEF Limit, Unsigned

(* The last turn of the loop. *)
LEMMA OneDigit ==
  ASSUME NEW n \in 0..9
  PROVE  DigitsOf(<<Ascii(n)>>, n)
<1> DEFINE c == Ascii(n)
<1>1. c \in Numerals /\ Digit(c) = n /\ (c = "0" <=> n = 0)
  BY AsciiDigit DEF Numerals
<1> HIDE DEF c
<1>2. <<c>> \in Seq(Numerals) /\ <<c>> # <<>> /\ Len(<<c>>) = 1 /\ <<c>>[Len(<<c>>)] = c
  BY <1>1
<1>3. Reverse(<<c>>) = Append(<<>>, c)
  BY <1>2 DEF Reverse
<1>4. ValueOf(<<>>) = 0
  <2>1. <<>> \in Seq(Numerals) /\ Len(<<>>) = 0
    OBVIOUS
  <2>2. QED
    BY <2>1, ValueSteps
<1>5. ValueOf(Reverse(<<c>>)) = n
  <2>1. <<>> \in Seq(Numerals)
    OBVIOUS
  <2>2. ValueOf(Append(<<>>, c)) = 10 * ValueOf(<<>>) + Digit(c)
    BY <1>1, <2>1, ValueAppend
  <2>3. QED
    BY <1>1, <1>3, <1>4, <2>2
<1>6. \A k \in 1..9 : 1 <= k
  OBVIOUS
<1>7. DigitsOf(<<c>>, n)
  BY <1>1, <1>2, <1>5, <1>6 DEF DigitsOf
<1>8. QED
  BY <1>7 DEF c

(* The other turns: n % 10 in front of the digits of n \div 10. *)
LEMMA FurtherDigit ==
  ASSUME NEW n \in Nat, n >= 10, NEW s, DigitsOf(s, n \div 10)
  PROVE  DigitsOf(<<Ascii(n % 10)>> \o s, n)
<1> DEFINE c == Ascii(n % 10)
           t == <<c>> \o s
<1>1. n % 10 \in 0..9 /\ n = 10 * (n \div 10) + (n % 10) /\ n \div 10 >= 1
  OBVIOUS
<1>2. c \in Numerals /\ Digit(c) = n % 10
  BY <1>1, AsciiDigit DEF Numerals
<1>3. s \in Seq(Numerals) /\ s # <<>> /\ ValueOf(Reverse(s)) = n \div 10
      /\ (s[Len(s)] = "0" => s = <<"0">>)
      /\ (\A k \in 1..9 : n \div 10 < Limit[k] => Len(s) <= k)
  BY DEF DigitsOf
<1> HIDE DEF c
<1>4. t \in Seq(Numerals) /\ t # <<>> /\ Len(t) = Len(s) + 1 /\ t[Len(t)] = s[Len(s)] /\ Len(s) \in Nat
  BY <1>2, <1>3
<1>5. ValueOf(Reverse(t)) = n
  <2>1. Reverse(s) \in Seq(Numerals) /\ Reverse(t) = Append(Reverse(s), c)
    BY <1>2, <1>3, ReverseCons
  <2>2. ValueOf(Append(Reverse(s), c)) = 10 * ValueOf(Reverse(s)) + Digit(c)
    BY <1>2, <2>1, ValueAppend
  <2>3. QED
    BY <1>1, <1>2, <1>3, <2>1, <2>2
<1>6. t[Len(t)] # "0"
  <2> SUFFICES ASSUME s[Len(s)] = "0" PROVE FALSE
    BY <1>4
  <2>1. s = <<"0">>
    BY <1>3
  <2>2. Digit("0") = 0 /\ Ascii(0) = "0"
    BY AsciiDigit
  <2>3. DigitsOf(<<Ascii(0)>>, 0)
    BY OneDigit
  <2>4. ValueOf(Reverse(s)) = 0
    BY <2>1, <2>2, <2>3 DEF DigitsOf
  <2>5. QED
    BY <1>1, <1>3, <2>4
<1> HIDE DEF t
<1>7. \A k \in 1..9 : n < Limit[k] => Len(t) <= k
  <2> SUFFICES ASSUME NEW k \in 1..9, n < Limit[k] PROVE Len(t) <= k
    OBVIOUS
  <2>1. k - 1 \in 1..9 /\ n \div 10 < Limit[k - 1]
    BY LimitStep
  <2>2. Len(s) <= k - 1
    BY <1>3, <2>1
  <2>3. QED
    BY <1>4, <2>2
<1>8. Unsigned(n) => Len(t) <= 10
  <2> SUFFICES ASSUME Unsigned(n) PROVE Len(t) <= 10
    OBVIOUS
  <2>1. n \div 10 < Limit[9]
    BY LimitWord
  <2>2. 9 \in 1..9
    OBVIOUS
  <2>3. Len(s) <= 9
    BY <1>3, <2>1, <2>2
  <2>4. QED
    BY <1>4, <2>3
<1>9. DigitsOf(t, n)
  BY <1>4, <1>5, <1>6, <1>7, <1>8 DEF DigitsOf
<1>10. QED
  BY <1>9 DEF t, c

(* The whole loop, by strong induction on the number. *)
LEMMA TakeDigitsOf == ASSUME NEW v \in Nat PROVE DigitsOf(TakeDigits(v), v)
<1> DEFINE g == CHOOSE f : DigitsUpTo(f, v)
           T == {n \in 0..v : ~DigitsOf(g[n], n)}
<1>1. TakeDigits(v) = g[v]
  BY DEF TakeDigits, DigitsUpTo, NextDigits
<1>2. \A n \in 0..v : g[n] = NextDigits(g, n)
  <2>1. DigitsUpTo(g, v)
    BY DigitsExist, Zenon
  <2> HIDE DEF g
  <2>2. QED
    BY <2>1, Zenon DEF DigitsUpTo
<1> HIDE DEF g
<1>3. T = {}
  <2> SUFFICES ASSUME T # {} PROVE FALSE
    OBVIOUS
  <2>1. PICK x \in T : \A y \in T : x <= y
    <3>1. T \in SUBSET Nat
      OBVIOUS
    <3> HIDE DEF T
    <3>2. QED
      BY <3>1, LeastNumber
  <2>2. x \in 0..v /\ ~DigitsOf(g[x], x) /\ x \in Nat
    OBVIOUS
  <2>3. CASE x < 10
    <3>1. x \in 0..9
      BY <2>2, <2>3
    <3>2. g[x] = <<Ascii(x)>>
      BY <1>2, <2>2, <2>3, Zenon DEF NextDigits
    <3>3. QED
      BY <2>2, <3>1, <3>2, OneDigit
  <2>4. CASE ~(x < 10)
    <3>1. x >= 10 /\ x \div 10 \in 0..v /\ x \div 10 < x
      BY <2>2, <2>4, TenthSmaller
    <3>2. x \div 10 \notin T
      BY <2>1, <2>2, <3>1
    <3>3. DigitsOf(g[x \div 10], x \div 10)
      BY <3>1, <3>2
    <3>4. g[x] = <<Ascii(x % 10)>> \o g[x \div 10]
      BY <1>2, <2>2, <2>4 DEF NextDigits
    <3>5. QED
      BY <2>2, <3>1, <3>3, <3>4, FurtherDigit
  <2>5. QED
    BY <2>3, <2>4
<1>4. QED
  BY <1>1, <1>3

(* The digits in the order in which they are read. *)
Written(s, n) ==
  /\ s \in Seq(Numerals) /\ s # <<>>
  /\ ValueOf(s) = n
  /\ s[1] = "0" => s = <<"0">>
  /\ Len(s) <= 10
  /\ n \in 0..31 => Len(s) <= 2

(* draw_number and write_uint read them backwards. *)
LEMMA ReverseWritten ==
  ASSUME NEW n \in Nat, Unsigned(n)
  PROVE  Written(Reverse(TakeDigits(n)), n) /\ TakeDigits(n) \in Seq(Numerals)
<1> DEFINE s == TakeDigits(n)
           r == Reverse(s)
<1>1. /\ s \in Seq(Numerals) /\ s # <<>> /\ ValueOf(r) = n
      /\ s[Len(s)] = "0" => s = <<"0">>
      /\ Len(s) <= 10
      /\ n < Limit[2] => Len(s) <= 2
  <2>1. DigitsOf(s, n) /\ 2 \in 1..9
    BY TakeDigitsOf
  <2> HIDE DEF s
  <2>2. QED
    BY <2>1 DEF DigitsOf
<1>2. n \in 0..31 => n < Limit[2]
  BY DEF Limit
<1> HIDE DEF s
<1>3. r \in Seq(Numerals) /\ Len(r) = Len(s) /\ Len(s) \in Nat \ {0} /\ r[1] = s[Len(s)] /\ r # <<>>
  BY <1>1 DEF Reverse
<1>4. s = <<"0">> => r = <<"0">>
  BY DEF Reverse
<1> HIDE DEF r
<1>5. Written(r, n)
  BY <1>1, <1>2, <1>3, <1>4 DEF Written
<1>6. QED
  BY <1>1, <1>5 DEF s, r

(* A number without a sign. *)
LEMMA WrittenCorrect ==
  ASSUME NEW n \in Nat, number' = n, Written(numeral', n)
  PROVE  NumeralCorrect'
BY DEF NumeralCorrect, Written

(* int_to_ascii, draw_number and write_uint leave the shortest numeral of  *)
(* every 32-bit argument (but -(2^31)), within ten digits and a sign, and  *)
(* within two characters for an exception's number.                        *)
THEOREM WritersCorrect == DigitsSpec => []NumeralCorrect
<1>1. DigitsInit => NumeralCorrect
  BY DEF DigitsInit, NumeralCorrect
<1>2. NumeralCorrect /\ [DigitsNext]_digitVars => NumeralCorrect'
  <2> SUFFICES ASSUME NumeralCorrect, [DigitsNext]_digitVars PROVE NumeralCorrect'
    OBVIOUS
  <2>1. ASSUME NEW n \in Numbers, number' = n, numeral' = int_to_ascii(n) PROVE NumeralCorrect'
    <3>1. n \in Int /\ (Unsigned(n) \/ Negative(n))
      BY DigitsAssumption
    <3>2. CASE Unsigned(n)
      <4>1. n \in Nat /\ ~(n < 0)
        BY <3>2 DEF Unsigned
      <4>2. Written(Reverse(TakeDigits(n)), n) /\ TakeDigits(n) \in Seq(Numerals)
        BY <3>2, <4>1, ReverseWritten
      <4>3. int_to_ascii(n) = Reverse(TakeDigits(n))
        BY <4>1, <4>2, SwapEndsReverses DEF int_to_ascii
      <4>4. QED
        BY <2>1, <4>1, <4>2, <4>3, WrittenCorrect
    <3>3. CASE Negative(n)
      <4> DEFINE v == -n
                 s == TakeDigits(v)
                 r == Reverse(s)
                 S == Numerals \cup {"-"}
      <4>1. v \in Nat /\ Unsigned(v) /\ v = -n /\ n < 0
        BY <3>1, <3>3 DEF Unsigned, Negative
      <4> HIDE DEF v
      <4>2. Written(r, v) /\ s \in Seq(Numerals)
        BY <4>1, ReverseWritten
      <4>3. int_to_ascii(n) = SwapEnds(Append(s, "-"))
        BY <4>1 DEF int_to_ascii
      <4> HIDE DEF s
      <4>4. s \in Seq(S) /\ "-" \in S
        BY <4>2
      <4>5. Append(s, "-") \in Seq(S)
        BY <4>4
      <4>6. int_to_ascii(n) = <<"-">> \o r
        BY <4>3, <4>4, <4>5, SwapEndsReverses, ReverseAppend
      <4>7. r \in Seq(Numerals)
        BY <4>2 DEF Written
      <4> HIDE DEF r
      <4>8. numeral' = <<"-">> \o r /\ Tail(<<"-">> \o r) = r /\ (<<"-">> \o r)[1] = "-"
        BY <2>1, <4>6, <4>7
      <4>9. /\ number' < 0 /\ -(number') = v /\ Tail(numeral') = r /\ numeral'[1] = "-"
            /\ number' \notin 0..31
        BY <2>1, <3>1, <4>1, <4>8
      <4>10. QED
        BY <4>2, <4>9 DEF NumeralCorrect, Written
    <3>4. QED
      BY <3>1, <3>2, <3>3
  <2>2. ASSUME NEW n \in Numbers \cap Nat, number' = n, numeral' = Reverse(TakeDigits(n))
        PROVE  NumeralCorrect'
    <3>1. n \in Nat /\ Unsigned(n)
      BY DigitsAssumption DEF Negative
    <3>2. QED
      BY <2>2, <3>1, ReverseWritten, WrittenCorrect
  <2>3. ASSUME number' = 0, numeral' = <<Ascii(0)>> PROVE NumeralCorrect'
    <3>1. <<Ascii(0)>> = Reverse(TakeDigits(0))
      <4>1. TakeDigits(0) = <<Ascii(0)>>
        <5> DEFINE g == CHOOSE f : DigitsUpTo(f, 0)
        <5>1. DigitsUpTo(g, 0)
          BY DigitsExist, Zenon
        <5>2. TakeDigits(0) = g[0]
          BY DEF TakeDigits, DigitsUpTo, NextDigits
        <5> HIDE DEF g
        <5>3. g[0] = NextDigits(g, 0)
          BY <5>1 DEF DigitsUpTo
        <5>4. QED
          BY <5>2, <5>3 DEF NextDigits
      <4>2. \A c : Reverse(<<c>>) = <<c>>
        BY DEF Reverse
      <4>3. QED
        BY <4>1, <4>2
    <3>2. 0 \in Nat /\ Unsigned(0)
      BY DEF Unsigned
    <3>3. QED
      BY <2>3, <3>1, <3>2, ReverseWritten, WrittenCorrect
  <2>4. CASE CallIntToAscii
    BY <2>1, <2>4 DEF CallIntToAscii
  <2>5. CASE CallDrawNumber
    BY <2>2, <2>5 DEF CallDrawNumber, draw_number
  <2>6. CASE CallWriteUint
    BY <2>2, <2>3, <2>6 DEF CallWriteUint, write_uint
  <2>7. CASE UNCHANGED digitVars
    BY <2>7 DEF digitVars, NumeralCorrect
  <2>8. QED
    BY <2>4, <2>5, <2>6, <2>7 DEF DigitsNext
<1>3. QED
  BY <1>1, <1>2, PTL DEF DigitsSpec

-----------------------------------------------------------------------------
(***************************************************************************)
(* What Screen promises, for every size of the screen, every message and   *)
(* every number of lines that scroll away.  What the loop of memory_copy   *)
(* leaves in the rows is proved the same way, with the function of the     *)
(* final rows for the one that exists.  The inductive invariant adds to    *)
(* ShowsPage that the paper below the screen is blank, and that the row    *)
(* and the column of kprint_at name the place of the pen while a message   *)
(* is being printed.                                                       *)
(***************************************************************************)

(* Rows and columns of a place. *)
LEMMA RowOf ==
  ASSUME NEW w \in Nat \ {0}, NEW o \in Nat
  PROVE  /\ o \div w \in Nat /\ o - (o \div w) * w \in 0..w - 1
         /\ (o \div w) * w \in Nat /\ (o \div w) * w <= o
         /\ o < (o \div w) * w + w
         /\ (o + w) \div w = o \div w + 1
OBVIOUS

(* A whole number of rows away the column is the same. *)
LEMMA ColumnOf ==
  ASSUME NEW w \in Nat \ {0}, NEW t \in Nat, NEW r \in Nat, NEW k \in 0..w - 1
  PROVE  (t * w + (r * w + k)) % w = k
<1>1. t * w + (r * w + k) = (t + r) * w + k
  OBVIOUS
<1>2. \A q \in Nat : (q * w + k) % w = k
  OBVIOUS
<1>3. QED
  BY <1>1, <1>2

(* A place above the last row is a row's length away from the end. *)
LEMMA RowLimit ==
  ASSUME NEW w \in Nat \ {0}, NEW h \in Nat \ {0}, NEW o \in 0..w * h - 1
  PROVE  /\ o \div w \in 0..h - 1
         /\ o \div w < h - 1 <=> o + w \in 0..w * h - 1
OBVIOUS

(* The cursor registers hold every place of the screen. *)
LEMMA TwoRegisters ==
  ASSUME NEW b \in Nat \ {0}, NEW o \in Nat, o < b * b
  PROVE  /\ (o \div b) % b \in 0..b - 1 /\ o % b \in 0..b - 1
         /\ ((o \div b) % b) * b + (o % b) = o
<1>1. o \div b \in Nat /\ o = (o \div b) * b + (o % b) /\ o % b \in 0..b - 1
  OBVIOUS
<1>2. o \div b < b
  <2> DEFINE q == o \div b
  <2>1. q \in Nat /\ q * b <= o
    BY <1>1
  <2> HIDE DEF q
  <2>2. q * b < b * b
    BY <2>1
  <2>3. q < b
    BY <2>1, <2>2
  <2>4. QED
    BY <2>3 DEF q
<1>3. (o \div b) % b = o \div b
  BY <1>1, <1>2
<1>4. QED
  BY <1>1, <1>2, <1>3

(* What the loop of memory_copy does to the rows, one after the other. *)
LEMMA ScrolledIs ==
  ASSUME NEW cells, cells = [p \in 0..Cells - 1 |-> cells[p]]
  PROVE  Scrolled(cells) =
           [p \in 0..Cells - 1 |-> IF p + MAX_COLS <= Cells - 1 THEN cells[p + MAX_COLS] ELSE Nul]
<1> DEFINE Fixed(f) == f = [k \in 0..MAX_ROWS - 1 |-> IF k = 0 THEN cells ELSE CopyRow(f[k - 1], k)]
           m == CHOOSE f : Fixed(f)
           goal == [k \in 0..MAX_ROWS - 1 |->
                      [p \in 0..Cells - 1 |->
                         IF get_offset_row(p) < k THEN cells[p + MAX_COLS] ELSE cells[p]]]
<1>1. /\ MAX_COLS \in Nat \ {0} /\ MAX_ROWS \in Nat \ {0} /\ Cells \in Nat
  BY ScreenAssumption DEF Cells
<1>2. \A p \in 0..Cells - 1 :
        /\ get_offset_row(p) \in 0..MAX_ROWS - 1
        /\ get_offset_row(p) < MAX_ROWS - 1 <=> p + MAX_COLS \in 0..Cells - 1
        /\ get_offset_row(p + MAX_COLS) = get_offset_row(p) + 1
  <2> SUFFICES ASSUME NEW p \in 0..MAX_COLS * MAX_ROWS - 1
               PROVE  /\ p \div MAX_COLS \in 0..MAX_ROWS - 1
                      /\ p \div MAX_COLS < MAX_ROWS - 1
                           <=> p + MAX_COLS \in 0..MAX_COLS * MAX_ROWS - 1
                      /\ (p + MAX_COLS) \div MAX_COLS = p \div MAX_COLS + 1
    BY DEF Cells, get_offset_row
  <2>1. p \in Nat
    BY <1>1 DEF Cells
  <2>2. QED
    BY <1>1, <2>1, RowOf, RowLimit
<1>3. goal[0] = cells
  <2>1. goal[0] = [p \in 0..Cells - 1 |->
                     IF get_offset_row(p) < 0 THEN cells[p + MAX_COLS] ELSE cells[p]]
    BY <1>1
  <2>2. \A p \in 0..Cells - 1 : ~(get_offset_row(p) < 0)
    BY <1>1, <1>2
  <2> HIDE DEF goal
  <2>3. goal[0] = [p \in 0..Cells - 1 |-> cells[p]]
    BY <2>1, <2>2
  <2>4. QED
    BY <2>3
<1>4. ASSUME NEW k \in 1..MAX_ROWS - 1
      PROVE  CopyRow(goal[k - 1], k) = goal[k]
  <2>1. goal[k - 1] = [p \in 0..Cells - 1 |->
                         IF get_offset_row(p) < k - 1 THEN cells[p + MAX_COLS] ELSE cells[p]]
    BY <1>1
  <2>2. ASSUME NEW p \in 0..Cells - 1
        PROVE  (IF get_offset_row(p) = k - 1 THEN goal[k - 1][p + MAX_COLS] ELSE goal[k - 1][p])
                 = (IF get_offset_row(p) < k THEN cells[p + MAX_COLS] ELSE cells[p])
    <3>1. CASE get_offset_row(p) = k - 1
      BY <3>1, <2>1, <1>1, <1>2
    <3>2. CASE get_offset_row(p) # k - 1
      BY <3>2, <2>1, <1>1, <1>2
    <3>3. QED
      BY <3>1, <3>2
  <2>3. goal[k] = [p \in 0..Cells - 1 |->
                     IF get_offset_row(p) < k THEN cells[p + MAX_COLS] ELSE cells[p]]
    BY <1>1
  <2> HIDE DEF goal
  <2>4. QED
    BY <2>2, <2>3 DEF CopyRow
<1>5. Fixed(goal)
  <2>1. goal = [k \in 0..MAX_ROWS - 1 |-> goal[k]]
    OBVIOUS
  <2> HIDE DEF goal
  <2>2. \A k \in 0..MAX_ROWS - 1 : goal[k] = IF k = 0 THEN cells ELSE CopyRow(goal[k - 1], k)
    BY <1>1, <1>3, <1>4
  <2>3. QED
    BY <2>1, <2>2
<1>6. Fixed(m)
  <2> HIDE DEF Fixed
  <2>1. QED
    BY <1>5
<1>7. m[MAX_ROWS - 1] = goal[MAX_ROWS - 1]
  <2> DEFINE T == {k \in 0..MAX_ROWS - 1 : m[k] # goal[k]}
  <2>0. m = [k \in 0..MAX_ROWS - 1 |-> IF k = 0 THEN cells ELSE CopyRow(m[k - 1], k)]
    BY <1>6
  <2> HIDE DEF m, goal, Fixed
  <2>1. m[0] = goal[0] /\ \A k \in 1..MAX_ROWS - 1 : m[k] = CopyRow(m[k - 1], k)
    <3>1. \A k \in 0..MAX_ROWS - 1 : m[k] = IF k = 0 THEN cells ELSE CopyRow(m[k - 1], k)
      BY <2>0, Zenon
    <3>2. 0 \in 0..MAX_ROWS - 1 /\ \A k \in 1..MAX_ROWS - 1 : k \in 0..MAX_ROWS - 1 /\ k # 0
      BY <1>1
    <3>3. QED
      BY <1>3, <3>1, <3>2, Zenon
  <2>2. T = {}
    <3> SUFFICES ASSUME T # {} PROVE FALSE
      OBVIOUS
    <3>0. T \in SUBSET Nat
      BY <1>1
    <3>1. PICK x \in T : \A y \in T : x <= y
      <4> HIDE DEF T
      <4>1. QED
        BY <3>0, LeastNumber
    <3>2. x \in 1..MAX_ROWS - 1
      BY <1>1, <2>1
    <3>3. x - 1 \in 0..MAX_ROWS - 1 /\ x - 1 \notin T
      BY <3>1, <3>2, <1>1
    <3>4. m[x] = CopyRow(goal[x - 1], x)
      BY <2>1, <3>2, <3>3
    <3>5. QED
      BY <1>4, <3>2, <3>4
  <2>3. QED
    BY <1>1, <2>2
<1>8. Scrolled(cells) = BlankLast(m[MAX_ROWS - 1])
  BY DEF Scrolled
<1>9. goal[MAX_ROWS - 1] = [p \in 0..Cells - 1 |->
         IF get_offset_row(p) < MAX_ROWS - 1 THEN cells[p + MAX_COLS] ELSE cells[p]]
  BY <1>1
<1> HIDE DEF m, goal
<1>10. Scrolled(cells) = [p \in 0..Cells - 1 |->
          IF get_offset_row(p) = MAX_ROWS - 1 THEN Nul ELSE goal[MAX_ROWS - 1][p]]
  BY <1>7, <1>8 DEF BlankLast
<1>11. ASSUME NEW p \in 0..Cells - 1
       PROVE  (IF get_offset_row(p) = MAX_ROWS - 1 THEN Nul ELSE goal[MAX_ROWS - 1][p])
                = (IF p + MAX_COLS <= Cells - 1 THEN cells[p + MAX_COLS] ELSE Nul)
  <2>1. get_offset_row(p) \in 0..MAX_ROWS - 1
        /\ (get_offset_row(p) < MAX_ROWS - 1 <=> p + MAX_COLS <= Cells - 1)
    BY <1>1, <1>2
  <2>2. goal[MAX_ROWS - 1][p] =
          IF get_offset_row(p) < MAX_ROWS - 1 THEN cells[p + MAX_COLS] ELSE cells[p]
    BY <1>9
  <2>3. QED
    BY <1>1, <2>1, <2>2
<1>12. QED
  BY <1>10, <1>11

-----------------------------------------------------------------------------
Paper == 0..Cells + MaxTop * MAX_COLS - 1

(* Messages waiting to be printed. *)
Queue(q) == \E S : q \in Seq(S) /\ \A e \in S : e = Item(e.text, e.spot) /\ e.spot \in Int \X Int

(* The memory of the screen and the paper, of which nothing below the      *)
(* screen has been used yet.                                               *)
Window ==
  /\ vidmem = [p \in 0..Cells - 1 |-> vidmem[p]]
  /\ paper = [p \in Paper |-> paper[p]]
  /\ \A p \in 0..Cells - 1 : vidmem[p] = paper[top * MAX_COLS + p]
  /\ \A p \in Paper : p >= top * MAX_COLS + Cells => paper[p] = Nul

(* The cursor registers, and the pen of the message that is being printed. *)
Places ==
  /\ top \in 0..MaxTop /\ col \in Nat /\ row \in Nat
  /\ high \in 0..Byte - 1 /\ low \in 0..Byte - 1 /\ get_cursor_offset \in 0..Cells - 1
  /\ mark = top * MAX_COLS + get_cursor_offset
  /\ todo # <<>> => pen = top * MAX_COLS + get_offset(col, row)

(* The inductive invariant. *)
ScreenInv == Window /\ Places /\ Queue(todo)

(* The numbers of the screen. *)
LEMMA ScreenNumbers ==
  /\ MAX_COLS \in Nat \ {0} /\ MAX_ROWS \in Nat \ {0} /\ Cells \in Nat \ {0}
  /\ Byte \in Nat \ {0} /\ Cells <= Byte * Byte /\ MaxTop \in Nat
  /\ MAX_COLS <= Cells
  /\ \A n \in Nat : n * MAX_COLS \in Nat /\ (n + 1) * MAX_COLS = n * MAX_COLS + MAX_COLS
  /\ \A n \in 0..MaxTop : n * MAX_COLS <= MaxTop * MAX_COLS
BY ScreenAssumption DEF Cells

(* A place of the screen is a place of the paper. *)
LEMMA OnPaper ==
  ASSUME NEW n \in 0..MaxTop, NEW p \in 0..Cells - 1
  PROVE  n * MAX_COLS + p \in Paper
<1>1. n * MAX_COLS \in Nat /\ MaxTop * MAX_COLS \in Nat /\ n * MAX_COLS <= MaxTop * MAX_COLS
      /\ Cells \in Nat
  BY ScreenNumbers
<1>2. QED
  BY <1>1 DEF Paper

(* get_offset_row and get_offset_col take an offset apart. *)
LEMMA OffsetParts ==
  ASSUME NEW o \in Nat
  PROVE  /\ get_offset_row(o) \in Nat /\ get_offset_col(o) \in Nat
         /\ get_offset_col(o) < MAX_COLS
         /\ get_offset(get_offset_col(o), get_offset_row(o)) = o
<1>1. MAX_COLS \in Nat \ {0}
  BY ScreenNumbers
<1>2. /\ o \div MAX_COLS \in Nat /\ o - (o \div MAX_COLS) * MAX_COLS \in 0..MAX_COLS - 1
      /\ (o \div MAX_COLS) * MAX_COLS \in Nat
  BY <1>1, RowOf
<1>3. QED
  BY <1>1, <1>2 DEF get_offset_row, get_offset_col, get_offset

(* A valid position is a place of the screen, and its row is its row. *)
LEMMA ValidOffset ==
  ASSUME NEW c \in 0..MAX_COLS - 1, NEW r \in 0..MAX_ROWS - 1
  PROVE  /\ get_offset(c, r) \in 0..Cells - 1
         /\ get_offset_row(get_offset(c, r)) = r
         /\ get_offset(0, r + 1) = get_offset(c, r) - c + MAX_COLS
         /\ get_offset(0, r + 1) \in 1..Cells
<1>1. MAX_COLS \in Nat \ {0} /\ MAX_ROWS \in Nat \ {0}
  BY ScreenNumbers
<1>2. ASSUME NEW w \in Nat \ {0}, NEW h \in Nat \ {0}, NEW a \in 0..w - 1, NEW b \in 0..h - 1
      PROVE  /\ b * w + a \in 0..w * h - 1
             /\ (b * w + a) \div w = b
             /\ (b + 1) * w + 0 = b * w + a - a + w
             /\ (b + 1) * w + 0 \in 1..w * h
  <2>1. b * w \in Nat /\ (b + 1) * w = b * w + w /\ (b + 1) * w <= h * w /\ h * w = w * h
    OBVIOUS
  <2>2. (b * w + a) \div w = b
    BY <2>1
  <2>3. QED
    BY <2>1, <2>2
<1>3. QED
  BY <1>1, <1>2 DEF get_offset, get_offset_row, Cells

(* set_cursor_offset and get_cursor_offset. *)
LEMMA CursorSet ==
  ASSUME NEW o \in 0..Cells - 1, set_cursor_offset(o)
  PROVE  high' \in 0..Byte - 1 /\ low' \in 0..Byte - 1 /\ get_cursor_offset' = o
<1>1. Byte \in Nat \ {0} /\ o \in Nat /\ o < Byte * Byte
  <2>1. Byte \in Nat \ {0} /\ Cells \in Nat /\ Cells <= Byte * Byte /\ Byte * Byte \in Nat
    BY ScreenNumbers
  <2>2. QED
    BY <2>1
<1>2. high' = (o \div Byte) % Byte /\ low' = o % Byte
  BY DEF set_cursor_offset
<1>3. QED
  BY <1>1, <1>2, TwoRegisters DEF get_cursor_offset

(* It holds on the screen the BIOS leaves. *)
LEMMA ScreenStart == ScreenInit => ScreenInv
<1> SUFFICES ASSUME ScreenInit PROVE ScreenInv
  OBVIOUS
<1>1. Queue(<<>>)
  BY EmptySeq DEF Queue
<1>2. Places /\ top = 0
  BY ScreenNumbers DEF ScreenInit, Places, get_cursor_offset
<1>3. Window
  BY <1>2, ScreenNumbers DEF ScreenInit, Window, Paper
<1>4. QED
  BY <1>1, <1>2, <1>3 DEF ScreenInv, ScreenInit

(* Shows(screen, roll, b): the screen is the part of the roll that begins  *)
(* at b, and nothing below has been used.                                  *)
Shows(screen, roll, b) ==
  /\ screen = [p \in 0..Cells - 1 |-> screen[p]]
  /\ roll = [p \in Paper |-> roll[p]]
  /\ \A p \in 0..Cells - 1 : b + p \in Paper /\ screen[p] = roll[b + p]
  /\ \A p \in Paper : p >= b + Cells => roll[p] = Nul

(* Window says this of the screen and the paper of the state. *)
LEMMA WindowShows == top \in 0..MaxTop => (Window <=> Shows(vidmem, paper, top * MAX_COLS))
BY OnPaper DEF Window, Shows

(* Writing the same character in a cell and in its place on the paper. *)
LEMMA WriteBoth ==
  ASSUME NEW screen, NEW roll, NEW b \in Nat, Shows(screen, roll, b), NEW o \in 0..Cells - 1, NEW d
  PROVE  Shows([screen EXCEPT ![o] = d], [roll EXCEPT ![b + o] = d], b)
<1> DEFINE cells == [screen EXCEPT ![o] = d]
           sheet == [roll EXCEPT ![b + o] = d]
<1>1. Cells \in Nat \ {0}
  BY ScreenNumbers
<1>2. /\ screen = [p \in 0..Cells - 1 |-> screen[p]]
      /\ roll = [p \in Paper |-> roll[p]]
      /\ \A p \in 0..Cells - 1 : b + p \in Paper /\ screen[p] = roll[b + p]
      /\ \A p \in Paper : p >= b + Cells => roll[p] = Nul
  BY DEF Shows
<1>3. \A p \in 0..Cells - 1 : cells[p] = IF p = o THEN d ELSE screen[p]
  BY <1>2
<1>4. \A p \in Paper : sheet[p] = IF p = b + o THEN d ELSE roll[p]
  BY <1>2
<1>5. cells = [p \in 0..Cells - 1 |-> cells[p]] /\ sheet = [p \in Paper |-> sheet[p]]
  BY <1>2
<1> HIDE DEF cells, sheet
<1>6. ASSUME NEW p \in 0..Cells - 1 PROVE b + p \in Paper /\ cells[p] = sheet[b + p]
  <2>1. b + p \in Paper /\ screen[p] = roll[b + p]
    BY <1>2
  <2>2. p = o <=> b + p = b + o
    BY <1>1
  <2>3. sheet[b + p] = IF b + p = b + o THEN d ELSE roll[b + p]
    BY <1>4, <2>1
  <2>4. QED
    BY <1>3, <2>1, <2>2, <2>3
<1>7. ASSUME NEW p \in Paper, p >= b + Cells PROVE sheet[p] = Nul
  <2>1. p # b + o
    BY <1>1, <1>7
  <2>2. QED
    BY <1>2, <1>4, <1>7, <2>1
<1>8. Shows(cells, sheet, b)
  BY <1>5, <1>6, <1>7 DEF Shows
<1>9. QED
  BY <1>8 DEF cells, sheet

(* Scrolling moves the window down by a row. *)
LEMMA ScrollShows ==
  ASSUME NEW screen, NEW roll, NEW n \in 0..MaxTop - 1, Shows(screen, roll, n * MAX_COLS)
  PROVE  Shows(Scrolled(screen), roll, (n + 1) * MAX_COLS)
<1> DEFINE b == n * MAX_COLS
           c == (n + 1) * MAX_COLS
           s == Scrolled(screen)
<1>1. /\ Cells \in Nat \ {0} /\ MAX_COLS \in Nat \ {0} /\ MaxTop \in Nat
      /\ b \in Nat /\ c = b + MAX_COLS /\ n + 1 \in 0..MaxTop
  BY ScreenNumbers
<1>2. \A p \in 0..Cells - 1 : c + p \in Paper
  BY <1>1, OnPaper
<1>3. /\ screen = [p \in 0..Cells - 1 |-> screen[p]]
      /\ roll = [p \in Paper |-> roll[p]]
      /\ \A p \in 0..Cells - 1 : b + p \in Paper /\ screen[p] = roll[b + p]
      /\ \A p \in Paper : p >= b + Cells => roll[p] = Nul
  BY DEF Shows
<1>4. s = [p \in 0..Cells - 1 |->
             IF p + MAX_COLS <= Cells - 1 THEN screen[p + MAX_COLS] ELSE Nul]
  BY <1>3, ScrolledIs
<1> HIDE DEF b, c, s
<1>5. ASSUME NEW p \in 0..Cells - 1 PROVE s[p] = roll[c + p]
  <2>1. c + p = b + (p + MAX_COLS) /\ c + p \in Paper
    BY <1>1, <1>2
  <2>2. CASE p + MAX_COLS <= Cells - 1
    <3>1. s[p] = screen[p + MAX_COLS] /\ p + MAX_COLS \in 0..Cells - 1
      BY <1>1, <1>4, <2>2
    <3>2. QED
      BY <1>3, <2>1, <3>1
  <2>3. CASE ~(p + MAX_COLS <= Cells - 1)
    <3>1. s[p] = Nul /\ c + p >= b + Cells
      BY <1>1, <1>4, <2>1, <2>3
    <3>2. QED
      BY <1>3, <2>1, <3>1
  <2>4. QED
    BY <2>2, <2>3
<1>6. ASSUME NEW p \in Paper, p >= c + Cells PROVE roll[p] = Nul
  <2>1. Paper \subseteq Int
    BY DEF Paper
  <2>2. p >= b + Cells
    BY <1>1, <1>6, <2>1
  <2>3. QED
    BY <1>3, <2>2
<1>7. s = [p \in 0..Cells - 1 |-> s[p]]
  BY <1>4
<1>8. Shows(s, roll, c)
  BY <1>2, <1>3, <1>5, <1>6, <1>7 DEF Shows
<1>9. QED
  BY <1>8 DEF s, c

(* The end of print_char, with and without scrolling: the character is     *)
(* already in its cell and on the paper.                                   *)
LEMMA FinishKeeps ==
  ASSUME top \in 0..MaxTop, NEW cells, NEW o \in 1..Cells, Finish(cells, o),
         Shows(cells, paper', top * MAX_COLS),
         pen' = top * MAX_COLS + o, mark' = pen'
  PROVE  Window' /\ Places'
<1> DEFINE offset == IF o >= Cells THEN o - MAX_COLS ELSE o
<1>1. /\ MAX_COLS \in Nat \ {0} /\ Cells \in Nat \ {0} /\ MaxTop \in Nat /\ MAX_COLS <= Cells
      /\ top * MAX_COLS \in Nat
      /\ (top + 1) * MAX_COLS = top * MAX_COLS + MAX_COLS
  BY ScreenNumbers
<1>2. /\ o >= Cells => top < MaxTop
      /\ vidmem' = (IF o >= Cells THEN Scrolled(cells) ELSE cells)
      /\ top' = (IF o >= Cells THEN top + 1 ELSE top)
      /\ set_cursor_offset(offset)
      /\ row' = get_offset_row(offset) /\ col' = get_offset_col(offset)
  BY DEF Finish
<1>3. offset \in 0..Cells - 1 /\ offset \in Nat
  BY <1>1
<1>4. top' \in 0..MaxTop /\ pen' = top' * MAX_COLS + offset
      /\ Shows(vidmem', paper', top' * MAX_COLS)
  <2>1. CASE o < Cells
    <3>1. top' = top /\ vidmem' = cells /\ offset = o
      BY <1>1, <1>2, <2>1
    <3>2. QED
      BY <3>1
  <2>2. CASE o >= Cells
    <3>1. top' = top + 1 /\ vidmem' = Scrolled(cells) /\ offset = o - MAX_COLS
          /\ top \in 0..MaxTop - 1
      BY <1>1, <1>2, <2>2
    <3>2. Shows(vidmem', paper', top' * MAX_COLS)
      BY <3>1, ScrollShows
    <3>3. top * MAX_COLS + o = (top + 1) * MAX_COLS + (o - MAX_COLS)
      <4> DEFINE b == top * MAX_COLS
      <4>1. b \in Nat /\ (top + 1) * MAX_COLS = b + MAX_COLS
        BY <1>1
      <4> HIDE DEF b
      <4>2. b + o = b + MAX_COLS + (o - MAX_COLS)
        BY <1>1, <4>1
      <4>3. QED
        BY <4>1, <4>2 DEF b
    <3>4. top' \in 0..MaxTop
      BY <1>1, <3>1
    <3>5. pen' = top' * MAX_COLS + offset
      BY <3>1, <3>3
    <3>6. QED
      BY <3>2, <3>4, <3>5
  <2>3. QED
    BY <1>1, <2>1, <2>2
<1> HIDE DEF offset
<1>5. Window'
  BY <1>4, OnPaper DEF Shows, Window, Paper, Cells
<1>6. Places'
  <2>1. high' \in 0..Byte - 1 /\ low' \in 0..Byte - 1 /\ get_cursor_offset' = offset
    BY <1>2, <1>3, CursorSet
  <2>2. /\ row' \in Nat /\ col' \in Nat /\ get_offset(col', row') = offset
    BY <1>2, <1>3, OffsetParts
  <2>3. QED
    BY <1>3, <1>4, <2>1, <2>2 DEF Places, Cells
<1>7. QED
  BY <1>5, <1>6

(* A step of the loop of kprint_at: a character, a new line, or the 'E' of *)
(* a position that is not on the screen.                                   *)
LEMMA PrintCharKeeps ==
  ASSUME ScreenInv, todo # <<>>, NEW c, print_char(c)
  PROVE  Window' /\ Places'
<1> DEFINE b == top * MAX_COLS
           o == get_offset(col, row)
<1>1. /\ MAX_COLS \in Nat \ {0} /\ MAX_ROWS \in Nat \ {0}
      /\ Cells \in Nat \ {0} /\ MaxTop \in Nat
      /\ top \in 0..MaxTop /\ b \in Nat /\ row \in Nat /\ col \in Nat
      /\ pen = b + o
  BY ScreenNumbers DEF ScreenInv, Places
<1>2. Shows(vidmem, paper, b)
  BY <1>1, WindowShows DEF ScreenInv
<1>3. CASE col >= MAX_COLS \/ row >= MAX_ROWS
  <2>1. PrintError
    BY <1>3 DEF print_char
  <2>2. UNCHANGED <<high, low, top, pen, mark>>
    BY <2>1 DEF PrintError
  <2>3. Window'
    <3>1. Cells - 1 \in 0..Cells - 1
      BY <1>1
    <3>2. /\ vidmem' = [vidmem EXCEPT ![Cells - 1] = "E"]
          /\ paper' = [paper EXCEPT ![b + (Cells - 1)] = "E"]
      BY <2>1 DEF PrintError
    <3>3. Shows(vidmem', paper', b)
      BY <1>1, <1>2, <3>1, <3>2, WriteBoth
    <3>4. QED
      BY <2>2, <3>3 DEF Shows, Window, Paper, Cells
  <2>4. o \in Nat
    BY <1>1 DEF get_offset
  <2>5. row' \in Nat /\ col' \in Nat /\ get_offset(col', row') = o
    BY <2>1, <2>4, OffsetParts DEF PrintError
  <2>6. Places'
    BY <1>1, <2>2, <2>5 DEF ScreenInv, Places, get_cursor_offset, Cells
  <2>7. QED
    BY <2>3, <2>6
<1>4. CASE ~(col >= MAX_COLS \/ row >= MAX_ROWS)
  <2>1. col \in 0..MAX_COLS - 1 /\ row \in 0..MAX_ROWS - 1
    BY <1>1, <1>4
  <2>2. /\ o \in 0..Cells - 1 /\ get_offset_row(o) = row
        /\ get_offset(0, row + 1) = o - col + MAX_COLS /\ get_offset(0, row + 1) \in 1..Cells
    BY <2>1, ValidOffset
  <2>3. CASE c = "NL"
    <3>1. Finish(vidmem, get_offset(0, row + 1)) /\ paper' = paper /\ mark' = pen'
          /\ pen' = pen - (pen % MAX_COLS) + MAX_COLS
      BY <1>4, <2>2, <2>3 DEF print_char, Write
    <3>2. pen % MAX_COLS = col
      <4>1. top \in Nat
        BY <1>1
      <4>2. pen = top * MAX_COLS + (row * MAX_COLS + col)
        BY <1>1 DEF get_offset
      <4>3. (top * MAX_COLS + (row * MAX_COLS + col)) % MAX_COLS = col
        BY <1>1, <2>1, <4>1, ColumnOf
      <4>4. QED
        BY <4>2, <4>3
    <3>3. pen' = b + get_offset(0, row + 1)
      <4> DEFINE n == get_offset(0, row + 1)
      <4>1. n = o - col + MAX_COLS /\ o \in Nat
        BY <1>1, <2>2
      <4>2. pen' = (b + o) - col + MAX_COLS
        BY <1>1, <3>1, <3>2
      <4> HIDE DEF b, o, n
      <4>3. pen' = b + n
        BY <1>1, <4>1, <4>2
      <4>4. QED
        BY <4>3 DEF n
    <3>4. QED
      BY <1>1, <1>2, <2>2, <3>1, <3>3, FinishKeeps
  <2>4. CASE c # "NL"
    <3>1. /\ Finish([vidmem EXCEPT ![o] = c], o + 1) /\ mark' = pen'
          /\ pen' = pen + 1 /\ paper' = [paper EXCEPT ![pen] = c]
      BY <1>4, <2>4 DEF print_char, Write
    <3> DEFINE cells == [vidmem EXCEPT ![o] = c]
    <3>2. Shows(cells, paper', b)
      BY <1>1, <1>2, <2>2, <3>1, WriteBoth
    <3>3. pen' = b + (o + 1) /\ o + 1 \in 1..Cells
      <4> HIDE DEF b, o
      <4>1. QED
        BY <1>1, <2>2, <3>1
    <3>4. Finish(cells, o + 1)
      BY <3>1
    <3> HIDE DEF cells
    <3>5. QED
      BY <1>1, <3>1, <3>2, <3>3, <3>4, FinishKeeps
  <2>5. QED
    BY <2>3, <2>4
<1>5. QED
  BY <1>3, <1>4

(* The place of a message: the caller's, or where the cursor is. *)
LEMMA StartKeeps ==
  ASSUME ScreenInv, NEW q, Queue(q), Start(q), UNCHANGED <<vidmem, high, low, paper, top, mark>>
  PROVE  ScreenInv'
<1>1. Window'
  BY DEF ScreenInv, Window, Paper, Cells
<1>2. Queue(todo')
  BY DEF Start
<1>3. /\ MAX_COLS \in Nat \ {0} /\ Cells \in Nat /\ top \in 0..MaxTop /\ MaxTop \in Nat
      /\ get_cursor_offset \in Nat /\ col \in Nat /\ row \in Nat
      /\ mark = top * MAX_COLS + get_cursor_offset
  BY ScreenNumbers DEF ScreenInv, Places
<1>4. /\ col' \in Nat /\ row' \in Nat
      /\ todo' # <<>> => pen' = top * MAX_COLS + get_offset(col', row')
  <2>1. CASE q = <<>>
    BY <1>3, <2>1 DEF Start
  <2>2. CASE q # <<>>
    <3> DEFINE spot == q[1].spot
    <3>1. spot \in Int \X Int
      <4>1. PICK S : q \in Seq(S) /\ \A e \in S : e = Item(e.text, e.spot) /\ e.spot \in Int \X Int
        BY DEF Queue
      <4>2. q[1] \in S
        BY <2>2, <4>1
      <4>3. QED
        BY <4>1, <4>2
    <3>2. IF spot[1] >= 0 /\ spot[2] >= 0
          THEN col' = spot[1] /\ row' = spot[2] /\ pen' = (top + row') * MAX_COLS + col'
          ELSE /\ col' = get_offset_col(get_cursor_offset)
               /\ row' = get_offset_row(get_cursor_offset)
               /\ pen' = mark
      BY <2>2 DEF Start
    <3>3. CASE spot[1] >= 0 /\ spot[2] >= 0
      <4>1. col' \in Nat /\ row' \in Nat /\ pen' = (top + row') * MAX_COLS + col'
        BY <3>1, <3>2, <3>3
      <4>2. \A r, k \in Nat : (top + r) * MAX_COLS + k = top * MAX_COLS + (r * MAX_COLS + k)
        BY <1>3
      <4>3. QED
        BY <4>1, <4>2 DEF get_offset
    <3>4. CASE ~(spot[1] >= 0 /\ spot[2] >= 0)
      <4>1. /\ col' = get_offset_col(get_cursor_offset)
            /\ row' = get_offset_row(get_cursor_offset)
            /\ pen' = top * MAX_COLS + get_cursor_offset
        BY <1>3, <3>2, <3>4
      <4>2. /\ col' \in Nat /\ row' \in Nat
            /\ get_offset(col', row') = get_cursor_offset
        BY <1>3, <4>1, OffsetParts
      <4>3. QED
        BY <4>1, <4>2
    <3>5. QED
      BY <3>3, <3>4
  <2>3. QED
    BY <2>1, <2>2
<1>5. Places'
  BY <1>4 DEF ScreenInv, Places, get_cursor_offset, Cells
<1>6. QED
  BY <1>1, <1>2, <1>5 DEF ScreenInv

(* kprint_at and isr_handler bring messages with places. *)
LEMMA PrintAllKeeps ==
  ASSUME ScreenInv, NEW q, Queue(q), PrintAll(q)
  PROVE  ScreenInv'
BY StartKeeps DEF PrintAll

(* kprint_at: one message, where the caller wants it. *)
LEMMA KprintAtKeeps ==
  ASSUME ScreenInv, NEW t, NEW s \in Spots, kprint_at(t, s)
  PROVE  ScreenInv'
<1> DEFINE S == {Item(t, s)}
<1>1. s \in Int \X Int
  BY ScreenAssumption
<1>2. \A e \in S : e = Item(e.text, e.spot) /\ e.spot \in Int \X Int
  BY <1>1 DEF Item
<1>3. <<Item(t, s)>> \in Seq(S)
  OBVIOUS
<1> HIDE DEF S
<1>4. Queue(<<Item(t, s)>>)
  BY <1>2, <1>3 DEF Queue
<1>5. QED
  BY <1>4, PrintAllKeeps DEF kprint_at

(* isr_handler: five messages, each where the last one ended. *)
LEMMA IsrKeeps ==
  ASSUME ScreenInv, NEW n, isr_common_stub(n)
  PROVE  ScreenInv'
<1> DEFINE Line(t) == Item(t, <<-1, -1>>)
           S == {Line(<<"r">>), Line(int_to_ascii(n)), Line(<<"NL">>), Line(<<"m">>)}
           q == <<Line(<<"r">>), Line(int_to_ascii(n)), Line(<<"NL">>),
                  Line(<<"m">>), Line(<<"NL">>)>>
<1>1. PrintAll(q)
  BY DEF isr_common_stub, isr_handler
<1>2. \A t : LET e == Line(t) IN e = Item(e.text, e.spot) /\ e.spot \in Int \X Int
  BY DEF Item
<1>3. \A e \in S : e = Item(e.text, e.spot) /\ e.spot \in Int \X Int
  BY <1>2
<1> HIDE DEF Line
<1>4. q \in Seq(S)
  OBVIOUS
<1> HIDE DEF q, S
<1>5. Queue(q)
  BY <1>3, <1>4 DEF Queue
<1>6. QED
  BY <1>1, <1>5, PrintAllKeeps

(* A turn of the loop leaves the rest of the message in the queue. *)
LEMMA LoopKeeps ==
  ASSUME ScreenInv, KprintLoop
  PROVE  ScreenInv'
<1>1. Window' /\ Places'
  BY PrintCharKeeps DEF KprintLoop
<1>2. PICK S : todo \in Seq(S) /\ \A e \in S : e = Item(e.text, e.spot) /\ e.spot \in Int \X Int
  BY DEF ScreenInv, Queue
<1> DEFINE first == todo[1]
           rest == Item(Tail(first.text), first.spot)
           T == S \cup {rest}
<1>3. first \in S /\ 1 \in DOMAIN todo
  BY <1>2 DEF KprintLoop
<1>4. todo' = [todo EXCEPT ![1] = rest]
  BY DEF KprintLoop
<1>5. \A e \in T : e = Item(e.text, e.spot) /\ e.spot \in Int \X Int
  <2>1. first.spot \in Int \X Int
    BY <1>2, <1>3
  <2>2. rest = Item(rest.text, rest.spot) /\ rest.spot \in Int \X Int
    BY <2>1 DEF Item
  <2> HIDE DEF rest
  <2>3. QED
    BY <1>2, <2>2
<1> HIDE DEF rest
<1>6. todo' \in Seq(T)
  BY <1>2, <1>3, <1>4
<1> HIDE DEF T
<1>7. QED
  BY <1>1, <1>5, <1>6 DEF ScreenInv, Queue

(* At the end of a message the next one begins. *)
LEMMA EndKeeps ==
  ASSUME ScreenInv, KprintEnd
  PROVE  ScreenInv'
<1>1. PICK S : todo \in Seq(S) /\ \A e \in S : e = Item(e.text, e.spot) /\ e.spot \in Int \X Int
  BY DEF ScreenInv, Queue
<1>2. Tail(todo) \in Seq(S)
  BY <1>1 DEF KprintEnd
<1>3. Queue(Tail(todo))
  BY <1>1, <1>2 DEF Queue
<1>4. QED
  BY <1>3, StartKeeps DEF KprintEnd

(* clear_screen blanks what is shown, on the screen and on the paper. *)
LEMMA ClearKeeps ==
  ASSUME ScreenInv, clear_screen
  PROVE  ScreenInv'
<1> DEFINE b == top * MAX_COLS
<1>1. /\ MAX_COLS \in Nat \ {0} /\ Cells \in Nat \ {0} /\ MaxTop \in Nat
      /\ top \in 0..MaxTop /\ b \in Nat
  BY ScreenNumbers DEF ScreenInv, Places
<1>2. /\ vidmem' = [p \in 0..Cells - 1 |-> Space] /\ set_cursor_offset(0)
      /\ paper' = [p \in DOMAIN paper |-> IF p \in b..b + Cells - 1 THEN Space ELSE paper[p]]
      /\ pen' = b /\ mark' = b
      /\ UNCHANGED <<todo, col, row, top>> /\ todo = <<>>
  BY <1>1 DEF clear_screen, get_offset
<1>3. Places'
  <2>1. 0 \in 0..Cells - 1
    BY <1>1
  <2>2. high' \in 0..Byte - 1 /\ low' \in 0..Byte - 1 /\ get_cursor_offset' = 0
    BY <1>2, <2>1, CursorSet
  <2>3. QED
    BY <1>1, <1>2, <2>1, <2>2 DEF ScreenInv, Places, Cells
<1>4. Window'
  <2>1. Shows(vidmem, paper, b)
    BY <1>1, WindowShows DEF ScreenInv
  <2>2. /\ DOMAIN paper = Paper /\ Paper \subseteq Int
        /\ \A p \in 0..Cells - 1 : b + p \in Paper
        /\ \A p \in Paper : p >= b + Cells => paper[p] = Nul
    BY <2>1 DEF Shows, Paper
  <2> HIDE DEF b
  <2>3. ASSUME NEW p \in 0..Cells - 1 PROVE vidmem'[p] = paper'[b + p]
    <3>1. b + p \in Paper /\ b + p \in b..b + Cells - 1
      BY <1>1, <2>2
    <3>2. QED
      BY <1>2, <2>2, <3>1
  <2>4. ASSUME NEW p \in Paper, p >= b + Cells PROVE paper'[p] = Nul
    <3>1. p \notin b..b + Cells - 1
      BY <1>1, <2>2, <2>4
    <3>2. QED
      BY <1>2, <2>2, <2>4, <3>1
  <2>5. vidmem' = [p \in 0..Cells - 1 |-> vidmem'[p]] /\ paper' = [p \in Paper |-> paper'[p]]
    BY <1>2, <2>2
  <2>6. Shows(vidmem', paper', b)
    BY <2>2, <2>3, <2>4, <2>5 DEF Shows
  <2>7. QED
    BY <1>2, <2>6 DEF b, Shows, Window, Paper, Cells
<1>5. QED
  BY <1>2, <1>3, <1>4 DEF ScreenInv

(* Whatever is printed with kprint, kprint_at and isr_handler, and however *)
(* often print_char scrolls, the screen shows the last lines of the paper  *)
(* and the cursor registers say where the next kprint goes on.             *)
THEOREM ScreenShowsPage == ScreenSpec => []ShowsPage
<1>1. ScreenInit => ScreenInv
  BY ScreenStart
<1>2. ScreenInv /\ [ScreenNext]_screenVars => ScreenInv'
  <2> SUFFICES ASSUME ScreenInv, [ScreenNext]_screenVars PROVE ScreenInv'
    OBVIOUS
  <2>1. CASE UNCHANGED screenVars
    <3>1. Window' /\ Places' /\ todo' = todo
      BY <2>1 DEF ScreenInv, Window, Places, screenVars, Paper, Cells, get_cursor_offset
    <3>2. QED
      BY <3>1 DEF ScreenInv
  <2>2. CASE ScreenNext
    BY <2>2, KprintAtKeeps, IsrKeeps, LoopKeeps, EndKeeps, ClearKeeps DEF ScreenNext
  <2>3. QED
    BY <2>1, <2>2
<1>3. ScreenInv => ShowsPage
  BY DEF ScreenInv, Window, Places, ShowsPage
<1>4. QED
  BY <1>1, <1>2, <1>3, PTL DEF ScreenSpec
=============================================================================
