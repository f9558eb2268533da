----------------------------- MODULE BootSector -----------------------------
(***************************************************************************)
(* The boot sector of legacy/kernel-c: it loads the kernel from the floppy *)
(* with disk_load_many, switches to the graphics mode and to protected     *)
(* mode, and calls the kernel at KERNEL_OFFSET.                            *)
(*                                                                         *)
(* Memory is seen as the 128 blocks of 512 bytes a 16-bit offset reaches;  *)
(* block b holds addresses 512*b to 512*b + 511.  A sector of the disk is  *)
(* known by its number counted from 0, the boot sector itself.             *)
(***************************************************************************)
EXTENDS Integers

CONSTANT Sizes     \* values KERNEL_SECTORS may have; 100 in bootsect.asm

ASSUME SizesAssumption == \A n \in Sizes : n \in Nat /\ n < 65536

VARIABLES
  pc,          \* where the boot code is
  total,       \* KERNEL_SECTORS
  left,        \* SECTORS_LEFT
  cyl, head, sect,  \* CUR_CYL, CUR_HEAD, CUR_SECT
  now,         \* SECTORS_NOW
  bx,          \* the address the next sector goes to
  mem,         \* for each block, the sector it holds, or Other
  mode,        \* "real" or "protected"
  interrupts   \* the interrupt flag

chs  == <<cyl, head, sect>>
cpu  == <<mode, interrupts>>
vars == <<pc, total, left, chs, now, bx, mem, cpu>>

SECTORS_PER_TRACK  == 18
HEADS_PER_CYLINDER == 2
KERNEL_OFFSET      == 4096     \* 0x1000
SECTOR_SIZE        == 512
LastBlock == 127
Blocks == 0..LastBlock
Other  == -1                   \* contents that come from no sector read here

(* The block of the boot sector (0x7C00) and the top block of its stack,   *)
(* which grows down from 0x9000 and holds the return addresses.            *)
BootBlock  == 62
StackBlockLow == 47            \* a mutant: the stack grows down from 0x6000
StackBlock == 71

(* The number of sector s of a track, the way the disk is laid out. *)
SectorNumber(c, h, s) ==
  (c * HEADS_PER_CYLINDER + h) * SECTORS_PER_TRACK + s - 1

(* The entry of the boot sector: BIOS code has put it at 0x7C00. *)
Init ==
  /\ pc = "load_kernel"
  /\ total \in Sizes
  /\ left = 0 /\ cyl = 0 /\ head = 0 /\ sect = 0 /\ now = 0 /\ bx = 0
  /\ mem = [b \in Blocks |-> IF b = BootBlock THEN 0 ELSE Other]
  /\ mode = "real" /\ interrupts = TRUE

-----------------------------------------------------------------------------
(* load_kernel, and the entry of disk_load_many *)
load_kernel ==
  /\ pc = "load_kernel"
  /\ bx' = KERNEL_OFFSET
  /\ left' = total
  /\ cyl' = 0 /\ head' = 0 /\ sect' = 2
  /\ pc' = "loop"
  /\ UNCHANGED <<total, now, mem, cpu>>

(* A mutant: one sector too many is asked of a track. *)
AvailableOffByOne == SECTORS_PER_TRACK - sect + 2

Available == SECTORS_PER_TRACK - sect + 1

(* .loop: nothing left, or the part of what is left that this track has. *)
NextTrack ==
  /\ pc = "loop"
  /\ IF left = 0
     THEN pc' = "loaded" /\ now' = now
     ELSE pc' = "int13" /\ now' = (IF left <= Available THEN left ELSE Available)
  /\ UNCHANGED <<total, left, chs, bx, mem, cpu>>

(* The BIOS: it refuses to read past the end of a track, or into a second  *)
(* 64 KB of memory, and may fail in any case.                              *)
CanRead == /\ sect >= 1 /\ sect + now - 1 <= SECTORS_PER_TRACK
           /\ bx + SECTOR_SIZE * now <= 65536

(* The block the i-th sector of this read goes to is bx's plus i. *)
MemAfterRead ==
  [b \in Blocks |->
     IF b >= bx \div SECTOR_SIZE /\ b < bx \div SECTOR_SIZE + now
     THEN SectorNumber(cyl, head, sect) + b - bx \div SECTOR_SIZE
     ELSE mem[b]]

(* A mutant: bx stays where it was. *)
AdvanceSameBuffer ==
  /\ left' = left - now
  /\ bx' = bx
  /\ sect' = 1
  /\ IF head + 1 < HEADS_PER_CYLINDER
     THEN head' = head + 1 /\ cyl' = cyl
     ELSE head' = 0 /\ cyl' = (cyl + 1) % 256

(* A mutant: what was read is not taken off what is left. *)
AdvanceNothingRead ==
  /\ left' = left
  /\ bx' = bx
  /\ sect' = 1
  /\ IF head + 1 < HEADS_PER_CYLINDER
     THEN head' = head + 1 /\ cyl' = cyl
     ELSE head' = 0 /\ cyl' = 0

(* After a read: on to the first sector of the next head or cylinder. *)
Advance ==
  /\ left' = left - now
  /\ bx' = (bx + SECTOR_SIZE * now) % 65536
  /\ sect' = 1
  /\ IF head + 1 < HEADS_PER_CYLINDER
     THEN head' = head + 1 /\ cyl' = cyl
     ELSE head' = 0 /\ cyl' = (cyl + 1) % 256

(* int 0x13 returns all the sectors.  The code goes on with the next track *)
(* if that code and its stack are still there; the instructions that       *)
(* follow are otherwise bytes of the kernel, and the model stops.          *)
ReadTrack ==
  /\ pc = "int13" /\ CanRead
  /\ mem' = MemAfterRead
  /\ IF mem'[BootBlock] = 0 /\ mem'[StackBlock] = Other
     THEN pc' = "loop" /\ Advance
     ELSE pc' = "lost" /\ UNCHANGED <<left, bx, chs>>
  /\ UNCHANGED <<total, now, cpu>>

(* int 0x13 sets the carry flag: disk_error never returns. *)
DiskError ==
  /\ pc = "int13"
  /\ pc' = "disk_error"
  /\ UNCHANGED <<total, left, chs, now, bx, mem, cpu>>

(* int 0x13 returns fewer sectors than asked for: sectors_error. *)
SectorsError ==
  /\ pc = "int13" /\ now > 0
  /\ pc' = "sectors_error"
  /\ UNCHANGED <<total, left, chs, now, bx, mem, cpu>>

(* switch_to_vga_mode: int 0x10, still in real mode. *)
switch_to_vga_mode ==
  /\ pc = "loaded"
  /\ pc' = "switch_to_pm"
  /\ UNCHANGED <<total, left, chs, now, bx, mem, cpu>>

(* cli, lgdt, cr0 and the far jump to init_pm, then BEGIN_PM. *)
switch_to_pm ==
  /\ pc = "switch_to_pm"
  /\ mode' = "protected" /\ interrupts' = FALSE
  /\ pc' = "kernel"
  /\ UNCHANGED <<total, left, chs, now, bx, mem>>

Halted == pc \in {"kernel", "disk_error", "sectors_error", "lost"}

Next == \/ load_kernel \/ NextTrack \/ ReadTrack \/ DiskError \/ SectorsError
        \/ switch_to_vga_mode \/ switch_to_pm

(* One processor runs the code, and every BIOS call returns. *)
Spec == Init /\ [][Next]_vars /\ WF_vars(Next)

-----------------------------------------------------------------------------
TypeOK ==
  /\ pc \in {"load_kernel", "loop", "int13", "loaded", "switch_to_pm",
             "kernel", "disk_error", "sectors_error", "lost"}
  /\ total \in Sizes
  /\ left \in Nat /\ left < 65536
  /\ cyl \in Nat /\ cyl < 256
  /\ head \in 0..1
  /\ sect \in 0..18
  /\ now \in 0..18
  /\ bx \in Nat /\ bx < 65536
  /\ mem \in [Blocks -> Int]
  /\ mode \in {"real", "protected"}
  /\ interrupts \in BOOLEAN

Loading == pc \in {"loop", "int13", "loaded", "switch_to_pm", "kernel"}

(* disk_load_many never asks int 0x13 for a sector past the end of the     *)
(* track, which is the failure the routine was written to avoid, nor for   *)
(* none: the last sector asked for exists, and the next read starts where  *)
(* this one ends, on the disk and in memory.                               *)
StaysOnTrack ==
  pc = "int13" =>
    /\ now >= 1 /\ sect >= 1 /\ sect + now - 1 <= SECTORS_PER_TRACK
    /\ left > now => sect + now - 1 = SECTORS_PER_TRACK

(* What was read so far is in memory, in the order of the disk and without *)
(* a gap, from KERNEL_OFFSET on: block 8 + i holds sector 1 + i.           *)
KernelInPlace ==
  Loading => \A b \in Blocks : (b >= 8 /\ b < 8 + total - left) => mem[b] = b - 7

(* The kernel is called in protected mode, with interrupts off and only    *)
(* once all of its sectors are in memory where it was linked to run.       *)
KernelComplete ==
  pc = "kernel" =>
    /\ mode = "protected" /\ ~interrupts
    /\ \A b \in Blocks : (b >= 8 /\ b < 8 + total) => mem[b] = b - 7

(* A kernel of at most 54 sectors leaves the boot sector that loads it and *)
(* its stack alone.                                                        *)
SmallKernelIsSafe == total <= 54 => pc # "lost"

(* The boot code always comes to an end: the kernel runs, or one of the    *)
(* two error messages stays on the screen, or its own code is gone.        *)
BootEnds == <>Halted

(* "Funciona pra qualquer tamanho de kernel": loading the kernel never     *)
(* overwrites the code and the stack that load it.                         *)
LoaderIntact == pc # "lost"
=============================================================================
