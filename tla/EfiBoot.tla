------------------------------ MODULE EfiBoot ------------------------------
(***************************************************************************)
(* The boot phase of the UEFI kernel: main of efi-boot/main.c up to its    *)
(* loop, with the allocator of memory.c, the IDT and activate_mouse        *)
(* (Ps2Mouse).                                                             *)
(*                                                                         *)
(* Until ExitBootServices succeeds the firmware goes on allocating: the    *)
(* memory map that main reads may be out of date before it is used.  The   *)
(* key of the map is what the two sides agree by.                          *)
(***************************************************************************)
EXTENDS Ps2Mouse, FiniteSetsExt

CONSTANTS
  PAGE,        \* bytes of a page
  Maps,        \* memory maps at the start: sequences of regions
  BufferSizes, \* values of size_buffer
  MaxEvents    \* bound on the allocations of the firmware

(* A descriptor of the firmware has a page at least. *)
Region == [conventional : BOOLEAN, start : Nat, pages : Nat \ {0}]

ASSUME BootAssumption ==
  /\ PAGE \in Nat \ {0} /\ MaxEvents \in Nat
  /\ BufferSizes \subseteq Nat
  /\ \A m \in Maps : m \in Seq(Region)

VARIABLES
  pc,                  \* where main is
  firmware,            \* the memory map as the firmware has it
  key,                 \* its key, which counts the changes
  size,                \* map_size, in descriptors
  memory_map,          \* what the second GetMemoryMap returned
  map_key,             \* and its key
  next_addr_available,
  blocks,              \* blocks handed out by my_malloc
  size_buffer,
  gates                \* vectors of the IDT with a handler

bootVars == <<pc, firmware, key, size, memory_map, map_key,
              next_addr_available, blocks, size_buffer, gates>>
vars == <<bootVars, mouseVars>>

Init ==
  /\ pc = "LocateProtocol"
  /\ firmware \in Maps /\ key = 0
  /\ size = 0 /\ memory_map = <<>> /\ map_key = 0
  /\ next_addr_available = 0 /\ blocks = <<>>
  /\ size_buffer \in BufferSizes
  /\ gates = {}
  /\ MouseInit

ServicesUp == pc \in {"LocateProtocol", "GetMemoryMap", "malloc", "GetMemoryMap2",
                      "ExitBootServices"}

-----------------------------------------------------------------------------
(* The firmware: external *)

(* It takes the first page of a conventional region for itself. *)
Take(m, i) ==
  LET used == [conventional |-> FALSE, start |-> m[i].start, pages |-> 1]
      rest == [conventional |-> TRUE, start |-> m[i].start + PAGE, pages |-> m[i].pages - 1]
  IN SubSeq(m, 1, i - 1) \o (IF rest.pages = 0 THEN <<used>> ELSE <<used, rest>>)
       \o SubSeq(m, i + 1, Len(m))

FirmwareEvent ==
  /\ ServicesUp /\ key < MaxEvents
  /\ \E i \in DOMAIN firmware : firmware[i].conventional /\ firmware' = Take(firmware, i)
  /\ key' = key + 1
  /\ UNCHANGED <<pc, size, memory_map, map_key, next_addr_available, blocks,
                 size_buffer, gates, mouseVars>>

-----------------------------------------------------------------------------
(* Leaving the boot services *)

(* A call of the firmware and the test of its status: main goes on or      *)
(* returns 1.                                                              *)
CallElseReturn(from, to) ==
  /\ pc = from
  /\ pc' \in {to, "return 1"}
  /\ UNCHANGED <<firmware, key, size, memory_map, map_key, next_addr_available,
                 blocks, size_buffer, gates, mouseVars>>

LocateProtocol == CallElseReturn("LocateProtocol", "GetMemoryMap")

(* The first call only tells how many descriptors there are. *)
GetMemoryMap ==
  /\ pc = "GetMemoryMap"
  /\ size' = Len(firmware) + 2
  /\ pc' = "malloc"
  /\ UNCHANGED <<firmware, key, memory_map, map_key, next_addr_available,
                 blocks, size_buffer, gates, mouseVars>>

(* What malloc itself allocates is a FirmwareEvent. *)
Malloc == CallElseReturn("malloc", "GetMemoryMap2")

(* A mutant: the map is copied however long it has become. *)
GetMemoryMap2Overrun ==
  /\ pc = "GetMemoryMap2"
  /\ pc' = "ExitBootServices"
  /\ memory_map' = firmware /\ map_key' = key
  /\ UNCHANGED <<firmware, key, size, next_addr_available, blocks, size_buffer, gates, mouseVars>>

GetMemoryMap2 ==
  /\ pc = "GetMemoryMap2"
  /\ IF Len(firmware) > size
     THEN /\ pc' = "return 1"
          /\ UNCHANGED <<size, memory_map, map_key>>
     ELSE /\ pc' = "ExitBootServices"
          /\ size' = Len(firmware) /\ memory_map' = firmware /\ map_key' = key
  /\ UNCHANGED <<firmware, key, next_addr_available, blocks, size_buffer, gates, mouseVars>>

(* A mutant: the status is not looked at. *)
ExitBootServicesUnchecked ==
  /\ pc = "ExitBootServices"
  /\ pc' = "selftest"
  /\ UNCHANGED <<firmware, key, size, memory_map, map_key, next_addr_available,
                 blocks, size_buffer, gates, mouseVars>>

(* The firmware refuses a key that is not the one of its map. *)
ExitBootServices ==
  /\ pc = "ExitBootServices"
  /\ pc' = IF map_key = key THEN "selftest" ELSE "return 1"
  /\ UNCHANGED <<firmware, key, size, memory_map, map_key, next_addr_available,
                 blocks, size_buffer, gates, mouseVars>>

-----------------------------------------------------------------------------
(* The allocator *)

Fits(m, pages) == {i \in DOMAIN m : m[i].conventional /\ m[i].pages >= pages}

find_region_for_malloc(m, pages_needed) ==
  IF Fits(m, pages_needed) = {} THEN 0 ELSE m[Min(Fits(m, pages_needed))].start

(* The address my_malloc(n) returns: the first call looks for a region. *)
Address(n) ==
  IF next_addr_available = 0
  THEN find_region_for_malloc(memory_map, n \div PAGE + 1)
  ELSE next_addr_available

(* A mutant: the next block starts where this one does. *)
my_mallocStays(n) ==
  /\ blocks' = Append(blocks, [start |-> Address(n), bytes |-> n])
  /\ next_addr_available' = Address(n)

my_malloc(n) ==
  /\ blocks' = Append(blocks, [start |-> Address(n), bytes |-> n])
  /\ next_addr_available' = Address(n) + n

(* my_malloc(4096): a word is written, read back and reported in a box.    *)
SelfTest ==
  /\ pc = "selftest"
  /\ my_malloc(PAGE)
  /\ pc' = "idt"
  /\ UNCHANGED <<firmware, key, size, memory_map, map_key, size_buffer, gates, mouseVars>>

(* initiate_idt and the four calls of configure_entry_real. *)
initiate_idt ==
  /\ pc = "idt"
  /\ gates' = {3, 32, 33, 44}
  /\ pc' = "activate_mouse"
  /\ UNCHANGED <<firmware, key, size, memory_map, map_key, next_addr_available,
                 blocks, size_buffer, mouseVars>>

ActivateMouse ==
  /\ pc = "activate_mouse"
  /\ activate_mouse
  /\ UNCHANGED bootVars

(* The call returns; remap_pic, program_pit and sti are in EfiLoop. *)
Sti ==
  /\ pc = "activate_mouse" /\ Returned
  /\ pc' = "buffer"
  /\ UNCHANGED <<firmware, key, size, memory_map, map_key, next_addr_available,
                 blocks, size_buffer, gates, mouseVars>>

BackBuffer ==
  /\ pc = "buffer"
  /\ my_malloc(size_buffer)
  /\ pc' = "loop"
  /\ UNCHANGED <<firmware, key, size, memory_map, map_key, size_buffer, gates, mouseVars>>

(* The firmware serves the keyboard until main has left it, and a handler  *)
(* does after sti.                                                         *)
Device(event) ==
  /\ pc \in {"selftest", "idt", "activate_mouse"}
  /\ event
  /\ UNCHANGED bootVars

MainStep == \/ LocateProtocol \/ GetMemoryMap \/ Malloc \/ GetMemoryMap2
            \/ ExitBootServices \/ SelfTest \/ initiate_idt \/ ActivateMouse
            \/ Sti \/ BackBuffer

Next == MainStep \/ FirmwareEvent \/ Device(Devices)

(* The processor executes main, and an answer that is due comes as soon as *)
(* the buffer is free.  Keys, movements and the firmware are not fair.     *)
Spec == /\ Init /\ [][Next]_vars
        /\ WF_vars(MainStep)
        /\ WF_vars(Device(Answer))

-----------------------------------------------------------------------------
TypeOK ==
  /\ pc \in {"LocateProtocol", "GetMemoryMap", "malloc", "GetMemoryMap2",
             "ExitBootServices", "selftest", "idt", "activate_mouse", "buffer",
             "loop", "return 1"}
  /\ firmware \in Seq(Region) /\ memory_map \in Seq(Region)
  /\ key \in 0..MaxEvents /\ map_key \in 0..key
  /\ size \in Nat /\ Len(memory_map) <= size
  /\ next_addr_available \in Nat
  /\ blocks \in Seq([start : Nat, bytes : Nat]) /\ Len(blocks) <= 2
  /\ size_buffer \in BufferSizes
  /\ gates \subseteq 0..255
  /\ MouseTypeOK

Bytes(b) == b.start..b.start + b.bytes - 1

(* The bytes that the firmware counts as free. *)
Free == UNION {firmware[i].start..firmware[i].start + firmware[i].pages * PAGE - 1 :
                 i \in {j \in DOMAIN firmware : firmware[j].conventional}}

(* No two blocks of my_malloc share a byte, whatever the map: a region     *)
(* that begins at address 0, or no region at all, looks to my_malloc as if *)
(* it had not been called yet.                                             *)
BlocksApart ==
  \A i, j \in DOMAIN blocks : i # j => Bytes(blocks[i]) \cap Bytes(blocks[j]) = {}

(* Whatever the firmware allocates while main reads the map, a block that  *)
(* is handed out consists of memory that is free in the map of the         *)
(* firmware, as long as the first region of two pages has room for all of  *)
(* the blocks.  (my_malloc does not look for another region.)              *)
BlocksFree ==
  LET fit == Fits(firmware, 2)
      total == IF Len(blocks) = 2 THEN PAGE + size_buffer ELSE PAGE
  IN (fit # {} /\ firmware[Min(fit)].pages * PAGE >= total)
       => \A i \in DOMAIN blocks : Bytes(blocks[i]) \subseteq Free

(* main reaches its loop or returns 1, unless a scancode comes between the *)
(* end of the boot services and sti.  With one, it may wait for ever.      *)
BootEnds == <>(pc \in {"loop", "return 1"} \/ keys > 0)

(* read_data never waits for ever, scancodes or not: what it waits for was *)
(* asked for, or a scancode stands in for it.                              *)
ReadReturns == \A i \in DOMAIN Script :
  (pc = "activate_mouse" /\ at = i /\ Doing("read")) ~> (at # i)
=============================================================================
