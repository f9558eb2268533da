# SzOS: a verification project in TLA+

SzOS is a collection of small operating system kernels for the PC, written from scratch:

* `efi-boot/` is the current one, a UEFI application that leaves the boot services and runs its
  own interrupt handlers, an animation and a mouse pointer;
* `legacy/kernel/` (with `libc/`) is an i386 multiboot kernel with a terminal, an IDT and a PS/2
  keyboard driver;
* `legacy/kernel-c/` is an earlier i386 kernel with a boot sector of its own;
* `legacy/bootloader/`, `legacy/*.asm`, `legacy/SZoS/` are exercises that came before.

The repository also holds a copy of GRUB 0.97 (about 58,000 of its 62,000 lines of code, vendored
and third-party), a sysroot, images and build scripts, which are not its own logic and are left
aside. Of the project's own kernels and libraries the modules cover nearly all code that keeps state.

This project models the parts in which the order of things matters: what runs between two
instructions of another piece of code, and what the hardware does meanwhile.

## Inventory

| Part | State it keeps | Operations | Interacts through | What is hard |
|---|---|---|---|---|
| UEFI main loop and handlers (`main.c`, `pic_timer.c`, `mouse.c`) | `g_ticks`, `g_last_key`, mouse position, `packet`, `byte_index`, `paused` | `remap_pic`, `program_pit`, `sti`, key chain, `delay_real`, `handler_time`, `handler_keyboard`, `handler_mouse` | volatile variables, 8259 ports, the 8042 | interrupts between any two accesses, ends of interrupt, two devices behind one byte, waiting for ticks |
| UEFI animation (`main.c`) | `x`, `y`, `dx`, `dy`, colour, `paused` | keys, clamp, frame | the back buffer, unchecked | edges, unbounded speed |
| UEFI boot phase (`main.c`, `memory.c`, `idt.c`) | memory map, `next_addr_available`, `idt`, `g_draw_target` | `GetMemoryMap`, `ExitBootServices`, `my_malloc`, `initiate_idt` | firmware | a stale map key, a region chosen once, use before initialization |
| UEFI mouse activation (`mouse.c`) | 8042 and mouse configuration | `activate_mouse` | 8042 status and data ports | waits without a limit |
| 8259 pair (external) | masks, requests, lines in service, bases | initialization, masks, end of interrupt, priorities | ports 0x20, 0x21, 0xA0, 0xA1 | order of writes, cascade |
| i386 keyboard ring (`drivers/keyboard.c`) | `buffer`, `buf_head`, `buf_tail` | `buffer_push`, `keyboard_read` | interrupt handler and caller, no lock | overflow inside a read |
| i386 interrupts (`cpu/*.c`, `isr_stubs.S`) | IDT, handler table, masks | `interrupts_initialize`, `irq_register_handler`, `isr_handler`, `irq_handler` | 8259, `int 33` | lines nobody handles, bytes nobody reads |
| i386 terminal and libc (`tty.c`, `printf.c`, `string/*.c`) | cursor, colour, cells; the count of `printf` | `terminal_putchar`, `printf`, `puts`, `memmove`, ... | calls | wrap, a tab that never ends, `INT_MAX`, overlapping ranges |
| kernel-c boot sector (`boot/*.asm`) | sectors left, cylinder, head, sector, `bx`, memory | `load_kernel`, `disk_load_many`, `switch_to_pm` | BIOS `int 0x13` | tracks, failing reads, memory it overwrites |
| kernel-c interrupts and keyboard | IDT, masks, `key_buffer` | `isr_install`, `pic_init`, `keyboard_init`, two stubs, `test_keyboard` | 8259, 8042 | a path without an end of interrupt, two initializations |
| kernel-c screen, heap, utilities | cursor registers, text memory, `heap_current` | `kprint_at`, `print_char`, `clear_screen`, `isr_handler`, `kmalloc`, `int_to_ascii` | calls, exceptions | scrolling, invalid coordinates, 32-bit arithmetic, small buffers |

`PROJECT.json` lists every part with the reason for those that are not modelled, and the hazards,
each at its line with the properties that cover it.

## Modules

### Pic8259 (external hardware)

The pair of 8259s as a record `[m |-> chip, s |-> chip]`; a chip has its mask, latched requests,
lines in service, vector base and the initialization word it expects. The module has no variables;
a kernel keeps a pair in a variable of its own and applies `Outb` (a write to one of the four
ports), `Raise` (a device pulls its line), `Acknowledge` (the processor takes an interrupt) and
`Deliverable` (what the pair signals: the highest unmasked request that nothing in service holds
back, through the cascade). An initialization clears the mask, the latches and what is in service,
and a non-specific end of interrupt ends the highest line in service. It is the common ground of
`EfiLoop`, `KernelCIrq` and `I386Irq`.

### EfiLoop (`efi-boot/main.c`, `pic_timer.c`, `mouse.c`)

One variable per piece of shared state, `pc` for `main`. `main` is cut at every access to shared
state: each comparison of `g_last_key` is a step (`PollKey`), the branch with `g_last_key = 0` is a
later one (`TakeKey`), and each `outb` of `remap_pic` is a step. A handler is one step: its gate
clears the interrupt flag, the processor is alone, and whatever a device does in the meantime
(raise a line, put a byte into an *empty* output buffer) commutes with what the handler still has
to do. `DrawFrame` and `delay_real` frame the wait; `g_ticks` is kept as the number of ticks since
`delay_real` read it, capped at its argument, because nothing else reads it but the digits on the
screen. The 8042 has a one-byte output buffer (`obuf`), which a device fills only when it is empty;
a handler's `inb(0x60)` empties it. `sent` and `phase` are what the mouse itself remembers.

`Pic2MaskPort` is the port of the last write of `remap_pic`. In the source it is `PIC1_DATA`, and
three runs use that value. `efi_mask` shows that the timer is masked and `delay_real` never returns.
`efi_port` shows what gets through all the same: line 4, and nothing else (`OnlyOpenLines`).
`efi_gates` shows that this line comes on vector 36, which has no gate, so that `VectorsGated` is
false of the code; `EmptyGate` is the step such an interrupt makes: the gates for the faults that
follow are empty too, and the machine is reset. Every other property of the loop would with this port
be about a kernel that receives no timer, no keyboard and no mouse; run `efi_loop` therefore uses
`PIC2_DATA`, the port the constant `PIC2_MASK_DEFAULT` is named for. The safety theorems hold for both
values.

What the model shows besides its properties: a scancode that arrives between a comparison and the
store `g_last_key = 0` is lost (that is why `KeyActsOnce` promises at most one action and not
exactly one); a byte that arrives before `remap_pic` loses its latched request, after which the
output buffer stays full and neither device is heard again (that is why `LatchedByteIsRead` speaks
of latched requests, and `RequestKept` of what happens once `remap_pic` is over); and the mouse position has no upper bound in the code, so `MouseMax` bounds
the device instead.

### Ps2Mouse and EfiBoot (`efi-boot/main.c`, `memory.c`, `idt.c`, `mouse.c`)

What `main` does before the loop of `EfiLoop`. `Ps2Mouse` has `activate_mouse` as the sequence of
its calls (`Script`), each of which waits on the status register, and the 8042 with the mouse behind
it. `PS2_STATUS_INPUT` has the value of `PS2_STATUS_OUTPUT`, so `wait_input_buffer_clear` waits for
the *output* buffer to be empty; that is how it is modelled. A scancode may take the place of an
answer, because nothing looks at the sender of a byte. `write_data` is declared in `mouse.h` and
defined nowhere; the model takes it for `ps2_write_data`. The controller obeys a command at once,
as the one of the emulator in the Makefile does.

`EfiBoot` extends it with the calls of the boot services and their error returns, a firmware that
allocates memory (`FirmwareEvent`) until `ExitBootServices` succeeds, and `my_malloc`. Its two sides
meet in the key of the memory map. `malloc`, which allocates from the same firmware, is a call that
may fail; what it does to the map is a `FirmwareEvent`.

What the model shows besides its properties: a scancode that arrives between the end of the boot
services and `sti` may stop the kernel for ever, because `wait_input_buffer_clear` waits for a byte
to go that nobody reads (`BootEnds` therefore excludes it), or may leave an acknowledgement behind
for `handler_mouse`, which then is out of step (`MouseReady` counts these), or may be taken for the
command byte, whose other bits are then lost (`MouseReady` promises them without a scancode only). And `my_malloc` cuts the
back buffer out of the region it chose for the 4096 bytes of the self-test, however small; this is
why `BlocksFree` has a premise about that region.

### EfiScreen (`efi-boot/main.c`)

The variables local to the loop. `Input` is the key chain with the clamping that follows it in any
case; `Frame` draws at (`x`, `y`), moves, bounces and picks the next colour; `SkipFrame` is a paused
turn. `EfiLoop` decides when a key gets here, `EfiScreen` what it does, for every possible key at
every turn.

### KeyboardRing and DropOldestFifo (`legacy/kernel/arch/i386/drivers/keyboard.c`)

`keyboard_read` makes six volatile accesses and is six actions, with `buffer_push` (one step, it
runs inside the interrupt) possible between any two. The order of the two loads in
`buf_tail == buf_head` is not fixed by C; the model takes the one that is written. Bytes carry
their number, so that the history variables can tell which were returned, dropped or lost.
`DropOldestFifo` is the abstract queue, and `ImplementsFifo` says that every step of the ring is a
step of it, with the ring's contents as the refinement mapping, until an overflow lands inside a
read. In this commit the decoder that called `buffer_push` is commented out and
`keyboard_callback` is a probe; the ring is the one its comments and that decoder describe.

### BootSector (`legacy/kernel-c/boot`)

`disk_load_many` and the code around it. Memory is the 128 blocks of 512 bytes of the segment;
each block remembers the sector it holds. The BIOS call may succeed, fail (`DiskError`) or return
fewer sectors (`SectorsError`); it can only succeed within a track and within 64 KB. A read that
overwrites the boot sector or the top of its stack ends in `"lost"`: what runs next are bytes of
the kernel.

### KernelCIrq (`legacy/kernel-c/cpu`, `drivers`, `kernel`)

The two initializations of the pair, the gates, `keyboard_init`, and the two stubs. What
`irq_handler` receives is not the vector: `irq_common_stub` pushes the data segment last, over
whatever the upper half of `eax` was (`IrqNumbers`), so that its first branch is dead and its second
depends on the interrupted code: the slave may keep a line in service, the master never does
(`OnlyLineOneLeft`). The keyboard stub ends no interrupt, and no end of interrupt of another line ends
it instead: `keyboard_handler` runs once, and `key_buffer` stays what the first scancode made of it
(`OneScancodeOnly`). That scancode may be a release, of a key in `HeldAtStart` that was pressed before
the kernel ran. If it is a press, its release is never read and the key is displayed as pressed for
ever, and no other key ends the test (`kernelc_esc`).

### I386Irq (`legacy/kernel/kernel.c`, `arch/i386/cpu`)

`kernel_main` step by step, each `outb` to the pair one of them, with the masks that `pic_remap`
reads and writes back. An exception goes to `isr_handler`, which panics when nobody registered; a
hardware line goes to `irq_handler`, which sends one end of interrupt to the master and does nothing
else. `int 33` enters the same stub without an interrupt of the pair. `kernel_main` never calls
`keyboard_initialize`; `WithKeyboard` covers the kernel with and without the call.

What the model shows besides its properties: the scancode is never read, so the 8042 stays full and
a second key raises no interrupt; the entry that `irq_register_handler` makes is never looked up,
although a comment in `irq.c` says that `isr_handler` did so already. The segment selectors 0x08
and 0x10, for which the kernel loads no GDT of its own, are taken to be valid.

### Tty, TextPage and Printf (`legacy/kernel/arch/i386/tty.c`, `libc/stdio`)

`Tty` has the cursor, the colour and the cells; `terminal_putchar` is one step, and a tab is a loop
of blanks, `next_stop` being the local variable of that loop. `TextPage` is what a terminal without
scrolling promises, a page with one position; `ImplementsPage` is the refinement, with
`row * VGA_WIDTH + column` for the position. `Printf` extends `Tty` with `printf` and `puts`: a turn
of printf's loop takes one piece of the format (`NextPiece`), compares it with what is left up to
`INT_MAX`, and its bytes go to the terminal one by one. `Meaning` is the reference: what a format
stands for, read character by character.

What the model shows besides its properties: a tab in the last eight columns never ends. The blank
in column 79 wraps the cursor to column 0, `terminal_column < next_stop` (80) holds again, and the
loop goes on over all rows for ever. `ConsoleReturns` promises the end of every other call and
excludes exactly that stop.

### Screen (`legacy/kernel-c/drivers/screen.c`, `cpu/isr.c`)

`kprint_at` is a loop of `print_char` steps; `isr_handler` prints five messages in a row, the second
of which is made by `int_to_ascii`. The cursor lives in two registers of `Byte` values each. Cells
stand for pairs of bytes, whose attribute follows from the character (the `E` of invalid coordinates
is red, a scrolled-in line is 0). The history variables are a roll of paper on which every character
stays where it was printed; `ShowsPage` says that the screen is a window onto it. An exception that
strikes inside `kprint_at` (only a non-maskable interrupt could) is not modelled. The branch of
`print_char` for negative coordinates is not reachable through `kprint_at`.

### Heap, LibcMem, Digits

`Heap` is `kmalloc` modulo the word size, with its endless loop when there is no room. A request
above `Word - 4 - heap_end` wraps round and is granted; `HeapApart` has that bound as its premise.
`LibcMem` has the functions of `libc/string`, one step per turn of their loops, each against its
definition. `Digits` has the three decimal writers as operators; `int_to_ascii` of the smallest int
is undefined in C and not covered; TLC's integers end at 2^31 - 1, the proof goes up to 2^32 - 1.

`MCLibraries` puts these, `KeyboardRing` and `EfiScreen` side by side. They share no state, so a
behaviour uses one of them (`part`), and the others stay in their initial state. The names of the
parts' own definitions (`RingNext`, `BoxNext`, `HeapNext`, ...) keep them apart.

## Runs

| Run | Expect | States | What it shows |
|---|---|---|---|
| `efi_loop` | pass | 40,000 | `ServiceDrained`, `OnlyOpenLines`, `KeyActsOnce`, `PacketAligned`, `RequestKept`, `DelayReturns`, `LatchedByteIsRead`, `KeyIsConsumed` |
| `efi_mask` | violation | 272 | as written, `remap_pic` masks the timer and `delay_real` never returns |
| `efi_port` | pass | 876 | `OnlyOpenLines` with the port of the source: line 4 and no other |
| `efi_gates` | violation | 440 | as written, `remap_pic` leaves line 4 open, whose vector 36 has no gate |
| `ring_race` | violation | 141 | an overflow inside `keyboard_read` loses a byte that was not the oldest |
| `boot_sector` | pass | 2,000 | `StaysOnTrack`, `KernelInPlace`, `KernelComplete`, `SmallKernelIsSafe`, `BootEnds` |
| `boot_100` | violation | 16 | with the 100 sectors of the source the loader overwrites itself |
| `kernelc_irq` | pass | 3,900 | `VectorsGated`, `OnlyLineOneLeft`, `OneScancodeOnly`, `TimerServed` |
| `kernelc_esc` | violation | 3,900 | after another key, the escape key is never seen |
| `i386_irq` | pass | 1,700 | `OnlyKeyboardDelivered`, `ServiceDrained`, `KeyServed` |
| `efi_boot` | pass | 8,100 | `BlocksApart`, `BlocksFree`, `MouseReady`, `BootEnds`, `ReadReturns`, `TypeOK` |
| `libraries` | pass | 397,000 | `HoldsNewest`, `NothingLostUntilOvertaken`, `ImplementsFifo`, `BoxOnScreen`, `LeavesEdge`, `BouncesInTime`, `PrintfOutput`, `ImplementsPage`, `ConsoleReturns`, `ShowsPage`, `NumeralCorrect`, `HeapApart`, `LibcCorrect` |

The type invariants of the modules, but for that of `EfiBoot`, and `SpeedStep` of `EfiScreen` are
proved for every instance and not asked of TLC again.

Bounds, and why they are enough:

* `efi_loop`: two keys of the chain (the first and the last, so that every comparison is passed
  with and without a match); mouse bytes 1 and 255 (+1 and -1), a start at (1, 1) and a limit of 0,
  so that the mouse moves once and is clipped afterwards, and the three bytes of a packet differ;
  stray line 8, a masked line of the slave; two ticks of delay. (The safety part is proved for any
  bytes, positions and lines.)
* `efi_port`, `efi_gates`: stray lines 4, the one that gets through, and 8, of the unmasked slave
  behind a masked line 2; one key and one mouse byte, which are never delivered.
* `libraries`, the animation: a 14 x 11 screen, a box of 4, a step of 3, speeds up to 12, so that the box is
  faster than the free width and height; four colours as in the source.
* `libraries`, the keyboard ring: four slots and nine bytes, more than twice round; an overflow, two overflows
  and a refill inside one read all happen.
* `boot_sector`: all sizes from 0 to 125; 120 sectors fill the segment and more are refused by the
  BIOS model. A kernel above 54 sectors ends in `"lost"` or in an error.
* `kernelc_irq`: the escape key and one other, the timer and a line of the slave, two scancodes
  waiting in the keyboard; the other key is held since before, so that the first scancode may be a
  press or a release.
* `libraries`, the rest: a terminal of 4 x 2 cells with a tab stop every 2 columns, so that the last stop and
  both wraps are two characters away, and any eight characters; every format of up to four
  characters over `%`, `c`, `s`, a glyph and a tab with two argument lists (an empty string, one
  with a `%` in it), and `INT_MAX` 3, so that every check of the count fails somewhere; a screen of
  3 x 3 with cursor registers of four values (both are used), three calls, among them positions
  right of the screen and below it; 115 small numbers and those at the ends of the range; a heap of
  24 bytes in a word of 64, sizes up to and beyond the wrap; all contents of four bytes of three
  values with all ranges.
* `i386_irq`: a BIOS that left everything open and one that left half open; two exceptions; the
  timer and a line of the slave.
* `efi_boot`: pages of four bytes; maps with a region at address 0, behind a single page, too small
  for the back buffer, and with no region of two pages; four allocations of the firmware, more
  than the two spare descriptors allow; two scancodes, of which one may stop `activate_mouse` and
  one may replace an answer; a controller with the keyboard on and one with it off.

The runs of `BootSector`, `EfiBoot`, `I386Irq` and the libraries do not check deadlock:
the boot code really ends, a library call returns (or hangs, as `kmalloc` does), the bound on the speed stops the animation, `EfiBoot` ends where the loop begins (or in
a wait for ever, which `BootEnds` is about), and `kernel_main` halts.

Fairness. `EfiLoop`: `main` keeps running (weak fairness), the PIT keeps ticking, a pending timer
interrupt is taken, and the keyboard and the mouse handlers get strong fairness: a handler takes far
less than the 10 ms between two ticks, so the lines of lower priority are not starved although each
tick disables them for a moment. Nobody has to press a key or move the mouse. `KernelCIrq` is the
same, and the 8042 forwards what it holds. `BootSector`: one processor, and the BIOS returns. `I386Irq`:
the processor runs `kernel_main` and takes what it is signalled (weak fairness); no key and no
exception has to come. `EfiBoot`: `main` runs, and an answer the controller owes comes once the
output buffer is free; scancodes, movements and the firmware have no fairness. `MCLibraries`: a call
of the console that has begun goes on; nobody has to call.

## Proofs

All in modules of their own, checked by TLAPS for every value of the constants that meets the
assumptions named in the modules.

* `Pic8259Proofs`: lemmas about the pair. A write never latches a request (`OutbType`), raising a
  line latches only that one (`RaiseType`), what is delivered is latched (`DeliverableLatched`),
  and one end of interrupt empties a chip that serves one line (`EoiOfOne`). What is delivered comes
  before everything in service (`DeliverableFirst`), and so the next end of interrupt ends it and
  leaves the rest in service (`EoiEndsLatest`).
  A programmed pair stays programmed (`Setup` is untouched by requests, acknowledgements and ends of
  interrupt), and `Progress` says how far the words of an initialization have got: the three kernels
  share these lemmas.
* `EfiLoopProofs`: `TypeOK`, `ServiceDrained`, `KeyActsOnce` and `PacketAligned` for any set of
  scancodes, mouse bytes and stray lines, any delay and both mask ports. None of them is inductive
  alone. The inductive invariant adds `RequestMatchesByte` (a latched request of line 1 or 12 means
  that the output buffer holds a byte of that device; without it `handler_mouse` might read a
  scancode) and `KeyKnown` (a `g_last_key` other than 0 was delivered since it was last cleared).
  Idle chips before an interrupt are what makes a non-specific end of interrupt end the right one.
  The action property `RequestKept` follows from the same invariant, `OnlyOpenLines` from
  `PairProgrammed` (which word of `remap_pic` each chip has seen), for both mask ports as well: with
  `PIC1_DATA`, the one in the source, it says that line 4 alone is delivered.
* `EfiScreenProofs`: `BoxTypeOK`, `BoxOnScreen`, `LeavesEdge`, `SpeedStep` and `BouncesInTime` for any
  screen larger than the box, any step, start and number of colours. The strengthening says that the
  speeds are not 0; for `BouncesInTime`, `CoveredWay` says that the undisturbed frames so far have
  covered their number times the speed, and the way is no longer than the screen.
* `EfiBootProofs`: `TypeOK`, `BlocksApart`, `BlocksFree` and `MouseReady` for any memory map, page
  size, back buffer, command byte and set of scancodes. `BootInv` has two halves. For the memory:
  `UpToDate` (between the second `GetMemoryMap` and `ExitBootServices` the map of `main` is the
  firmware's *if the keys agree*; afterwards it simply is) and `HandedOut` (the blocks are
  neighbours, the first at the start of the region found). For the mouse, line by line of
  `activate_mouse`: `Addressed` (where the next byte on the data port goes), `Sources` (a scancode in
  the output buffer has been counted; a movement finds no answer due), `Accounts` (the answers due
  are those this line is about to read, plus at most one per scancode) and `FirmwareConfig` (without
  a scancode, `config` is what the firmware left).
* `KernelCIrqProofs`: `TypeOK`, `VectorsGated`, `OnlyLineOneLeft` and `OneScancodeOnly` for any set of
  keys, keys held at the start and lines. The invariant follows both initializations of the pair
  (`PairProgrammed`) and the gates (`GatesSet`), says that no scancode was read before `sti`
  (`NoKeyBeforeSti`) and that a request of line 1 means a scancode in the output buffer
  (`ScancodeWaits`). With `OnlyLineOneLeft`, whatever is delivered comes before line 1, so the end of
  interrupt of `irq_handler` ends it (`EoiEndsLatest`), and line 1 is not delivered a second time.
* `I386IrqProofs`: `TypeOK`, `OnlyKeyboardDelivered` and `ServiceDrained` for any masks the BIOS left,
  exceptions and lines, with and without `keyboard_initialize`. The invariant follows `pic_remap` and
  the three writes of the masks.
* `KernelCProofs`: of `BootSector`, `TypeOK`, `StaysOnTrack`, `KernelInPlace`, `KernelComplete` and
  `SmallKernelIsSafe` for any set of sizes below 65536; the invariant ties the number of the next
  sector to `bx` and to what is left. Of `Heap`, `HeapApart` for every word size, heap and set of
  requests; the strengthening says that, as long as no request wraps round, the pointer is a multiple
  of four inside the heap and at or above the end of every block. Of `Screen`, `ShowsPage` for every
  size of the screen, message and place: `ScreenInv` adds that the paper below the screen is blank and
  that `row` and `col` of `kprint_at` name the place of the pen; `ScrolledIs` says what the loop of
  `memory_copy` leaves in each row. Of `Digits`, `NumeralCorrect` for every number of 32 bits but
  -(2^31): `TakeDigitsOf` says what the loop over `n % 10` leaves, `SwapEndsReverses` that the swaps in
  place are a reversal.
* `I386LibProofs`: of `KeyboardRing`, `RingTypeOK`, `HoldsNewest`, `NothingLostUntilOvertaken` and the
  refinement `ImplementsFifo` for any ring of at least two slots and any number of bytes. The
  invariant relates the index and the byte that `keyboard_read` has loaded to the ring, as long as no
  overflow has landed inside the read; the refinement reads the contents as a run of consecutive
  bytes (`Run`), which a push extends and a read shortens. Of `Tty`, the refinement `ImplementsPage`
  for any screen, tab width and glyphs: `TtyInv` keeps the cursor on the screen, and the rest is
  arithmetic modulo the number of cells (`CursorOnPage`, `GlyphIsPut`). Of `LibcMem`, `LibcCorrect`
  for any memory, values and arguments; `LoopInv` is the loop invariant of each function: what the
  turns so far have written or compared, and, for `memmove`, that the bytes still to be copied have
  not been overwritten. Of `Printf`, `PrintfOutput` for every format with enough arguments: `Running`
  says that what was sent, the bytes `print` still holds and the meaning of the rest of the format make
  up the meaning of the format, and that `written` counts the first two; `NextPieceOut` shows that each
  turn of the loop takes the right piece.

Loops over data (`Scrolled`, `TakeDigits`, `SwapEnds`, `ValueOf`, `Meaning`) are recursive functions.
The provers cannot instantiate the induction theorems of the library, whose parameter is an operator, so
these proofs use `LeastNumber` (a set of naturals that is not empty has a least element) instead: a
least argument at which the function does not exist, or does not have the value claimed, is refuted.

Only model-checked, and why:

* liveness and everything under fairness, since the prover has no rule for `ENABLED`: `DelayReturns`,
  `LatchedByteIsRead`, `KeyIsConsumed`, `TimerServed`, `EscExits`, `KeyServed`, `ReadReturns`,
  `ConsoleReturns` and both `BootEnds`.

## Not modelled, and the plan

Every invariant, action property and refinement that a passing run checks is also proved; what is
left to the runs alone is liveness.

Not modelled, and why:

* `graphics.c`, the glyphs of `font.c`, `vga.c`: pixels. Those of the self-test and of a mouse pushed
  past the right or lower edge go to addresses that nobody checks; `PROJECT.json` lists both as
  hazards without a property.
* `abort`, `pic_enable_irq`, `pic_disable_irq`, `pic_set_mask`, `pic_send_eoi`, `interrupts_disable`,
  `interrupts_debug_dump`: no caller.
* the decoder of `keyboard.c`: commented out.
* the messages and the GDT of the boot sector, `boot.S`, `crti.S`, `crtn.S`, linker scripts: straight
  lines and constant tables.
* `legacy/bootloader`, `legacy/bootsect.asm`, `legacy/SZoS/loader.s`: lessons, superseded by
  `kernel-c/boot`.
* GRUB 0.97, the sysroot, images and build scripts: not SzOS's own logic.
