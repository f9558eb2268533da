-------------------------------- MODULE Tty --------------------------------
(***************************************************************************)
(* The terminal of the i386 kernel (legacy/kernel/arch/i386/tty.c): text   *)
(* memory, a cursor and a colour.  terminal_putchar is one step; a tab is  *)
(* a loop of them, and next_stop is the local variable of that loop.       *)
(*                                                                         *)
(* In the source the screen has 80 x 25 cells and a tab stop every 8       *)
(* columns.  A character is a glyph, the blank, or one of the four         *)
(* control characters.                                                     *)
(***************************************************************************)
EXTENDS Integers, Sequences

CONSTANTS
  VGA_WIDTH, VGA_HEIGHT,
  TabWidth,      \* 8, of which VGA_WIDTH is a multiple
  Glyphs,        \* printable characters but the blank
  Colors, DefaultColor

Blank == " "
Control == {"NL", "CR", "BS", "HT"}

ASSUME TtyAssumption ==
  /\ VGA_WIDTH \in Nat \ {0} /\ VGA_HEIGHT \in Nat \ {0}
  /\ TabWidth \in Nat \ {0} /\ VGA_WIDTH % TabWidth = 0
  /\ DefaultColor \in Colors
  /\ Glyphs \cap (Control \cup {Blank}) = {}

VARIABLES
  terminal_row, terminal_column, terminal_color,
  terminal_buffer,
  next_stop      \* the tab stop a running tab looks for; 0 when none runs

ttyVars == <<terminal_row, terminal_column, terminal_color, terminal_buffer, next_stop>>

vga_entry(c, color) == [glyph |-> c, ink |-> color]

terminal_initialize ==
  /\ terminal_row = 0 /\ terminal_column = 0
  /\ terminal_color = DefaultColor
  /\ terminal_buffer =
       [index \in 0..VGA_WIDTH * VGA_HEIGHT - 1 |-> vga_entry(Blank, DefaultColor)]
  /\ next_stop = 0

-----------------------------------------------------------------------------
terminal_setcolor(color) ==
  /\ terminal_color' = color
  /\ UNCHANGED <<terminal_row, terminal_column, terminal_buffer, next_stop>>

terminal_putentryat(c, x, y) ==
  terminal_buffer' =
    [terminal_buffer EXCEPT ![y * VGA_WIDTH + x] = vga_entry(c, terminal_color)]

(* A mutant: the row is tested before it is counted up. *)
NextRowLate == IF terminal_row = VGA_HEIGHT THEN 0 ELSE terminal_row + 1

(* if (++terminal_row == VGA_HEIGHT) terminal_row = 0 *)
NextRow == IF terminal_row + 1 = VGA_HEIGHT THEN 0 ELSE terminal_row + 1

PutNewline ==
  /\ terminal_column' = 0 /\ terminal_row' = NextRow
  /\ UNCHANGED terminal_buffer

PutReturn == terminal_column' = 0 /\ UNCHANGED <<terminal_row, terminal_buffer>>

PutBackspace ==
  /\ IF terminal_column > 0
     THEN /\ terminal_column' = terminal_column - 1
          /\ terminal_putentryat(Blank, terminal_column - 1, terminal_row)
     ELSE UNCHANGED <<terminal_column, terminal_buffer>>
  /\ UNCHANGED terminal_row

PutGlyph(c) ==
  /\ terminal_putentryat(c, terminal_column, terminal_row)
  /\ IF terminal_column + 1 = VGA_WIDTH
     THEN terminal_column' = 0 /\ terminal_row' = NextRow
     ELSE terminal_column' = terminal_column + 1 /\ UNCHANGED terminal_row

(* A mutant: the stop is not rounded down to a multiple of 8. *)
PutTabUnaligned ==
  /\ next_stop' = terminal_column + TabWidth
  /\ UNCHANGED <<terminal_row, terminal_column, terminal_buffer>>

(* next_stop = (terminal_column + 8) & ~7u; the loop below moves on. *)
PutTab ==
  /\ next_stop' = (terminal_column \div TabWidth + 1) * TabWidth
  /\ UNCHANGED <<terminal_row, terminal_column, terminal_buffer>>

terminal_putchar(c) ==
  /\ next_stop = 0
  /\ \/ c = "NL" /\ PutNewline
     \/ c = "CR" /\ PutReturn
     \/ c = "BS" /\ PutBackspace
     \/ c = "HT" /\ PutTab
     \/ c \notin Control /\ PutGlyph(c)
  /\ c # "HT" => UNCHANGED next_stop
  /\ UNCHANGED terminal_color

(* A turn of while (terminal_column < next_stop && ...) putchar(' '). *)
TabLoop ==
  /\ next_stop # 0
  /\ IF terminal_column < next_stop /\ terminal_column < VGA_WIDTH
     THEN PutGlyph(Blank) /\ UNCHANGED next_stop
     ELSE next_stop' = 0 /\ UNCHANGED <<terminal_row, terminal_column, terminal_buffer>>
  /\ UNCHANGED terminal_color

(* The terminal by itself: any character or colour after any other. *)
TtyNext ==
  \/ \E c \in Glyphs \cup {Blank} \cup Control : terminal_putchar(c)
  \/ \E color \in Colors : next_stop = 0 /\ terminal_setcolor(color)
  \/ TabLoop

TtySpec == terminal_initialize /\ [][TtyNext]_ttyVars

-----------------------------------------------------------------------------
Page == INSTANCE TextPage WITH
          Columns <- VGA_WIDTH, Lines <- VGA_HEIGHT, Inks <- Colors,
          pos <- terminal_row * VGA_WIDTH + terminal_column,
          ink <- terminal_color, page <- terminal_buffer

(* Row and column, each wrapped on its own, are one position on a page     *)
(* that is printed in order: every character, at the ends of lines and of  *)
(* the page too, and every blank of a tab, is a step of the page, and no   *)
(* write leaves the text memory.                                           *)
ImplementsPage == Page!Spec
=============================================================================
