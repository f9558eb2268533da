------------------------------- MODULE Screen -------------------------------
(***************************************************************************)
(* The text screen of kernel-c (drivers/screen.c), and isr_handler, which  *)
(* reports an exception on it.  print_char is one step; kprint_at is a     *)
(* loop of them; a caller has its messages printed one after the other.    *)
(* The position of the cursor is nowhere but in two byte-wide registers of *)
(* the VGA.  Offsets count cells here, not bytes: get_offset is even.      *)
(*                                                                         *)
(* paper, top, pen and mark are history: a roll of paper as long as all    *)
(* that was printed, of which the screen shows the lines from top on, the  *)
(* place of the next character, and the place behind the last one.         *)
(***************************************************************************)
EXTENDS Digits

CONSTANTS
  MAX_COLS, MAX_ROWS,
  Byte,        \* number of values of a cursor register
  Messages,    \* messages a caller may print, sequences of characters
  Spots,       \* positions <<col, row>> for kprint_at, <<-1, -1>> for kprint
  Vectors,     \* exceptions that may occur
  MaxTop,      \* bound: lines that may scroll away
  MaxCalls     \* bound: calls made

ASSUME ScreenAssumption ==
  /\ MAX_COLS \in Nat \ {0} /\ MAX_ROWS \in Nat \ {0}
  /\ Byte \in Nat \ {0} /\ MAX_COLS * MAX_ROWS <= Byte * Byte
  /\ Spots \subseteq Int \X Int /\ MaxTop \in Nat

VARIABLES
  vidmem,      \* the cells; their attributes follow from what is in them
  high, low,   \* the cursor registers 14 and 15
  todo,        \* messages to print, each with its place, the first running
  col, row,    \* the variables of the running kprint_at
  calls,
  paper, top, pen, mark

screenVars == <<vidmem, high, low, todo, col, row, calls, paper, top, pen, mark>>

Cells == MAX_COLS * MAX_ROWS
Space == " "
Nul == "nul"

get_offset(c, r) == r * MAX_COLS + c
get_offset_row(o) == o \div MAX_COLS
get_offset_col(o) == o - get_offset_row(o) * MAX_COLS

get_cursor_offset == high * Byte + low
set_cursor_offset(o) == high' = (o \div Byte) % Byte /\ low' = o % Byte

(* The BIOS leaves the cursor anywhere on a screen it has cleared. *)
ScreenInit ==
  /\ vidmem = [p \in 0..Cells - 1 |-> Space]
  /\ high \in 0..Byte - 1 /\ low \in 0..Byte - 1 /\ get_cursor_offset < Cells
  /\ todo = <<>> /\ col = 0 /\ row = 0 /\ calls = 0
  /\ paper = [p \in 0..Cells + MaxTop * MAX_COLS - 1 |-> IF p < Cells THEN Space ELSE Nul]
  /\ top = 0 /\ pen = get_cursor_offset /\ mark = pen

-----------------------------------------------------------------------------
(* memory_copy of one row of cells onto the row above it *)
CopyRow(mem, r) ==
  [p \in 0..Cells - 1 |-> IF get_offset_row(p) = r - 1 THEN mem[p + MAX_COLS] ELSE mem[p]]

BlankLast(mem) ==
  [p \in 0..Cells - 1 |-> IF get_offset_row(p) = MAX_ROWS - 1 THEN Nul ELSE mem[p]]

(* A mutant: the rows are copied from the last one on. *)
ScrolledBackwards(mem) ==
  LET m[i \in 0..MAX_ROWS - 1] == IF i = 0 THEN mem ELSE CopyRow(m[i - 1], MAX_ROWS - i)
  IN  BlankLast(m[MAX_ROWS - 1])

(* for (i = 1; i < MAX_ROWS; i++) memory_copy(...), and a blank last line *)
Scrolled(mem) ==
  LET m[i \in 0..MAX_ROWS - 1] == IF i = 0 THEN mem ELSE CopyRow(m[i - 1], i)
  IN  BlankLast(m[MAX_ROWS - 1])

(* The rest of print_char once the character is in mem and the cursor at   *)
(* o; the offset it returns becomes kprint_at's row and col.               *)
Finish(mem, o) ==
  LET scroll == o >= Cells
      offset == IF scroll THEN o - MAX_COLS ELSE o
  IN  /\ scroll => top < MaxTop
      /\ vidmem' = (IF scroll THEN Scrolled(mem) ELSE mem)
      /\ top' = (IF scroll THEN top + 1 ELSE top)
      /\ set_cursor_offset(offset)
      /\ row' = get_offset_row(offset) /\ col' = get_offset_col(offset)

(* On the paper the character goes where the pen is. *)
Write(c) ==
  /\ pen' = (IF c = "NL" THEN pen - (pen % MAX_COLS) + MAX_COLS ELSE pen + 1)
  /\ paper' = (IF c = "NL" THEN paper ELSE [paper EXCEPT ![pen] = c])
  /\ mark' = pen'

(* Invalid coordinates: an 'E' in the last cell, and the cursor stays. *)
PrintError ==
  /\ vidmem' = [vidmem EXCEPT ![Cells - 1] = "E"]
  /\ row' = get_offset_row(get_offset(col, row))
  /\ col' = get_offset_col(get_offset(col, row))
  /\ paper' = [paper EXCEPT ![top * MAX_COLS + Cells - 1] = "E"]
  /\ UNCHANGED <<high, low, top, pen, mark>>

print_char(c) ==
  IF col >= MAX_COLS \/ row >= MAX_ROWS THEN PrintError
  ELSE LET offset == get_offset(col, row)
       IN  /\ IF c = "NL"
              THEN Finish(vidmem, get_offset(0, get_offset_row(offset) + 1))
              ELSE Finish([vidmem EXCEPT ![offset] = c], offset + 1)
           /\ Write(c)

-----------------------------------------------------------------------------
(* The beginning of kprint_at: the place of the first message of queue. *)
Start(queue) ==
  /\ todo' = queue
  /\ IF queue = <<>> THEN UNCHANGED <<col, row, pen>>
     ELSE LET spot == queue[1].spot
          IN  IF spot[1] >= 0 /\ spot[2] >= 0
              THEN col' = spot[1] /\ row' = spot[2] /\ pen' = (top + row') * MAX_COLS + col'
              ELSE /\ col' = get_offset_col(get_cursor_offset)
                   /\ row' = get_offset_row(get_cursor_offset)
                   /\ pen' = mark

Item(message, spot) == [text |-> message, spot |-> spot]

PrintAll(queue) ==
  /\ todo = <<>> /\ calls < MaxCalls
  /\ calls' = calls + 1
  /\ Start(queue)
  /\ UNCHANGED <<vidmem, high, low, paper, top, mark>>

kprint_at(message, spot) == PrintAll(<<Item(message, spot)>>)

(* isr_handler: "received interrupt: ", the number, its message. *)
isr_handler(n) ==
  LET Line(m) == Item(m, <<-1, -1>>)
  IN  PrintAll(<<Line(<<"r">>), Line(int_to_ascii(n)), Line(<<"NL">>),
                 Line(<<"m">>), Line(<<"NL">>)>>)

(* isr0 to isr31 and isr_common_stub: the number a stub pushes last is the *)
(* int_no that isr_handler finds.                                          *)
isr_common_stub(n) == isr_handler(n)

(* A turn of kprint_at's loop; at the end of a message the next begins. *)
KprintLoop ==
  /\ todo # <<>> /\ todo[1].text # <<>>
  /\ print_char(Head(todo[1].text))
  /\ todo' = [todo EXCEPT ![1] = Item(Tail(@.text), @.spot)]
  /\ UNCHANGED calls

KprintEnd ==
  /\ todo # <<>> /\ todo[1].text = <<>>
  /\ Start(Tail(todo))
  /\ UNCHANGED <<vidmem, high, low, calls, paper, top, mark>>

clear_screen ==
  /\ todo = <<>> /\ calls < MaxCalls
  /\ calls' = calls + 1
  /\ vidmem' = [p \in 0..Cells - 1 |-> Space]
  /\ set_cursor_offset(get_offset(0, 0))
  /\ paper' = [p \in DOMAIN paper |->
                 IF p \in top * MAX_COLS..top * MAX_COLS + Cells - 1 THEN Space ELSE paper[p]]
  /\ pen' = top * MAX_COLS /\ mark' = pen'
  /\ UNCHANGED <<todo, col, row, top>>

ScreenNext ==
  \/ \E m \in Messages, s \in Spots : kprint_at(m, s)
  \/ \E n \in Vectors : isr_common_stub(n)
  \/ KprintLoop \/ KprintEnd \/ clear_screen

ScreenSpec == ScreenInit /\ [][ScreenNext]_screenVars

-----------------------------------------------------------------------------
(* The screen shows the last lines of what was printed and cleared, each   *)
(* character in its place however often the screen has scrolled, and the   *)
(* cursor registers say where the next kprint goes on.                     *)
ShowsPage ==
  /\ \A p \in 0..Cells - 1 : vidmem[p] = paper[top * MAX_COLS + p]
  /\ top * MAX_COLS + get_cursor_offset = mark
=============================================================================
