------------------------------- MODULE Printf -------------------------------
(***************************************************************************)
(* printf, puts and putchar of libc/stdio, in the kernel (__is_libk): the  *)
(* bytes go to the terminal of Tty one by one.  A turn of printf's loop    *)
(* takes one piece of the format, checks that the count stays an int, and  *)
(* prints the piece; a byte is a step of its own.  putchar never fails.    *)
(***************************************************************************)
EXTENDS Tty

CONSTANTS
  INT_MAX,
  Formats,     \* format strings a caller may pass
  Arguments    \* and argument lists: c of an argument is its value where the
               \* format asks for a char, s where it asks for a string

Characters == Glyphs \cup {Blank} \cup Control

(* There are as many arguments as the format can ask for, and puts has a   *)
(* string to print.                                                        *)
ASSUME PrintfAssumption ==
  /\ INT_MAX \in Nat /\ {"%", "s"} \subseteq Glyphs
  /\ Formats \subseteq Seq(Characters)
  /\ Arguments \subseteq Seq([c : Characters, s : Seq(Characters)]) \ {<<>>}
  /\ \A f \in Formats, a \in Arguments : Len(f) <= 2 * Len(a) + 1

VARIABLES
  call,        \* "none", "running", or "returned"
  format, args,  \* the arguments of the call
  at,          \* format: the part from here on is left
  arg,         \* the next argument of va_arg
  written,     \* the count
  bytes,       \* what print still has to print
  ret,         \* what printf returned
  sent         \* history: the bytes given to terminal_putchar

printfVars == <<call, format, args, at, arg, written, bytes, ret, sent>>

PrintfInit ==
  /\ terminal_initialize
  /\ call = "none" /\ format = <<>> /\ args = <<>> /\ at = 1 /\ arg = 1
  /\ written = 0 /\ bytes = <<>> /\ ret = 0 /\ sent = <<>>

-----------------------------------------------------------------------------
IsAt(p, c) == p \in 1..Len(format) /\ format[p] = c

(* The end of the literal text that begins at p: its first character is    *)
(* printed whatever it is, and the rest goes up to the next '%'.           *)
LiteralEnd(p) ==
  CHOOSE q \in p..Len(format) :
    /\ q = Len(format) \/ format[q + 1] = "%"
    /\ \A k \in p + 1..q : format[k] # "%"

(* A piece of the format: the bytes it prints, where the next one begins,  *)
(* and how many arguments it takes.                                        *)
Piece(text, next, takes) == [text |-> text, next |-> next, takes |-> takes]

(* format[0] != '%' || format[1] == '%' *)
Literal(p) == LET q == LiteralEnd(p) IN Piece(SubSeq(format, p, q), q + 1, 0)

(* A mutant: "%%" prints both of its characters. *)
NextPieceBothPercents ==
  IF ~IsAt(at, "%") \/ IsAt(at + 1, "%") THEN Literal(at)
  ELSE IF IsAt(at + 1, "c") THEN Piece(<<args[arg].c>>, at + 2, 1)
  ELSE IF IsAt(at + 1, "s") THEN Piece(args[arg].s, at + 2, 1)
  ELSE Piece(SubSeq(format, at, Len(format)), Len(format) + 1, 0)

(* The turn of the loop that begins at "at"; a conversion it does not know *)
(* makes printf print the rest of the format as it is.                     *)
NextPiece ==
  IF ~IsAt(at, "%") THEN Literal(at)
  ELSE IF IsAt(at + 1, "%") THEN Literal(at + 1)
  ELSE IF IsAt(at + 1, "c") THEN Piece(<<args[arg].c>>, at + 2, 1)
  ELSE IF IsAt(at + 1, "s") THEN Piece(args[arg].s, at + 2, 1)
  ELSE Piece(SubSeq(format, at, Len(format)), Len(format) + 1, 0)

printf(f, a) ==
  /\ call = "none"
  /\ call' = "running" /\ format' = f /\ args' = a
  /\ UNCHANGED <<ttyVars, at, arg, written, bytes, ret, sent>>

puts(string) == printf(<<"%", "s", "NL">>, <<[c |-> Blank, s |-> string]>>)

Returns(r) ==
  /\ call' = "returned" /\ ret' = r
  /\ UNCHANGED <<ttyVars, format, args, at, arg, written, bytes, sent>>

Idle == call = "running" /\ bytes = <<>> /\ next_stop = 0

(* A turn of the loop over the format: maxrem is INT_MAX - written. *)
PrintfLoop ==
  /\ Idle /\ at <= Len(format)
  /\ LET piece == NextPiece
     IN  IF INT_MAX - written < Len(piece.text)
         THEN Returns(-1)
         ELSE /\ bytes' = piece.text /\ at' = piece.next /\ arg' = arg + piece.takes
              /\ written' = written + Len(piece.text)
              /\ UNCHANGED <<ttyVars, call, format, args, ret, sent>>

PrintfEnd == Idle /\ at > Len(format) /\ Returns(written)

(* One turn of the loop of print: putchar, terminal_write of one byte. *)
PutByte ==
  /\ bytes # <<>>
  /\ terminal_putchar(Head(bytes))
  /\ bytes' = Tail(bytes) /\ sent' = Append(sent, Head(bytes))
  /\ UNCHANGED <<call, format, args, at, arg, written, ret>>

(* A tab goes on until terminal_putchar returns. *)
PrintTab == TabLoop /\ UNCHANGED printfVars

PrintfStep == PrintfLoop \/ PrintfEnd \/ PutByte \/ PrintTab

PrintfCall == \/ \E f \in Formats, a \in Arguments : printf(f, a)
              \/ \E a \in Arguments : puts(a[1].s)

PrintfSpec == PrintfInit /\ [][PrintfStep \/ PrintfCall]_<<ttyVars, printfVars>>

-----------------------------------------------------------------------------
(* What the format stands for, character by character: out[p][n] is the    *)
(* output from position p on when argument n is the next.                  *)
Meaning ==
  LET out[p \in 1..Len(format) + 1] ==
        [n \in Nat |->
           IF p > Len(format) THEN <<>>
           ELSE IF format[p] # "%" THEN <<format[p]>> \o out[p + 1][n]
           ELSE IF IsAt(p + 1, "%") THEN <<"%">> \o out[p + 2][n]
           ELSE IF IsAt(p + 1, "c") THEN <<args[n].c>> \o out[p + 2][n + 1]
           ELSE IF IsAt(p + 1, "s") THEN args[n].s \o out[p + 2][n + 1]
           ELSE SubSeq(format, p, Len(format))]
  IN  out[1][1]

(* A printf that returns has sent what its format and arguments mean, and  *)
(* returns its length; when that is no int it returns -1, having sent a    *)
(* beginning of it.                                                        *)
PrintfOutput ==
  call = "returned" =>
    IF Len(Meaning) <= INT_MAX
    THEN sent = Meaning /\ ret = Len(Meaning)
    ELSE ret = -1 /\ Len(sent) <= INT_MAX /\ sent = SubSeq(Meaning, 1, Len(sent))

(* Printing comes to an end, unless a tab looks for a stop in the column   *)
(* behind the last one: the cursor wraps to column 0 and never gets there. *)
ConsoleReturns ==
  (call = "running" \/ next_stop # 0) ~>
    ((call # "running" /\ next_stop = 0) \/ next_stop = VGA_WIDTH)
=============================================================================
