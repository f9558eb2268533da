------------------------------ MODULE TextPage ------------------------------
(***************************************************************************)
(* What a terminal without scrolling promises: a page of Lines lines, and  *)
(* one position in it.  Printing moves the position on and, from the end   *)
(* of the page, back to its beginning; whatever is not printed on stays.   *)
(***************************************************************************)
EXTENDS Integers

CONSTANTS Columns, Lines, Glyphs, Blank, Inks

VARIABLES pos, ink, page

textVars == <<pos, ink, page>>

Places == 0..Columns * Lines - 1

Init ==
  /\ pos = 0 /\ ink \in Inks
  /\ page = [p \in Places |-> [glyph |-> Blank, ink |-> ink]]

Put(g) ==
  /\ page' = [page EXCEPT ![pos] = [glyph |-> g, ink |-> ink]]
  /\ pos' = (pos + 1) % (Columns * Lines)
  /\ UNCHANGED ink

NewLine == pos' = (pos - (pos % Columns) + Columns) % (Columns * Lines) /\ UNCHANGED <<ink, page>>

CarriageReturn == pos' = pos - (pos % Columns) /\ UNCHANGED <<ink, page>>

(* Never past the beginning of a line. *)
Rubout ==
  /\ pos % Columns # 0
  /\ pos' = pos - 1
  /\ page' = [page EXCEPT ![pos - 1] = [glyph |-> Blank, ink |-> ink]]
  /\ UNCHANGED ink

NewInk == ink' \in Inks /\ UNCHANGED <<pos, page>>

Next == (\E g \in Glyphs \cup {Blank} : Put(g)) \/ NewLine \/ CarriageReturn \/ Rubout \/ NewInk

Spec == Init /\ [][Next]_textVars
=============================================================================
