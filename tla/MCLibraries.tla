----------------------------- MODULE MCLibraries ----------------------------
(***************************************************************************)
(* The libraries of the three kernels, the keyboard ring and the animation *)
(* side by side.  They share no state, so a behaviour exercises one of     *)
(* them: part says which, and the variables of the others stay in their    *)
(* initial state.                                                          *)
(***************************************************************************)
EXTENDS Printf, Screen, Heap, LibcMem, KeyboardRing, EfiScreen

CONSTANTS
  Typed        \* bound: characters typed at the bare terminal

VARIABLES
  part,        \* the library in use
  typed        \* how many characters the terminal has been given

libVars == <<ttyVars, printfVars, screenVars, digitVars, heapVars, memVars,
             ringVars, boxVars>>
vars == <<part, typed, libVars>>

Parts == {"terminal", "printf", "screen", "digits", "heap", "memory", "ring",
          "animation"}

Init ==
  /\ part \in Parts /\ typed = 0
  /\ PrintfInit /\ DigitsInit /\ HeapInit /\ RingInit /\ BoxInit
  /\ IF part = "screen" THEN ScreenInit ELSE ScreenInit /\ get_cursor_offset = 0
  /\ IF part = "memory" THEN MemInit ELSE MemInit /\ mem = [a \in Addresses |-> 0]

-----------------------------------------------------------------------------
(* terminal_write, called by the panic of isr_handler and by interrupts.c: *)
(* any character after any other.                                          *)
Type(c) ==
  /\ part = "terminal" /\ typed < Typed
  /\ terminal_putchar(c)
  /\ typed' = typed + 1
  /\ UNCHANGED <<part, printfVars, screenVars, digitVars, heapVars, memVars, ringVars, boxVars>>

Recolor(hue) ==
  /\ part = "terminal" /\ typed < Typed /\ next_stop = 0
  /\ terminal_setcolor(hue)
  /\ typed' = typed + 1
  /\ UNCHANGED <<part, printfVars, screenVars, digitVars, heapVars, memVars, ringVars, boxVars>>

ConsoleStep ==
  /\ part \in {"terminal", "printf"}
  /\ PrintfStep
  /\ UNCHANGED <<part, typed, screenVars, digitVars, heapVars, memVars, ringVars, boxVars>>

ConsoleCall ==
  /\ part = "printf"
  /\ PrintfCall
  /\ UNCHANGED <<part, typed, screenVars, digitVars, heapVars, memVars, ringVars, boxVars>>

UseScreen ==
  /\ part = "screen" /\ ScreenNext
  /\ UNCHANGED <<part, typed, ttyVars, printfVars, digitVars, heapVars, memVars, ringVars, boxVars>>

UseDigits ==
  /\ part = "digits" /\ DigitsNext
  /\ UNCHANGED <<part, typed, ttyVars, printfVars, screenVars, heapVars, memVars, ringVars, boxVars>>

UseHeap ==
  /\ part = "heap" /\ HeapNext
  /\ UNCHANGED <<part, typed, ttyVars, printfVars, screenVars, digitVars, memVars, ringVars, boxVars>>

UseMemory ==
  /\ part = "memory" /\ MemNext
  /\ UNCHANGED <<part, typed, ttyVars, printfVars, screenVars, digitVars, heapVars, ringVars, boxVars>>

UseRing ==
  /\ part = "ring" /\ RingNext
  /\ UNCHANGED <<part, typed, ttyVars, printfVars, screenVars, digitVars, heapVars, memVars, boxVars>>

Animate ==
  /\ part = "animation" /\ BoxNext
  /\ UNCHANGED <<part, typed, ttyVars, printfVars, screenVars, digitVars, heapVars, memVars, ringVars>>

Next ==
  \/ \E c \in {"a", Blank} \cup Control : Type(c)
  \/ \E hue \in Colors : Recolor(hue)
  \/ ConsoleStep \/ ConsoleCall \/ UseScreen \/ UseDigits \/ UseHeap \/ UseMemory
  \/ UseRing \/ Animate

(* A call that has begun goes on: one processor, and no interrupt handler  *)
(* keeps it for ever.                                                      *)
Spec == Init /\ [][Next]_vars /\ WF_vars(ConsoleStep)

-----------------------------------------------------------------------------
(* Constants of the model *)

Alphabet == {"%", "c", "s", "a", "HT"}
MCGlyphs == {"%", "c", "s", "a", "q", "y", "z"}
MCFormats == UNION {[1..n -> Alphabet] : n \in 0..4}
MCArguments == { << [c |-> "q", s |-> <<>>], [c |-> "a", s |-> <<"%", "s">>] >>,
                 << [c |-> "NL", s |-> <<"y", "z", "HT">>], [c |-> "%", s |-> <<"y">>] >> }
MCMessages == { <<"a">>, <<"NL">>, <<"b", "NL", "b">> }
MCSpots == { <<-1, -1>>, <<0, 1>>, <<2, 2>>, <<3, 0>>, <<1, 3>> }
MCNumbers == (-12..102) \cup {999, 1000, -1000, 2147483647, -2147483647}
=============================================================================
