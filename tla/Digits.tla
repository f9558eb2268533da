------------------------------- MODULE Digits -------------------------------
(***************************************************************************)
(* The three decimal writers of SzOS: int_to_ascii (kernel-c, a signed     *)
(* int, reversed in place), draw_number (efi-boot) and write_uint (i386),  *)
(* which store the digits from the last one on and read them backwards.    *)
(***************************************************************************)
EXTENDS Integers, SequencesExt

CONSTANTS
  Numbers     \* values to convert; not -(2^31), for which -n is undefined

(* The values of 32 bits: v < 2^16 * 2^16 when there is no sign. *)
Unsigned(v) == v \in Nat /\ v \div 65536 < 65536
Negative(n) == n < 0 /\ n >= -2147483647

ASSUME DigitsAssumption == \A n \in Numbers : n \in Int /\ (Unsigned(n) \/ Negative(n))

VARIABLES
  number,     \* the argument of the last call
  numeral     \* the characters it left: the first ones in str, or drawn

digitVars == <<number, numeral>>

DigitsInit == number = 0 /\ numeral = <<>>

-----------------------------------------------------------------------------
(* n % 10 + '0' *)
Ascii(d) == <<"0", "1", "2", "3", "4", "5", "6", "7", "8", "9">>[d + 1]

(* A mutant: the loop stops one digit early. *)
TakeDigitsShort(v) ==
  LET g[n \in 0..v] ==
        IF n <= 10 THEN <<Ascii(n % 10)>> ELSE <<Ascii(n % 10)>> \o g[n \div 10]
  IN  g[v]

(* The digits of v in the order in which n % 10 yields them. *)
TakeDigits(v) ==
  LET g[n \in 0..v] ==
        IF n < 10 THEN <<Ascii(n)>> ELSE <<Ascii(n % 10)>> \o g[n \div 10]
  IN  g[v]

(* for (j = 0; j < i / 2; j++) swap str[j] and str[i - j - 1] *)
SwapEnds(s) ==
  LET i == Len(s)
      f[j \in 0..i \div 2] ==
        IF j = 0 THEN s
        ELSE [f[j-1] EXCEPT ![j] = f[j-1][i - j + 1], ![i - j + 1] = f[j-1][j]]
  IN  f[i \div 2]

int_to_ascii(n) ==
  LET digits == TakeDigits(IF n < 0 THEN -n ELSE n)
  IN  SwapEnds(IF n < 0 THEN Append(digits, "-") ELSE digits)

(* for (i = count - 1; i >= 0; i--) draw_char(digits[i], ...) *)
draw_number(n) == Reverse(TakeDigits(n))

(* The zero apart: while (i > 0) terminal_putchar(digits[--i]) *)
write_uint(n) == IF n = 0 THEN <<Ascii(0)>> ELSE Reverse(TakeDigits(n))

CallIntToAscii == \E n \in Numbers : number' = n /\ numeral' = int_to_ascii(n)
CallDrawNumber == \E n \in Numbers \cap Nat : number' = n /\ numeral' = draw_number(n)
CallWriteUint == \E n \in Numbers \cap Nat : number' = n /\ numeral' = write_uint(n)

DigitsNext == CallIntToAscii \/ CallDrawNumber \/ CallWriteUint

DigitsSpec == DigitsInit /\ [][DigitsNext]_digitVars

-----------------------------------------------------------------------------
(* The value of a sequence of digits, the highest first. *)
ValueOf(s) ==
  LET v[i \in 0..Len(s)] == IF i = 0 THEN 0 ELSE 10 * v[i-1] + (CHOOSE d \in 0..9 : Ascii(d) = s[i])
  IN  v[Len(s)]

(* Each writer leaves the shortest numeral of its argument: the digits     *)
(* read from the left give the number back, no zero stands in front, and   *)
(* they fit in the ten characters of the buffers of draw_number and        *)
(* write_uint, also for the largest numbers; for the vectors of the        *)
(* exceptions they fit in the two that isr_handler leaves in char s[3].    *)
NumeralCorrect ==
  numeral # <<>> =>
    LET signed == number < 0
        digits == IF signed THEN Tail(numeral) ELSE numeral
    IN  /\ signed => numeral[1] = "-"
        /\ digits # <<>>
        /\ ValueOf(digits) = (IF signed THEN -number ELSE number)
        /\ digits[1] = "0" => digits = <<"0">>
        /\ Len(digits) <= 10
        /\ number \in 0..31 => Len(numeral) <= 2
=============================================================================
