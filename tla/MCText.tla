------------------------------ MODULE MCText -------------------------------
(***************************************************************************)
(* The texts that are read and written, and what must come of them.        *)
(***************************************************************************)
EXTENDS MCLexer, JsonText

(* White space, literals, structure, a byte order mark and NUL. *)
Layout ==
  LET openers == {0, 10, 32, 49, 91, 110, 239} IN
  [bytes |-> openers \cup {108, 117, 187, 191}, openers |-> openers,
   length |-> 6, buffer |-> 5]

Numerals ==
  LET bytes == {32, 43, 45, 46, 48, 49, 101} IN
  [bytes |-> bytes, openers |-> bytes, length |-> 6, buffer |-> 6]

(* One escape of a code point: the digits give the first and the last code *)
(* point of every length in UTF-8, and the neighbours of the surrogates.   *)
OneEscape ==
  [bytes |-> {34, 48, 55, 56, 66, 67, 68, 69, 70, 92, 117}, openers |-> {34},
   length |-> 8, buffer |-> 1]

(* One character: the first and last byte of every range, and the escapes  *)
(* of one letter.                                                          *)
OneCharacter ==
  [bytes |-> {31, 34, 47, 92, 98, 102, 110, 114, 116, 120, 127, 128, 143, 144, 159, 160,
              191, 192, 193, 194, 223, 224, 225, 236, 237, 238, 239, 240, 241, 243, 244,
              245, 255},
   openers |-> {34, 239}, length |-> 6, buffer |-> 1]

(* A pair of surrogates, or what is not quite one. *)
OnePair ==
  [bytes |-> {34, 56, 67, 68, 92, 117}, openers |-> {34}, length |-> 14, buffer |-> 1]

(* The integers of IntBits bits at the limits of their types, and beyond.  *)
Limits == {2 ^ (IntBits - 1), 2 ^ IntBits}
RECURSIVE Numeral(_)
Numeral(n) == IF n < 10 THEN <<48 + n>> ELSE Numeral(n \div 10) \o <<48 + (n % 10)>>
AtLimits ==
  {[text |-> sign \o Numeral(x + d)] :
     sign \in {<<>>, <<Minus>>}, x \in Limits, d \in -1 .. 1}

MCSources == {Layout, Numerals, OneEscape, OneCharacter, OnePair} \cup AtLimits

(* The smallest and largest integers, and those around powers of ten. *)
Edges == UNION {{(10 ^ k) - 1, 10 ^ k, (10 ^ k) + 1} : k \in 1 .. 7}
MCIntegers ==
  -130 .. 130 \cup Edges \cup {-x : x \in Edges}
    \cup {-(2 ^ (IntBits - 1)), 1 - (2 ^ (IntBits - 1)), (2 ^ (IntBits - 1)) - 1}
MCUnsigneds == 0 .. 30 \cup Edges \cup {(2 ^ IntBits) - 1}

(* One digit, some, and the seventeen of max_digits10. *)
MCDigitTexts ==
  {<<49>>, <<49, 50>>, <<49, 48, 51>>, [i \in 1 .. 17 |-> 49 + (i % 9)]}
MCExponents == -24 .. 17 \cup {-340, -117, -116, -115, -101, -100, -99, 98, 99, 100, 101, 308}
==============================================================================
