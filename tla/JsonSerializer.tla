--------------------------- MODULE JsonSerializer ---------------------------
(***************************************************************************)
(* dump() of a string (src/include/json/json.hpp, dump_escaped), with its  *)
(* default arguments, as the client calls it: not ensure_ascii, and strict, *)
(* so that a text that is not UTF-8 throws.  One step is one byte.  The    *)
(* output goes through a buffer that is written out when it is nearly full. *)
(***************************************************************************)
EXTENDS UnicodeText

CONSTANTS
  TextBytes,    \* the bytes that occur in the text
  MaxText,      \* bound on its length
  BufferSize    \* string_buffer.size(), 512 in the code

ASSUME TextAssumption == TextBytes \subseteq 0 .. 255 /\ MaxText \in Nat
ASSUME BufferAssumption == BufferSize \in Nat /\ BufferSize >= 13

UTF8_ACCEPT == 0
UTF8_REJECT == 1

VARIABLES
  text,             \* the bytes of s that have been read
  state, codepoint, \* of decode
  string_buffer,    \* the part of it that is filled
  most,             \* the largest number of bytes that was ever filled
  output,           \* what o has been given
  dumped            \* "running", "done" or "thrown"

dumpVars == <<text, state, codepoint, string_buffer, most, output, dumped>>

(***************************************************************************)
(* decode: the class of a byte, and the automaton over the classes.        *)
(***************************************************************************)
Class(b) ==
  CASE b < 128 -> 0
    [] b \in 128 .. 143 -> 1
    [] b \in 144 .. 159 -> 9
    [] b \in 160 .. 191 -> 7
    [] b \in {192, 193} -> 8
    [] b \in 194 .. 223 -> 2
    [] b = 224 -> 10
    [] b = 237 -> 4
    [] b \in 225 .. 239 \ {237} -> 3
    [] b = 240 -> 11
    [] b \in 241 .. 243 -> 6
    [] b = 244 -> 5
    [] OTHER -> 8

(* Mutant: ED is not followed by all of 80 .. 9F (utf8d's row s5 as s8).   *)
StepRejects(st, class) ==
  CASE st = 0 /\ class \in {0, 2, 3, 4, 5, 6, 10, 11} ->
         CASE class = 0 -> 0 [] class = 2 -> 2 [] class = 3 -> 3 [] class = 4 -> 5
           [] class = 5 -> 8 [] class = 6 -> 7 [] class = 10 -> 4 [] OTHER -> 6
    [] st = 2 /\ class \in {1, 7, 9} -> 0
    [] st = 3 /\ class \in {1, 7, 9} -> 2
    [] st = 4 /\ class = 7 -> 2
    [] st = 5 /\ class = 1 -> 2
    [] st = 6 /\ class \in {7, 9} -> 3
    [] st = 7 /\ class \in {1, 7, 9} -> 3
    [] st = 8 /\ class = 1 -> 3
    [] OTHER -> UTF8_REJECT

(* Mutant: ED may be followed by any byte (utf8d's row s5 as s3).          *)
StepSurrogates(st, class) ==
  CASE st = 0 /\ class \in {0, 2, 3, 4, 5, 6, 10, 11} ->
         CASE class = 0 -> 0 [] class = 2 -> 2 [] class = 3 -> 3 [] class = 4 -> 5
           [] class = 5 -> 8 [] class = 6 -> 7 [] class = 10 -> 4 [] OTHER -> 6
    [] st = 2 /\ class \in {1, 7, 9} -> 0
    [] st \in {3, 5} /\ class \in {1, 7, 9} -> 2
    [] st = 4 /\ class = 7 -> 2
    [] st = 6 /\ class \in {7, 9} -> 3
    [] st = 7 /\ class \in {1, 7, 9} -> 3
    [] st = 8 /\ class = 1 -> 3
    [] OTHER -> UTF8_REJECT

Step(st, class) ==
  CASE st = 0 /\ class \in {0, 2, 3, 4, 5, 6, 10, 11} ->
         CASE class = 0 -> 0 [] class = 2 -> 2 [] class = 3 -> 3 [] class = 4 -> 5
           [] class = 5 -> 8 [] class = 6 -> 7 [] class = 10 -> 4 [] OTHER -> 6
    [] st = 2 /\ class \in {1, 7, 9} -> 0
    [] st = 3 /\ class \in {1, 7, 9} -> 2
    [] st = 4 /\ class = 7 -> 2
    [] st = 5 /\ class \in {1, 9} -> 2
    [] st = 6 /\ class \in {7, 9} -> 3
    [] st = 7 /\ class \in {1, 7, 9} -> 3
    [] st = 8 /\ class = 1 -> 3
    [] OTHER -> UTF8_REJECT

(* (255 >> class) + 1, for the classes up to 8: a first byte counts modulo this. *)
FirstBits == <<256, 128, 64, 32, 16, 8, 4, 2, 1>>

Codepoint(b) ==
  IF state # UTF8_ACCEPT THEN codepoint * 64 + (b % 64)
  ELSE IF Class(b) > 8 THEN 0 ELSE b % FirstBits[Class(b) + 1]

(***************************************************************************)
(* dump_escaped.                                                           *)
(***************************************************************************)
Hexits == <<48, 49, 50, 51, 52, 53, 54, 55, 56, 57, 97, 98, 99, 100, 101, 102>>

(* Mutant: only the control characters with a letter are escaped.          *)
EscapedLetters(cp, b) ==
  CASE cp = 8 -> <<92, 98>>
    [] cp = 9 -> <<92, 116>>
    [] cp = 10 -> <<92, 110>>
    [] cp = 12 -> <<92, 102>>
    [] cp = 13 -> <<92, 114>>
    [] cp = 34 -> <<92, 34>>
    [] cp = 92 -> <<92, 92>>
    [] OTHER -> <<b>>

(* What a code point that is complete with byte b adds to the buffer. *)
Escaped(cp, b) ==
  CASE cp = 8 -> <<92, 98>>
    [] cp = 9 -> <<92, 116>>
    [] cp = 10 -> <<92, 110>>
    [] cp = 12 -> <<92, 102>>
    [] cp = 13 -> <<92, 114>>
    [] cp = 34 -> <<92, 34>>
    [] cp = 92 -> <<92, 92>>
    [] cp < 32 /\ cp \notin {8, 9, 10, 12, 13} ->
         <<92, 117, 48, 48, Hexits[cp \div 16 + 1], Hexits[(cp % 16) + 1]>>
    [] OTHER -> <<b>>

(* snprintf ends what it writes with a NUL, which is not counted. *)
Filled(cp, b) ==
  Len(string_buffer) + Len(Escaped(cp, b)) + (IF Len(Escaped(cp, b)) = 6 THEN 1 ELSE 0)

Highest(a, b) == IF a > b THEN a ELSE b

(* Mutant: written out only when the buffer is full.                       *)
FlushWhenFull(buffer) ==
  IF BufferSize - Len(buffer) < 1
  THEN output' = output \o buffer /\ string_buffer' = <<>>
  ELSE string_buffer' = buffer /\ UNCHANGED output

Flush(buffer) ==
  IF BufferSize - Len(buffer) < 13
  THEN output' = output \o buffer /\ string_buffer' = <<>>
  ELSE string_buffer' = buffer /\ UNCHANGED output

DumpByte ==
  /\ dumped = "running" /\ Len(text) < MaxText
  /\ \E b \in TextBytes :
       LET next == Step(state, Class(b))
           cp == Codepoint(b)
       IN  /\ text' = Append(text, b) /\ state' = next /\ codepoint' = cp
           /\ \/ /\ next = UTF8_ACCEPT
                 /\ Flush(string_buffer \o Escaped(cp, b))
                 /\ most' = Highest(most, Filled(cp, b))
                 /\ UNCHANGED dumped
              \/ /\ next = UTF8_REJECT
                 /\ dumped' = "thrown" /\ UNCHANGED <<string_buffer, most, output>>
              \/ /\ next \notin {UTF8_ACCEPT, UTF8_REJECT}
                 /\ string_buffer' = Append(string_buffer, b)
                 /\ most' = Highest(most, Len(string_buffer) + 1)
                 /\ UNCHANGED <<output, dumped>>

DumpEnd ==
  /\ dumped = "running"
  /\ \/ /\ state = UTF8_ACCEPT
        /\ output' = output \o string_buffer /\ dumped' = "done"
     \/ /\ state # UTF8_ACCEPT
        /\ dumped' = "thrown" /\ UNCHANGED output
  /\ UNCHANGED <<text, state, codepoint, string_buffer, most>>

DumpInit ==
  /\ text = <<>> /\ state = UTF8_ACCEPT /\ codepoint = 0
  /\ string_buffer = <<>> /\ most = 0 /\ output = <<>> /\ dumped = "running"

DumpNext == DumpByte \/ DumpEnd

DumpSpec == DumpInit /\ [][DumpNext]_dumpVars

(***************************************************************************)
(* Properties.                                                             *)
(***************************************************************************)
(* json.hpp:18477: the thirteen bytes that are kept free suffice, whatever  *)
(* is written for the next code point, of which up to three bytes may wait. *)
BufferFits == most <= BufferSize

(* json.hpp:18900: codep is "valid only if resulting state is UTF8_ACCEPT": *)
(* it is then a scalar value of Unicode, and a character of several bytes  *)
(* is never taken for one of those that are escaped.                       *)
AsciiByByte ==
  text # <<>> /\ text[Len(text)] >= 128 => codepoint >= 128
DecodesScalars == state = UTF8_ACCEPT => IsScalar(codepoint) /\ AsciiByByte

(* What is dumped is UTF-8, and nothing that is UTF-8 throws: thrown at a   *)
(* byte that decode rejects, a text may go on after what has been read of  *)
(* it, and no continuation of that is UTF-8; thrown otherwise, it is all   *)
(* of the text.                                                            *)
DumpsUtf8 ==
  /\ dumped = "done" => IsUtf8Text(text)
  /\ dumped = "thrown" =>
       IF state = UTF8_REJECT THEN ~BeginsText(text) ELSE ~IsUtf8Text(text)

(* What DecodesScalars rests on: the part of a code point that has been    *)
(* read in each state of the automaton.                                    *)
IsPart(st, cp) ==
  CASE st = 0 -> IsScalar(cp)
    [] st = 2 -> (2 <= cp /\ cp < 864) \/ (896 <= cp /\ cp < 17408)
    [] st = 3 -> (1 <= cp /\ cp < 13) \/ (14 <= cp /\ cp < 272)
    [] st = 5 -> cp = 13
    [] st = 7 -> cp \in 1 .. 3
    [] st = 8 -> cp = 4
    [] st \in {4, 6} -> cp = 0
    [] OTHER -> TRUE

(* And BufferFits: the bytes of a character that wait in the buffer. *)
Waiting == [st \in 0 .. 8 |-> CASE st = 0 -> 0 [] st = 2 -> 3 [] st = 3 -> 2 [] OTHER -> 1]

DumpInv ==
  /\ text \in Seq(0 .. 255) /\ state \in 0 .. 8 /\ codepoint \in Nat
  /\ string_buffer \in Seq(Nat) /\ most \in Nat /\ output \in Seq(Nat)
  /\ dumped \in {"none", "running", "done", "thrown"}
  /\ IsPart(state, codepoint) /\ DecodesScalars
  /\ most <= BufferSize
  /\ dumped = "running" => /\ state # UTF8_REJECT
                           /\ Len(string_buffer) + 13 <= BufferSize + Waiting[state]
============================================================================
