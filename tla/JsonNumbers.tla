---------------------------- MODULE JsonNumbers ----------------------------
(***************************************************************************)
(* dump() of a number (src/include/json/json.hpp: dump_integer, and        *)
(* to_chars for a double), and how the lexer reads it back: as the client  *)
(* puts prices, quantities and order numbers into its requests.  The       *)
(* shortest digits of a double (grisu2) are taken as given.                *)
(***************************************************************************)
EXTENDS JsonLexer

CONSTANTS
  IntegerValues,  \* values of number_integer_t, of IntBits bits, that occur
  UnsignedValues, \* and of number_unsigned_t
  DigitTexts,     \* digits that grisu2 may give for a double that is not 0,
  Exponents10,    \* and the power of ten that they count
  NumberBuffer    \* number_buffer.size(), 64 in the code

ASSUME IntegersAssumption ==
  /\ IntegerValues \subseteq -(2 ^ (IntBits - 1)) .. (2 ^ (IntBits - 1)) - 1
  /\ UnsignedValues \subseteq 0 .. (2 ^ IntBits) - 1

(* Arithmetic of powers of two, which the provers do not know; and a       *)
(* width that holds the exponent of a double.                              *)
ASSUME WidthAssumption ==
  /\ 2 ^ (IntBits - 1) \in Nat \ {0} /\ 2 ^ IntBits = 2 * 2 ^ (IntBits - 1)
  /\ 1000 <= 2 ^ IntBits

(* Grisu2 gives max_digits10 digits, 17, at most, none of them a leading   *)
(* zero, and an exponent as json.hpp:17837-17838 assert.                   *)
ASSUME DigitsAssumption ==
  /\ \A digits \in DigitTexts :
       digits \in Seq(48 .. 57) /\ Len(digits) \in 1 .. 17 /\ digits[1] # 48
  /\ Exponents10 \subseteq Int
  /\ \A digits \in DigitTexts, e \in Exponents10 : Len(digits) + e - 1 \in -999 .. 999

IntegerNumbers ==
  {[type |-> "integer", value |-> x] : x \in IntegerValues} \cup
  {[type |-> "unsigned", value |-> x] : x \in UnsignedValues}

FloatNumbers ==
  [type : {"float"}, signbit : BOOLEAN, digits : DigitTexts, exponent : Exponents10]
    \cup [type : {"float"}, signbit : BOOLEAN, digits : {<<>>}, exponent : {0}]

VARIABLES
  number,           \* what is dumped
  abs_value,        \* what is left of it
  buffer_ptr,       \* where in number_buffer the last digit was put
  number_buffer,    \* Unset where nothing was put for this number
  written           \* what o has been given, <<>> before

numberVars == <<number, abs_value, buffer_ptr, number_buffer, written>>

Unset == -1
negative == number.type = "integer" /\ number.value < 0
spent == IF negative THEN 1 ELSE 0

(***************************************************************************)
(* dump_integer.                                                           *)
(***************************************************************************)
remove_sign(x) == ((-(x + 1)) % (2 ^ IntBits)) + 1

count_digits[x \in Nat] ==
  IF x < 10 THEN 1 ELSE IF x < 100 THEN 2 ELSE IF x < 1000 THEN 3
  ELSE IF x < 10000 THEN 4 ELSE 4 + count_digits[x \div 10000]

(* json.hpp:18769 and 18024: as the code asserts, the longest integer fits *)
(* and leaves a byte; a float needs six bytes more than its digits, and    *)
(* one for its sign.                                                       *)
ASSUME NumberBufferAssumption ==
  /\ NumberBuffer \in Nat /\ 1 + 17 + 6 <= NumberBuffer
  /\ 1 + count_digits[(2 ^ IntBits) - 1] < NumberBuffer - 1

DumpZero ==
  /\ number.type # "float" /\ number.value = 0 /\ written = <<>>
  /\ written' = <<48>>
  /\ UNCHANGED <<number, abs_value, buffer_ptr, number_buffer>>

DumpInteger ==
  /\ number.type # "float" /\ number.value # 0 /\ buffer_ptr = Unset
  /\ abs_value' = IF negative THEN remove_sign(number.value) ELSE number.value
  /\ buffer_ptr' = spent + count_digits[abs_value']
  /\ number_buffer' = IF negative THEN [number_buffer EXCEPT ![0] = Minus] ELSE number_buffer
  /\ UNCHANGED <<number, written>>

(* Two digits at buffer_ptr - 2, or one before it. *)
Pair(n) ==
  /\ number_buffer' = [number_buffer EXCEPT ![buffer_ptr - 2] = 48 + n \div 10,
                                            ![buffer_ptr - 1] = 48 + (n % 10)]
  /\ buffer_ptr' = buffer_ptr - 2

Single(n) ==
  /\ number_buffer' = [number_buffer EXCEPT ![buffer_ptr - 1] = 48 + n]
  /\ buffer_ptr' = buffer_ptr - 1

DumpPair ==
  /\ buffer_ptr # Unset /\ written = <<>> /\ abs_value >= 100
  /\ Pair(abs_value % 100) /\ abs_value' = abs_value \div 100
  /\ UNCHANGED <<number, written>>

(* Mutant: the last two digits are written one at a time, so one is lost.  *)
DumpLastSingle ==
  /\ buffer_ptr # Unset /\ written = <<>> /\ abs_value < 100
  /\ Single(abs_value % 10)
  /\ written' = [i \in 1 .. spent + count_digits[IF negative THEN remove_sign(number.value)
                                                 ELSE number.value] |-> number_buffer'[i - 1]]
  /\ UNCHANGED <<number, abs_value>>

DumpLast ==
  /\ buffer_ptr # Unset /\ written = <<>> /\ abs_value < 100
  /\ IF abs_value >= 10 THEN Pair(abs_value) ELSE Single(abs_value)
  /\ written' = [i \in 1 .. spent + count_digits[IF negative THEN remove_sign(number.value)
                                                 ELSE number.value] |-> number_buffer'[i - 1]]
  /\ UNCHANGED <<number, abs_value>>

(***************************************************************************)
(* to_chars: the digits with a point, or with an exponent.                 *)
(***************************************************************************)
kMinExp == -4

(* Mutant: fixed notation for every large double.                          *)
kMaxExpWide == 308

(* digits10 of a double. *)
kMaxExp == 15

Zeros(n) == [i \in 1 .. n |-> 48]
Decimal(k) == 48 + (k % 10)

append_exponent(e) ==
  LET k == IF e < 0 THEN -e ELSE e IN
  <<IF e < 0 THEN Minus ELSE Plus>> \o
  (IF k < 100 THEN <<Decimal(k \div 10), Decimal(k)>>
   ELSE <<48 + k \div 100, Decimal(k \div 10), Decimal(k)>>)

(* Mutant: a whole number is written without .0.                           *)
format_bufferWhole(buf, decimal_exponent) ==
  LET k == Len(buf)
      n == k + decimal_exponent
  IN  CASE k <= n /\ n <= kMaxExp -> buf \o Zeros(n - k)
        [] 0 < n /\ n < k /\ n <= kMaxExp ->
             SubSeq(buf, 1, n) \o <<Dot>> \o SubSeq(buf, n + 1, k)
        [] kMinExp < n /\ n <= 0 -> <<48, Dot>> \o Zeros(-n) \o buf
        [] OTHER -> SubSeq(buf, 1, 1) \o (IF k = 1 THEN <<>> ELSE <<Dot>> \o Tail(buf))
                      \o <<101>> \o append_exponent(n - 1)

format_buffer(buf, decimal_exponent) ==
  LET k == Len(buf)
      n == k + decimal_exponent
  IN  CASE k <= n /\ n <= kMaxExp -> buf \o Zeros(n - k) \o <<Dot, 48>>
        [] 0 < n /\ n < k /\ n <= kMaxExp ->
             SubSeq(buf, 1, n) \o <<Dot>> \o SubSeq(buf, n + 1, k)
        [] kMinExp < n /\ n <= 0 -> <<48, Dot>> \o Zeros(-n) \o buf
        [] OTHER -> SubSeq(buf, 1, 1) \o (IF k = 1 THEN <<>> ELSE <<Dot>> \o Tail(buf))
                      \o <<101>> \o append_exponent(n - 1)

DumpFloat ==
  /\ number.type = "float" /\ written = <<>>
  /\ written' = (IF number.signbit THEN <<Minus>> ELSE <<>>) \o
                (IF number.digits = <<>> THEN <<48, Dot, 48>>
                 ELSE format_buffer(number.digits, number.exponent))
  /\ UNCHANGED <<number, abs_value, buffer_ptr, number_buffer>>

NumberNext == DumpZero \/ DumpInteger \/ DumpPair \/ DumpLast \/ DumpFloat

NumberInit ==
  /\ number \in IntegerNumbers \cup FloatNumbers
  /\ abs_value = 0 /\ buffer_ptr = Unset /\ written = <<>>
  /\ number_buffer = [i \in 0 .. NumberBuffer - 1 |-> Unset]

(***************************************************************************)
(* Properties.                                                             *)
(***************************************************************************)
(* json.hpp:18769 and 18017-18019: number_buffer is large enough, and the  *)
(* digits are put into it from the end that count_digits foresaw to just   *)
(* after the sign, each place once.                                        *)
NumberPlaced ==
  /\ Len(written) <= NumberBuffer
  /\ buffer_ptr # Unset =>
       /\ spent <= buffer_ptr /\ buffer_ptr < NumberBuffer
       /\ \A i \in spent .. buffer_ptr - 1 : number_buffer[i] = Unset
       /\ written # <<>> => buffer_ptr = spent /\ Unset \notin Range(written)
============================================================================
