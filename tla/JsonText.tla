----------------------------- MODULE JsonText ------------------------------
(***************************************************************************)
(* Texts that the lexer reads: any that come from outside, and those that  *)
(* dump() has written of a string or a number, as when the client puts a   *)
(* part of one answer into a later request, which the mock servers read.   *)
(***************************************************************************)
EXTENDS JsonSerializer, JsonNumbers

textVars == <<vars, dumpVars, numberVars>>

Nothing == [text |-> <<>>]
NoString ==
  /\ text = <<>> /\ state = UTF8_ACCEPT /\ codepoint = 0
  /\ string_buffer = <<>> /\ most = 0 /\ output = <<>> /\ dumped = "none"
NoNumber ==
  /\ number = [type |-> "none"]
  /\ abs_value = 0 /\ buffer_ptr = Unset /\ number_buffer = <<>> /\ written = <<>>

TextInit ==
  /\ LexerInit
  /\ \/ source \in Sources /\ NoString /\ NoNumber
     \/ source = Nothing /\ DumpInit /\ NoNumber
     \/ source = Nothing /\ NoString /\ NumberInit

(* What has been written becomes the input, a string between its quotes.   *)
Give(bytes) == source' = [text |-> bytes]

DumpString ==
  /\ DumpNext
  /\ IF dumped' = "done" THEN Give(<<Quote>> \o output' \o <<Quote>>) ELSE UNCHANGED source
  /\ UNCHANGED <<input, current, next_unget, position, scratch, at, tokens, numberVars>>

DumpNumber ==
  /\ source = Nothing /\ number.type # "none" /\ NumberNext
  /\ IF written' # <<>> THEN Give(written') ELSE UNCHANGED source
  /\ UNCHANGED <<input, current, next_unget, position, scratch, at, tokens, dumpVars>>

ReadText == source # Nothing /\ LexerNext /\ UNCHANGED <<dumpVars, numberVars>>

TextNext == DumpString \/ DumpNumber \/ ReadText

TextSpec == TextInit /\ [][TextNext]_textVars

(***************************************************************************)
(* The decimal number that a text denotes, by the grammar of JSON: digits  *)
(* times a power of ten, without the zeros at their ends.                  *)
(***************************************************************************)
Normal(sign, ds, e) ==
  LET places == {i \in DOMAIN ds : ds[i] # 48}
  IN  IF places = {} THEN [signbit |-> sign, digits |-> <<>>, exponent |-> 0]
      ELSE [signbit |-> sign, digits |-> SubSeq(ds, Min(places), Max(places)),
            exponent |-> e + Len(ds) - Max(places)]

LengthBefore(s, marks) ==
  LET places == {i \in DOMAIN s : s[i] \in marks}
  IN  IF places = {} THEN Len(s) ELSE Min(places) - 1

Power(s) ==
  IF s = <<>> THEN 0
  ELSE IF s[1] = Minus THEN -DigitsValue(Tail(s))
  ELSE IF s[1] = Plus THEN DigitsValue(Tail(s))
  ELSE DigitsValue(s)

DecimalOf(numeral) ==
  LET sign == numeral[1] = Minus
      s == IF sign THEN Tail(numeral) ELSE numeral
      mantissa == SubSeq(s, 1, LengthBefore(s, Exponents))
      power == Power(SubSeq(s, Len(mantissa) + 2, Len(s)))
      whole == SubSeq(mantissa, 1, LengthBefore(mantissa, {Dot}))
      fraction == SubSeq(mantissa, Len(whole) + 2, Len(mantissa))
  IN  Normal(sign, whole \o fraction, power - Len(fraction))

(***************************************************************************)
(* Properties.                                                             *)
(***************************************************************************)
(* The lexer reads what dump wrote as one string, the one that was dumped. *)
ReadsBack ==
  at = "stopped" /\ dumped = "done" =>
    tokens = <<[type |-> "value_string", text |-> text], Mark("end_of_input")>>

TheNumber == Head(tokens)

(* What dump_integer wrote is read as one integer, the same one, although a *)
(* number_integer_t that is not negative comes back as a number_unsigned_t. *)
IntegerReadsBack ==
  at = "stopped" /\ number.type \in {"integer", "unsigned"} =>
    /\ Len(tokens) = 2 /\ tokens[2].type = "end_of_input"
    /\ TheNumber.type = IF negative THEN "value_integer" ELSE "value_unsigned"
    /\ (IF negative THEN -DigitsValue(Tail(TheNumber.text)) ELSE DigitsValue(TheNumber.text))
         = number.value

(* What to_chars wrote is read as a float, never as an integer, and has the *)
(* digits and the power of ten of the double.                              *)
FloatReadsBack ==
  at = "stopped" /\ number.type = "float" =>
    /\ Len(tokens) = 2 /\ tokens[2].type = "end_of_input"
    /\ TheNumber.type = "value_float"
    /\ DecimalOf(TheNumber.text) = Normal(number.signbit, number.digits, number.exponent)

TextInv == DumpInv /\ LexerInv
============================================================================
