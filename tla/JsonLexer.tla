----------------------------- MODULE JsonLexer -----------------------------
(***************************************************************************)
(* nlohmann's JSON lexer (src/include/json/json.hpp) as the parser of the  *)
(* client uses it: bytes of a std::string, comments not ignored.  One step *)
(* reads one byte; scan is called until it fails or meets the end.         *)
(***************************************************************************)
EXTENDS SequencesExt, Integers, TLC

CONSTANTS
  Sources,      \* what the input may be: either free, its bytes taken from
                \* .bytes, those between tokens and the first of a token from
                \* .openers, up to .length of them, of which a string has
                \* .buffer at most; or a given .text
  IntBits       \* width of the integers (64 in the code)

ASSUME SourcesAssumption ==
  \A s \in Sources : "bytes" \in DOMAIN s => s.bytes \subseteq 0 .. 255
                                            /\ s.openers \subseteq s.bytes

Eof == -1
Nul == 0
NewLine == 10
Quote == 34
Plus == 43
Minus == 45
Dot == 46
Backslash == 92

Digit == 48 .. 57
White == {32, 9, NewLine, 13}

VARIABLES
  source,       \* one of Sources
  input,        \* what ia.get_character() has returned
  current, next_unget, position,
  token_buffer,
  number_type,
  at,           \* where in scan the lexer is
  todo,         \* of a literal, an escape or a character: what is (to be) read
  codepoint1,   \* the high surrogate of a pair, or 0
  tokens        \* what the calls of scan have returned

scratch == <<token_buffer, number_type, todo, codepoint1>>
vars == <<source, input, current, next_unget, position, scratch, at, tokens>>

(***************************************************************************)
(* get and unget.                                                          *)
(***************************************************************************)
FreeBytes ==
  IF Len(input) >= source.length THEN {Eof}
  ELSE IF at = "string" /\ Len(token_buffer) >= source.buffer THEN {Quote, Eof}
  ELSE (IF at \in {"bom", "white"} THEN source.openers ELSE source.bytes) \cup {Eof}

(* What get returns: the byte that was ungot, or another. *)
NextBytes ==
  IF next_unget THEN {current}
  ELSE IF "text" \notin DOMAIN source THEN FreeBytes
  ELSE {IF Len(input) < Len(source.text) THEN source.text[Len(input) + 1] ELSE Eof}

After(p, c) ==
  [chars_read_total |-> p.chars_read_total + 1,
   chars_read_current_line |-> IF c = NewLine THEN 0 ELSE p.chars_read_current_line + 1,
   lines_read |-> IF c = NewLine THEN p.lines_read + 1 ELSE p.lines_read]

(* Mutant: the line count stays when a newline is ungot.                   *)
BeforeKeepsLine(p) ==
  [chars_read_total |-> p.chars_read_total - 1,
   chars_read_current_line |->
     IF p.chars_read_current_line = 0 THEN 0 ELSE p.chars_read_current_line - 1,
   lines_read |-> p.lines_read]

Before(p) ==
  [chars_read_total |-> p.chars_read_total - 1,
   chars_read_current_line |->
     IF p.chars_read_current_line = 0 THEN 0 ELSE p.chars_read_current_line - 1,
   lines_read |->
     IF p.chars_read_current_line = 0 /\ p.lines_read > 0 THEN p.lines_read - 1
     ELSE p.lines_read]

Read(c) ==
  /\ c \in NextBytes
  /\ input' = IF next_unget THEN input ELSE Append(input, c)
  /\ current' = c
  /\ UNCHANGED source

Get(c) == Read(c) /\ next_unget' = FALSE /\ position' = After(position, c)

GetUnget(c) ==
  Read(c) /\ next_unget' = TRUE /\ position' = Before(After(position, c))

add(bytes) == token_buffer' = token_buffer \o bytes

(***************************************************************************)
(* The end of a call of scan.                                              *)
(***************************************************************************)
Token(type, text) ==
  /\ tokens' = Append(tokens, [type |-> type, text |-> text])
  /\ at' = "idle"

(* A token of which only the type matters. *)
Mark(type) == [type |-> type, text |-> <<>>]

Stop(type) ==
  /\ tokens' = Append(tokens, Mark(type))
  /\ at' = "stopped"
  /\ UNCHANGED scratch

Error == Stop("parse_error")

(***************************************************************************)
(* scan: byte order mark, white space, and which token it is.              *)
(***************************************************************************)
Scan ==
  /\ at = "idle"
  /\ at' = IF position.chars_read_total = 0 THEN "bom" ELSE "white"
  /\ UNCHANGED <<source, input, current, next_unget, position, scratch, tokens>>

skip_bom ==
  \E c \in NextBytes :
    \/ /\ at = "bom" /\ c # 239
       /\ GetUnget(c)
       /\ at' = "white" /\ UNCHANGED <<scratch, tokens>>
    \/ /\ Get(c)
       /\ \/ at = "bom" /\ c = 239 /\ at' = "bom2" /\ UNCHANGED <<scratch, tokens>>
          \/ at = "bom2" /\ c = 187 /\ at' = "bom3" /\ UNCHANGED <<scratch, tokens>>
          \/ at = "bom3" /\ c = 191 /\ at' = "white" /\ UNCHANGED <<scratch, tokens>>
          \/ at = "bom2" /\ c # 187 /\ Error
          \/ at = "bom3" /\ c # 191 /\ Error

Structure ==
  [c \in {44, 58, 91, 93, 123, 125} |->
     CASE c = 91 -> "begin_array" [] c = 93 -> "end_array"
       [] c = 123 -> "begin_object" [] c = 125 -> "end_object"
       [] c = 58 -> "name_separator" [] c = 44 -> "value_separator"]

(* What must follow the first letter of true, false and null. *)
Literals ==
  [c \in {102, 110, 116} |->
     CASE c = 116 -> <<114, 117, 101>> [] c = 102 -> <<97, 108, 115, 101>>
       [] c = 110 -> <<117, 108, 108>>]

LiteralType ==
  [c \in {102, 110, 116} |->
     CASE c = 116 -> "literal_true" [] c = 102 -> "literal_false" [] c = 110 -> "literal_null"]

skip_whitespace ==
  \E c \in NextBytes \cap White :
    at = "white" /\ Get(c) /\ UNCHANGED <<at, scratch, tokens>>

Dispatch ==
  \E c \in NextBytes \ White :
    /\ at = "white" /\ Get(c)
    /\ \/ /\ c \in DOMAIN Structure
          /\ Token(Structure[c], <<>>) /\ UNCHANGED scratch
       \/ /\ c \in DOMAIN Literals
          /\ at' = "literal" /\ todo' = Literals[c] /\ number_type' = LiteralType[c]
          /\ UNCHANGED <<token_buffer, codepoint1, tokens>>
       \/ /\ c = Quote
          /\ at' = "string" /\ token_buffer' = <<>>
          /\ UNCHANGED <<number_type, todo, codepoint1, tokens>>
       \/ /\ c \in Digit \cup {Minus}
          /\ at' = CASE c = Minus -> "minus" [] c = 48 -> "zero" [] OTHER -> "any1"
          /\ number_type' = IF c = Minus THEN "value_integer" ELSE "value_unsigned"
          /\ token_buffer' = <<c>>
          /\ UNCHANGED <<todo, codepoint1, tokens>>
       \/ c \in {Nul, Eof} /\ Stop("end_of_input")
       \/ /\ c \notin DOMAIN Structure \cup DOMAIN Literals \cup Digit
                        \cup {Quote, Minus, Nul, Eof}
          /\ Error

scan_literal ==
  \E c \in NextBytes :
    /\ at = "literal" /\ Get(c)
    /\ \/ /\ c = Head(todo) /\ Len(todo) > 1
          /\ todo' = Tail(todo)
          /\ UNCHANGED <<at, token_buffer, number_type, codepoint1, tokens>>
       \/ c = Head(todo) /\ Len(todo) = 1 /\ Token(number_type, <<>>) /\ UNCHANGED scratch
       \/ c # Head(todo) /\ Error

(***************************************************************************)
(* scan_number, the automaton of its labels.                               *)
(***************************************************************************)
Exponents == {69, 101}

IntegerArcs ==
  {<<"minus", {48}, "zero">>, <<"minus", 49 .. 57, "any1">>,
   <<"zero", {Dot}, "decimal1">>, <<"zero", Exponents, "exponent">>,
   <<"any1", Digit, "any1">>, <<"any1", {Dot}, "decimal1">>,
   <<"any1", Exponents, "exponent">>}

FractionArcs ==
  {<<"decimal1", Digit, "decimal2">>,
   <<"decimal2", Digit, "decimal2">>, <<"decimal2", Exponents, "exponent">>}

ExponentArcs ==
  {<<"exponent", {Plus, Minus}, "sign">>, <<"exponent", Digit, "any2">>,
   <<"sign", Digit, "any2">>, <<"any2", Digit, "any2">>}

Arcs == IntegerArcs \cup FractionArcs \cup ExponentArcs

Complete == {"zero", "any1", "decimal2", "any2"}

(* strtoull and strtoll; beyond 2 ^ IntBits only that it is is kept. *)
DigitsValue(ds) ==
  LET value[i \in 0 .. Len(ds)] ==
        IF i = 0 THEN 0
        ELSE IF value[i - 1] > 2 ^ IntBits THEN value[i - 1]
        ELSE 10 * value[i - 1] + (ds[i] - 48)
  IN  value[Len(ds)]

(* What does not fit is read as a float. *)
NumberType(type, text) ==
  LET magnitude == DigitsValue(IF text[1] = Minus THEN Tail(text) ELSE text) IN
  IF \/ type = "value_unsigned" /\ magnitude < 2 ^ IntBits
     \/ type = "value_integer" /\ magnitude <= 2 ^ (IntBits - 1)
  THEN type ELSE "value_float"

scan_number ==
  \E c \in NextBytes :
    \/ \E arc \in Arcs :
         /\ at = arc[1] /\ c \in arc[2] /\ Get(c)
         /\ at' = arc[3] /\ add(<<c>>)
         /\ number_type' = IF arc[3] \in {"decimal1", "exponent"} THEN "value_float"
                           ELSE number_type
         /\ UNCHANGED <<todo, codepoint1, tokens>>
    \/ /\ ~\E arc \in Arcs : at = arc[1] /\ c \in arc[2]
       /\ \/ /\ at \in Complete /\ GetUnget(c)
             /\ Token(NumberType(number_type, token_buffer), token_buffer)
             /\ UNCHANGED scratch
          \/ at \in {"minus", "decimal1", "exponent", "sign"} /\ Get(c) /\ Error

(***************************************************************************)
(* scan_string.                                                            *)
(***************************************************************************)
(* After a backslash: what each of " \ / b f n r t stands for. *)
Escapes ==
  [c \in {Quote, Backslash, 47, 98, 102, 110, 114, 116} |->
     CASE c = 98 -> 8 [] c = 102 -> 12 [] c = 110 -> NewLine [] c = 114 -> 13 [] c = 116 -> 9
       [] OTHER -> c]

HexValue == [c \in Digit \cup 65 .. 70 \cup 97 .. 102 |->
               IF c \in Digit THEN c - 48 ELSE IF c < 97 THEN c - 55 ELSE c - 87]

get_codepoint(digits) ==
  4096 * HexValue[digits[1]] + 256 * HexValue[digits[2]] + 16 * HexValue[digits[3]]
    + HexValue[digits[4]]

HighSurrogate == 55296 .. 56319     \* D800 .. DBFF
LowSurrogate == 56320 .. 57343      \* DC00 .. DFFF

(* The bytes of a code point. *)
Utf8(cp) ==
  LET tail(n) == 128 + ((cp \div n) % 64) IN
  IF cp < 128 THEN <<cp>>
  ELSE IF cp < 2048 THEN <<192 + cp \div 64, tail(1)>>
  ELSE IF cp < 65536 THEN <<224 + cp \div 4096, tail(64), tail(1)>>
  ELSE <<240 + cp \div 262144, tail(4096), tail(64), tail(1)>>

(* The ranges of the bytes that follow a first byte; none for an ill-formed one. *)
Cont == <<128, 191>>

(* Mutant: surrogates are let through.                                     *)
FollowSurrogates(b) ==
  CASE b \in 194 .. 223 -> <<Cont>>
    [] b = 224 -> <<<<160, 191>>, Cont>>
    [] b \in 225 .. 239 -> <<Cont, Cont>>
    [] b = 240 -> <<<<144, 191>>, Cont, Cont>>
    [] b \in 241 .. 243 -> <<Cont, Cont, Cont>>
    [] b = 244 -> <<<<128, 143>>, Cont, Cont>>
    [] OTHER -> <<>>

Follow(b) ==
  IF b \in 194 .. 223 THEN <<Cont>>
  ELSE IF b = 224 THEN <<<<160, 191>>, Cont>>
  ELSE IF b \in 225 .. 236 \cup {238, 239} THEN <<Cont, Cont>>
  ELSE IF b = 237 THEN <<<<128, 159>>, Cont>>
  ELSE IF b = 240 THEN <<<<144, 191>>, Cont, Cont>>
  ELSE IF b \in 241 .. 243 THEN <<Cont, Cont, Cont>>
  ELSE IF b = 244 THEN <<<<128, 143>>, Cont, Cont>>
  ELSE <<>>

Go(place) == at' = place /\ UNCHANGED <<number_type, tokens>>

(* What a text may hold as it is, and what it may not hold at all. *)
Ordinary == (32 .. 127) \ {Quote, Backslash}
Control == 0 .. 31

scan_string ==
  \E c \in NextBytes :
    /\ at = "string" /\ Get(c)
    /\ \/ c = Quote /\ Token("value_string", token_buffer) /\ UNCHANGED scratch
       \/ c = Backslash /\ Go("escape") /\ UNCHANGED <<token_buffer, todo, codepoint1>>
       \/ /\ c \in Ordinary
          /\ add(<<c>>) /\ Go("string") /\ UNCHANGED <<todo, codepoint1>>
       \/ /\ Follow(c) # <<>>
          /\ add(<<c>>) /\ todo' = Follow(c) /\ Go("range") /\ UNCHANGED codepoint1
       \/ c \in Control \cup {Eof} /\ Error
       \/ c > 127 /\ Follow(c) = <<>> /\ Error

next_byte_in_range ==
  \E c \in NextBytes :
    /\ at = "range" /\ Get(c)
    /\ \/ /\ todo[1][1] <= c /\ c <= todo[1][2]
          /\ add(<<c>>) /\ todo' = Tail(todo)
          /\ Go(IF Len(todo) = 1 THEN "string" ELSE "range") /\ UNCHANGED codepoint1
       \/ (c < todo[1][1] \/ todo[1][2] < c) /\ Error

Escape ==
  \E c \in NextBytes :
    /\ at = "escape" /\ Get(c)
    /\ \/ /\ c \in DOMAIN Escapes
          /\ add(<<Escapes[c]>>) /\ Go("string") /\ UNCHANGED <<todo, codepoint1>>
       \/ /\ c = 117
          /\ todo' = <<>> /\ codepoint1' = 0 /\ Go("hex") /\ UNCHANGED token_buffer
       \/ c \notin DOMAIN Escapes \cup {117} /\ Error

(* Four digits have been read: a code point, or half of one. *)
CodepointRead(cp) ==
  \/ /\ codepoint1 = 0 /\ cp \in HighSurrogate
     /\ codepoint1' = cp /\ Go("low1") /\ UNCHANGED <<token_buffer, todo>>
  \/ /\ codepoint1 = 0 /\ cp \notin HighSurrogate \cup LowSurrogate
     /\ add(Utf8(cp)) /\ Go("string") /\ UNCHANGED <<todo, codepoint1>>
  \/ /\ codepoint1 # 0 /\ cp \in LowSurrogate
     /\ add(Utf8(codepoint1 * 1024 + cp - 56613888))
     /\ Go("string") /\ UNCHANGED <<todo, codepoint1>>
  \/ (codepoint1 = 0 <=> cp \in LowSurrogate) /\ Error

EscapeHex ==
  \E c \in NextBytes :
    /\ at = "hex" /\ Get(c)
    /\ \/ /\ c \in DOMAIN HexValue /\ Len(todo) < 3
          /\ todo' = Append(todo, c) /\ Go("hex") /\ UNCHANGED <<token_buffer, codepoint1>>
       \/ /\ c \in DOMAIN HexValue /\ Len(todo) = 3
          /\ CodepointRead(get_codepoint(Append(todo, c)))
       \/ c \notin DOMAIN HexValue /\ Error

(* A high surrogate needs \u again. *)
EscapeLow ==
  \E c \in NextBytes :
    /\ at \in {"low1", "low2"} /\ Get(c)
    /\ \/ /\ at = "low1" /\ c = Backslash
          /\ Go("low2") /\ UNCHANGED <<token_buffer, todo, codepoint1>>
       \/ /\ at = "low2" /\ c = 117
          /\ todo' = <<>> /\ Go("hex") /\ UNCHANGED <<token_buffer, codepoint1>>
       \/ (IF at = "low1" THEN c # Backslash ELSE c # 117) /\ Error

LexerInit ==
  /\ input = <<>> /\ current = Eof /\ next_unget = FALSE
  /\ position = [chars_read_total |-> 0, chars_read_current_line |-> 0, lines_read |-> 0]
  /\ token_buffer = <<>> /\ number_type = "" /\ todo = <<>> /\ codepoint1 = 0
  /\ at = "idle" /\ tokens = <<>>

LexerNext ==
  \/ Scan \/ skip_bom \/ skip_whitespace \/ Dispatch \/ scan_literal \/ scan_number
  \/ scan_string \/ next_byte_in_range \/ Escape \/ EscapeHex \/ EscapeLow

(***************************************************************************)
(* Properties.                                                             *)
(***************************************************************************)
Consumed == IF next_unget THEN Front(input) ELSE input
LinesIn(s) == Cardinality({i \in DOMAIN s : s[i] = NewLine})
ColumnOf(s) == Cardinality({i \in DOMAIN s : \A j \in i .. Len(s) : s[j] # NewLine})

(* The position (json.hpp:3035) that the parser's messages give, by line   *)
(* and column: unget undoes what get did.  Only the column in front of an  *)
(* end of line that was put back is not restored (:8753 takes back the     *)
(* line): it is 0 until that end of line is read again.                    *)
PositionExact ==
  /\ position.chars_read_total = Len(Consumed)
  /\ position.lines_read = LinesIn(Consumed)
  /\ position.chars_read_current_line =
       IF next_unget /\ current = NewLine THEN 0 ELSE ColumnOf(Consumed)

(* Why: a byte that was ungot is the last one of the input, and what unget *)
(* takes back is what the get before it has counted.                       *)
LexerInv ==
  /\ input \in Seq(Range(input))
  /\ next_unget \in BOOLEAN /\ (next_unget => input # <<>> /\ Last(input) = current)
  /\ position \in [chars_read_total : Nat, chars_read_current_line : Nat, lines_read : Nat]
  /\ PositionExact
============================================================================
