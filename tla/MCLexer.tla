------------------------------ MODULE MCLexer ------------------------------
(***************************************************************************)
(* The tokens of JSON (RFC 8259, sections 2, 6 and 7; UTF-8 as in RFC      *)
(* 3629) as texts and what they denote, against which the lexer is checked. *)
(***************************************************************************)
EXTENDS JsonLexer, UnicodeText

Splits(s) == {<<SubSeq(s, 1, i), SubSeq(s, i + 1, Len(s))>> : i \in 0 .. Len(s)}

(***************************************************************************)
(* Numbers: [ minus ] int [ frac ] [ exp ].                                *)
(***************************************************************************)
Digits(s) == s # <<>> /\ \A i \in DOMAIN s : s[i] \in Digit
IsInt(s) == Digits(s) /\ (s[1] = 48 => Len(s) = 1)
IsFrac(s) == s = <<>> \/ (s[1] = Dot /\ Digits(Tail(s)))
IsExp(s) ==
  s = <<>> \/ /\ s[1] \in {69, 101} /\ Len(s) > 1
              /\ Digits(IF s[2] \in {Plus, Minus} THEN SubSeq(s, 3, Len(s)) ELSE Tail(s))

Unsigned(s) == IF s # <<>> /\ s[1] = Minus THEN Tail(s) ELSE s

IsNumber(s) ==
  \E p \in Splits(Unsigned(s)) : \E q \in Splits(p[2]) :
    IsInt(p[1]) /\ IsFrac(q[1]) /\ IsExp(q[2])

(* The value, or some number beyond 2 ^ IntBits. *)
RECURSIVE Ten(_)
Ten(s) ==
  IF s = <<>> THEN 0
  ELSE LET n == Ten(Front(s)) IN IF n > 2 ^ IntBits THEN n ELSE 10 * n + (Last(s) - 48)

(* An integer that the code's types can hold is exact. *)
Fits(s) ==
  /\ IsInt(Unsigned(s))
  /\ IF s[1] = Minus THEN Ten(Tail(s)) \in 0 .. 2 ^ (IntBits - 1)
     ELSE Ten(s) \in 0 .. (2 ^ IntBits) - 1

NumberKind(s) ==
  IF ~Fits(s) THEN "value_float"
  ELSE IF s[1] = Minus THEN "value_integer" ELSE "value_unsigned"

(***************************************************************************)
(* Characters.                                                             *)
(***************************************************************************)
(* 0 to 9, and A to F or a to f. *)
HexDigits == <<48, 49, 50, 51, 52, 53, 54, 55, 56, 57, 65, 66, 67, 68, 69, 70>>
IsHex(c) == c \in Range(HexDigits) \cup 97 .. 102
HexDigit(c) == (CHOOSE i \in 1 .. 16 : HexDigits[i] \in {c, c - 32}) - 1

Hex(s) ==
  IF \A i \in DOMAIN s : IsHex(s[i])
  THEN HexDigit(s[1]) * 4096 + HexDigit(s[2]) * 256 + HexDigit(s[3]) * 16 + HexDigit(s[4])
  ELSE -1

(* The code point that a text of one character denotes in a string, or -1. *)
CharacterOf(s) ==
  IF s[1] = Backslash THEN
    CASE Len(s) = 2 /\ s[2] \in {34, 47, 92} -> s[2]
      [] Len(s) = 2 /\ s[2] = 98 -> 8
      [] Len(s) = 2 /\ s[2] = 102 -> 12
      [] Len(s) = 2 /\ s[2] = 110 -> 10
      [] Len(s) = 2 /\ s[2] = 114 -> 13
      [] Len(s) = 2 /\ s[2] = 116 -> 9
      [] Len(s) = 6 /\ s[2] = 117 /\ IsScalar(Hex(SubSeq(s, 3, 6))) -> Hex(SubSeq(s, 3, 6))
      [] Len(s) = 12 /\ s[2] = 117 /\ s[7] = Backslash /\ s[8] = 117 ->
           LET high == Hex(SubSeq(s, 3, 6))
               low == Hex(SubSeq(s, 9, 12))
           IN  IF high \in 55296 .. 56319 /\ low \in 56320 .. 57343
               THEN 65536 + (high - 55296) * 1024 + (low - 56320) ELSE -1
      [] OTHER -> -1
  ELSE IF IsUtf8(s) /\ s[1] >= 32 /\ s # <<Quote>> THEN Carried(s)
  ELSE -1

(* The code points of the inside of a string; none starts another one. *)
RECURSIVE CharactersOf(_)
CharactersOf(s) ==
  IF s = <<>> THEN {<<>>}
  ELSE UNION {{<<CharacterOf(SubSeq(s, 1, i))>> \o rest :
                 rest \in CharactersOf(SubSeq(s, i + 1, Len(s)))} :
               i \in {j \in (1 .. 4 \cup {6, 12}) \cap 1 .. Len(s) :
                        CharacterOf(SubSeq(s, 1, j)) # -1}}

(* The code points that a buffer of UTF-8 carries. *)
RECURSIVE CodePoints(_)
CodePoints(s) ==
  IF s = <<>> THEN {<<>>}
  ELSE UNION {{<<Carried(SubSeq(s, 1, i))>> \o rest :
                 rest \in CodePoints(SubSeq(s, i + 1, Len(s)))} :
               i \in {j \in 1 .. 4 : j <= Len(s) /\ IsUtf8(SubSeq(s, 1, j))}}

(***************************************************************************)
(* Tokens.  A string's text is compared by its code points.                *)
(***************************************************************************)
Words == {[type |-> "literal_true", text |-> <<116, 114, 117, 101>>],
          [type |-> "literal_false", text |-> <<102, 97, 108, 115, 101>>],
          [type |-> "literal_null", text |-> <<110, 117, 108, 108>>]}

Denotes(s) ==
  IF s = <<>> THEN {}
  ELSE IF Len(s) = 1 /\ s[1] \in DOMAIN Structure THEN {Mark(Structure[s[1]])}
  ELSE IF \E w \in Words : w.text = s THEN {Mark(w.type) : w \in {x \in Words : x.text = s}}
  ELSE IF s[1] = Quote /\ Last(s) = Quote /\ Len(s) > 1
    THEN {[type |-> "value_string", text |-> cps] : cps \in CharactersOf(SubSeq(s, 2, Len(s) - 1))}
  ELSE IF IsNumber(s) THEN {[type |-> NumberKind(s), text |-> s]}
  ELSE {}

AsDenoted(token) ==
  IF token.type = "value_string" /\ CodePoints(token.text) # {}
    THEN [token EXCEPT !.text = CHOOSE cps \in CodePoints(token.text) : TRUE]
  ELSE token

RECURSIVE SkipWhite(_)
SkipWhite(s) == IF s # <<>> /\ s[1] \in White THEN SkipWhite(Tail(s)) ELSE s

(* The tokens of a text, each as long as possible, and what is left where  *)
(* there is none.                                                          *)
RECURSIVE Tokens(_)
Tokens(s) ==
  LET rest == SkipWhite(s)
      ends == {i \in 1 .. Len(rest) : Denotes(SubSeq(rest, 1, i)) # {}}
      end == CHOOSE i \in ends : \A j \in ends : j <= i
      more == Tokens(SubSeq(rest, end + 1, Len(rest)))
  IN  IF ends = {} THEN [tokens |-> <<>>, rest |-> rest]
      ELSE [tokens |-> <<CHOOSE t \in Denotes(SubSeq(rest, 1, end)) : TRUE>> \o more.tokens,
            rest |-> more.rest]

(* A text can be the beginning of a token. *)
Endings ==
  LET conts == {128, 144, 159, 160, 191}
      inString == {<<>>, <<110>>, <<48>>, <<48, 48>>, <<48, 48, 48>>, <<48, 48, 48, 48>>,
                   <<117, 48, 48, 48, 48>>}
                   \cup {<<a>> : a \in conts} \cup {<<a, b>> : a, b \in conts}
                   \cup {<<a, b, c>> : a, b, c \in conts}
      low == <<Backslash, 117, 68, 67, 48, 48>>
  IN  {<<48>>} \cup {x \o <<Quote>> : x \in inString}
        \cup {x \o SubSeq(low, i, 6) \o <<Quote>> : i \in 2 .. 6, x \in {<<>>}}
        \cup {x \o low \o <<Quote>> : x \in {<<>>, <<48>>, <<48, 48>>, <<48, 48, 48>>}}

Viable(s) ==
  \/ s = <<>>
  \/ \E w \in Words : IsPrefix(s, w.text)
  \/ s[1] \in Digit \cup {Minus, Quote} /\ \E x \in Endings : Denotes(s \o x) # {}

Bom == <<239, 187, 191>>
Text ==
  LET bytes == SelectSeq(Consumed, LAMBDA c : c # Eof)
  IN  IF IsPrefix(Bom, bytes) THEN SubSeq(bytes, 4, Len(bytes)) ELSE bytes

(* What scan has returned are the tokens of what it has consumed, with the *)
(* values they denote; it ends at the end of the text or at a NUL, or it   *)
(* fails at the first byte that no token of JSON could have there, or at   *)
(* the end within a token (as 1. or 1e).                                   *)
LexerCorrect ==
  at \in {"idle", "stopped"} =>
    LET found == Tokens(Text)
        returned == SelectSeq(tokens, LAMBDA t : t.type \notin {"parse_error", "end_of_input"})
        denoted == [i \in DOMAIN returned |-> AsDenoted(returned[i])]
    IN  CASE at = "idle" -> denoted = found.tokens /\ found.rest = <<>>
          [] Last(tokens).type = "end_of_input" ->
               denoted = found.tokens /\ found.rest \in {<<>>, <<Nul>>}
          [] OTHER ->
               \/ /\ denoted = found.tokens /\ found.rest # <<>>
                  /\ current = Eof \/ ~Viable(found.rest)
               \/ /\ found.tokens # <<>> /\ denoted = Front(found.tokens)
                  /\ found.rest # <<>>
                  /\ current = Eof \/ ~Viable(Last(found.tokens).text \o found.rest)
============================================================================
