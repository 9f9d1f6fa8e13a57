------------------------- MODULE JsonReadBackProofs ------------------------
(***************************************************************************)
(* What dump() writes of a string or of a number, read by the lexer.       *)
(***************************************************************************)
EXTENDS JsonTextProofs

(***************************************************************************)
(* What dump writes for each byte, and where.                              *)
(***************************************************************************)
Enc(b) == IF b < 128 THEN Escaped(b, b) ELSE <<b>>

Lettered == {8, 9, 10, 12, 13, 34, 92}

LEMMA EncPlain ==
  ASSUME NEW b \in 0 .. 255, b >= 128 \/ b \in Ordinary
  PROVE  Enc(b) = <<b>>
  BY DEF Enc, Escaped, Ordinary, Quote, Backslash

LEMMA EncLetter ==
  ASSUME NEW b \in Lettered
  PROVE  \E c \in DOMAIN Escapes : Enc(b) = <<92, c>> /\ Escapes[c] = b /\ c # 117
<1>1. CASE b = 8
  <2>1. 98 \in DOMAIN Escapes /\ Escapes[98] = 8
    BY DEF Escapes
  <2>. QED BY <1>1, <2>1 DEF Enc, Escaped
<1>2. CASE b = 9
  <2>1. 116 \in DOMAIN Escapes /\ Escapes[116] = 9
    BY DEF Escapes
  <2>. QED BY <1>2, <2>1 DEF Enc, Escaped
<1>3. CASE b = 10
  <2>1. 110 \in DOMAIN Escapes /\ Escapes[110] = 10
    BY DEF Escapes, NewLine
  <2>. QED BY <1>3, <2>1 DEF Enc, Escaped
<1>4. CASE b = 12
  <2>1. 102 \in DOMAIN Escapes /\ Escapes[102] = 12
    BY DEF Escapes
  <2>. QED BY <1>4, <2>1 DEF Enc, Escaped
<1>5. CASE b = 13
  <2>1. 114 \in DOMAIN Escapes /\ Escapes[114] = 13
    BY DEF Escapes
  <2>. QED BY <1>5, <2>1 DEF Enc, Escaped
<1>6. CASE b = 34
  <2>1. 34 \in DOMAIN Escapes /\ Escapes[34] = 34
    BY DEF Escapes, Quote
  <2>. QED BY <1>6, <2>1 DEF Enc, Escaped
<1>7. CASE b = 92
  <2>1. 92 \in DOMAIN Escapes /\ Escapes[92] = 92
    BY DEF Escapes, Backslash
  <2>. QED BY <1>7, <2>1 DEF Enc, Escaped
<1>. QED BY <1>1, <1>2, <1>3, <1>4, <1>5, <1>6, <1>7 DEF Lettered

LEMMA HexitsRead ==
  ASSUME NEW x \in 0 .. 15
  PROVE  Hexits[x + 1] \in DOMAIN HexValue /\ HexValue[Hexits[x + 1]] = x
<1>1. Hexits[x + 1] = IF x < 10 THEN 48 + x ELSE 87 + x
  BY DEF Hexits
<1>. QED BY <1>1 DEF HexValue, Digit

LEMMA EncControl ==
  ASSUME NEW b \in (0 .. 31) \ Lettered
  PROVE  \E h \in DOMAIN HexValue, l \in DOMAIN HexValue :
           Enc(b) = <<92, 117, 48, 48, h, l>> /\ 16 * HexValue[h] + HexValue[l] = b
<1>. DEFINE h == Hexits[b \div 16 + 1]
            l == Hexits[(b % 16) + 1]
<1>1. b \div 16 \in 0 .. 15 /\ b % 16 \in 0 .. 15 /\ 16 * (b \div 16) + (b % 16) = b
  OBVIOUS
<1>2. h \in DOMAIN HexValue /\ HexValue[h] = b \div 16
  BY <1>1, HexitsRead
<1>3. l \in DOMAIN HexValue /\ HexValue[l] = b % 16
  BY <1>1, HexitsRead
<1>4. Enc(b) = <<92, 117, 48, 48, h, l>>
  BY DEF Enc, Escaped, Lettered
<1>. QED BY <1>1, <1>2, <1>3, <1>4

LEMMA EncKinds ==
  ASSUME NEW b \in 0 .. 255
  PROVE  b >= 128 \/ b \in Ordinary \/ b \in Lettered \/ b \in (0 .. 31) \ Lettered
  BY DEF Ordinary, Lettered, Quote, Backslash

LEMMA EncBytes ==
  ASSUME NEW b \in 0 .. 255
  PROVE  Enc(b) \in Seq(Nat) /\ Len(Enc(b)) \in 1 .. 6
<1>1. CASE b >= 128 \/ b \in Ordinary
  <2>1. Enc(b) = <<b>>
    BY <1>1, EncPlain
  <2>2. <<b>> \in Seq(Nat) /\ Len(<<b>>) = 1
    OBVIOUS
  <2>. QED BY <2>1, <2>2
<1>2. CASE b \in Lettered
  <2>1. PICK c \in DOMAIN Escapes : Enc(b) = <<92, c>>
    BY <1>2, EncLetter
  <2>2. c \in Nat
    BY DEF Escapes, Quote, Backslash
  <2>3. <<92, c>> \in Seq(Nat) /\ Len(<<92, c>>) = 2
    BY <2>2
  <2>. QED BY <2>1, <2>3
<1>3. CASE b \in (0 .. 31) \ Lettered
  <2>1. PICK h \in DOMAIN HexValue, l \in DOMAIN HexValue : Enc(b) = <<92, 117, 48, 48, h, l>>
    BY <1>3, EncControl
  <2>2. h \in Nat /\ l \in Nat
    BY DEF HexValue, Digit
  <2>3. <<92, 117, 48, 48, h, l>> \in Seq(Nat) /\ Len(<<92, 117, 48, 48, h, l>>) = 6
    BY <2>2
  <2>. QED BY <2>1, <2>3
<1>. QED BY <1>1, <1>2, <1>3, EncKinds

(* o is what s is written as, each byte from its place on. *)
Encoded(s, o, pos) ==
  /\ pos \in [0 .. Len(s) -> Nat] /\ pos[0] = 0 /\ pos[Len(s)] = Len(o)
  /\ \A i \in 0 .. Len(s) - 1 :
       /\ pos[i + 1] = pos[i] + Len(Enc(s[i + 1])) /\ pos[i + 1] <= Len(o)
       /\ \A j \in 1 .. Len(Enc(s[i + 1])) : o[pos[i] + j] = Enc(s[i + 1])[j]

LEMMA EncodedAppend ==
  ASSUME NEW s \in Seq(Bytes), NEW o \in Seq(Nat), NEW pos, Encoded(s, o, pos),
         NEW b \in 0 .. 255
  PROVE  \E q : Encoded(Append(s, b), o \o Enc(b), q)
<1>. DEFINE e == Enc(b)
            t == Append(s, b)
            u == o \o e
            n == Len(s)
            q == [i \in 0 .. n + 1 |-> IF i <= n THEN pos[i] ELSE Len(o) + Len(e)]
<1>1. e \in Seq(Nat) /\ Len(e) \in 1 .. 6
  BY EncBytes
<1>2. /\ Len(t) = n + 1 /\ n \in Nat /\ t[n + 1] = b /\ \A i \in 1 .. n : t[i] = s[i]
  BY AppendProperties, LenProperties DEF Bytes
<1>3. /\ Len(u) = Len(o) + Len(e) /\ Len(o) \in Nat
      /\ \A i \in 1 .. Len(o) : u[i] = o[i]
      /\ \A i \in 1 .. Len(e) : u[Len(o) + i] = e[i]
  <2>. HIDE DEF e
  <2>1. /\ u \in Seq(Nat) /\ Len(u) = Len(o) + Len(e) /\ Len(o) \in Nat /\ Len(e) \in Nat
        /\ \A i \in 1 .. Len(o) + Len(e) : u[i] = IF i <= Len(o) THEN o[i] ELSE e[i - Len(o)]
    BY <1>1, ConcatProperties, LenProperties
  <2>2. \A i \in 1 .. Len(o) : u[i] = o[i]
    BY <2>1
  <2>3. ASSUME NEW i \in 1 .. Len(e) PROVE u[Len(o) + i] = e[i]
    <3>. DEFINE k == Len(o) + i
    <3>1. k \in 1 .. Len(o) + Len(e) /\ ~(k <= Len(o)) /\ k - Len(o) = i
      BY <2>1
    <3>. HIDE DEF k
    <3>2. u[k] = e[i]
      BY <2>1, <3>1
    <3>. QED BY <3>2 DEF k
  <2>. QED BY <2>1, <2>2, <2>3
<1>4. /\ pos \in [0 .. n -> Nat] /\ pos[0] = 0 /\ pos[n] = Len(o)
      /\ \A i \in 0 .. n - 1 :
           /\ pos[i + 1] = pos[i] + Len(Enc(s[i + 1])) /\ pos[i + 1] <= Len(o)
           /\ \A j \in 1 .. Len(Enc(s[i + 1])) : o[pos[i] + j] = Enc(s[i + 1])[j]
  BY DEF Encoded
<1>5. q \in [0 .. n + 1 -> Nat] /\ (\A i \in 0 .. n : q[i] = pos[i]) /\ q[n + 1] = Len(o) + Len(e)
  <2>1. Len(e) \in Nat
    BY <1>1
  <2>. HIDE DEF e
  <2>. QED BY <1>2, <1>3, <1>4, <2>1
<1>. HIDE DEF u, t, q
<1>6. ASSUME NEW i \in 0 .. n
      PROVE  /\ q[i + 1] = q[i] + Len(Enc(t[i + 1])) /\ q[i + 1] <= Len(u)
             /\ \A j \in 1 .. Len(Enc(t[i + 1])) : u[q[i] + j] = Enc(t[i + 1])[j]
  <2>1. CASE i = n
    <3>1. t[i + 1] = b /\ q[i] = Len(o) /\ q[i + 1] = Len(o) + Len(e)
      BY <1>2, <1>4, <1>5, <2>1
    <3>. HIDE DEF e
    <3>2. q[i + 1] = q[i] + Len(e) /\ q[i + 1] <= Len(u)
      BY <1>1, <1>3, <3>1
    <3>3. \A j \in 1 .. Len(e) : u[q[i] + j] = e[j]
      BY <1>3, <3>1
    <3>. QED BY <3>1, <3>2, <3>3 DEF e
  <2>2. CASE i # n
    <3>1. i \in 0 .. n - 1 /\ i + 1 \in 0 .. n /\ i + 1 \in 1 .. n
      BY <1>2, <2>2
    <3>. DEFINE f == Enc(s[i + 1])
    <3>2. t[i + 1] = s[i + 1] /\ q[i] = pos[i] /\ q[i + 1] = pos[i + 1]
      BY <1>2, <1>5, <3>1
    <3>3. s[i + 1] \in 0 .. 255
      BY <3>1, ElementOfSeq DEF Bytes
    <3>4. f \in Seq(Nat) /\ Len(f) \in 1 .. 6
      BY <3>3, EncBytes
    <3>5. /\ pos[i + 1] = pos[i] + Len(f) /\ pos[i + 1] <= Len(o)
          /\ \A j \in 1 .. Len(f) : o[pos[i] + j] = f[j]
      BY <1>4, <3>1
    <3>. HIDE DEF f
    <3>6. pos[i] \in Nat /\ pos[i + 1] \in Nat
      BY <1>4, <3>1
    <3>7. ASSUME NEW j \in 1 .. Len(f) PROVE pos[i] + j \in 1 .. Len(o)
      <4>. DEFINE p == pos[i]
                  k == Len(f)
                  z == Len(o)
      <4>1. p \in Nat /\ k \in Nat /\ z \in Nat /\ p + k <= z /\ j \in 1 .. k
        BY <1>3, <3>4, <3>5, <3>6
      <4>. HIDE DEF p, k, z
      <4>2. p + j \in 1 .. z
        BY <4>1
      <4>. QED BY <4>2 DEF p, z
    <3>8. \A j \in 1 .. Len(f) : u[pos[i] + j] = f[j]
      BY <1>3, <3>5, <3>7
    <3>9. q[i + 1] = q[i] + Len(f) /\ q[i + 1] <= Len(u)
      <4>1. Len(e) \in Nat
        BY <1>1
      <4>. QED BY <1>3, <3>2, <3>5, <3>6, <4>1
    <3>. QED BY <3>2, <3>8, <3>9 DEF f
  <2>. QED BY <2>1, <2>2
<1>7. Encoded(t, u, q)
  <2>1. q[0] = 0 /\ q[Len(t)] = Len(u)
    BY <1>2, <1>3, <1>4, <1>5
  <2>2. q \in [0 .. Len(t) -> Nat] /\ Len(t) - 1 = n
    BY <1>2, <1>5
  <2>. HIDE DEF n
  <2>. QED BY <1>6, <2>1, <2>2 DEF Encoded
<1>. QED BY <1>7 DEF t, u

(***************************************************************************)
(* While it is dumped, what has been written is what stands for the bytes  *)
(* that have been read, those that wait in the buffer included.            *)
(***************************************************************************)
WrittenSoFar ==
  /\ dumped = "running" => \E pos : Encoded(text, output \o string_buffer, pos)
  /\ dumped = "done" => \E pos : Encoded(text, output, pos)

LEMMA NothingWritten == \E pos : Encoded(<<>>, <<>>, pos)
<1>. DEFINE pos == [i \in 0 .. 0 |-> 0]
<1>1. Encoded(<<>>, <<>>, pos)
  <2>1. Len(<<>>) = 0 /\ pos \in [0 .. 0 -> Nat] /\ pos[0] = 0 /\ 0 .. 0 - 1 = {}
    OBVIOUS
  <2>. QED BY <2>1 DEF Encoded
<1>. QED BY <1>1

LEMMA AsciiStep ==
  ASSUME NEW st \in 0 .. 8, st # 1, NEW b \in 0 .. 127
  PROVE  Class(b) = 0 /\ Step(st, Class(b)) = IF st = 0 THEN 0 ELSE 1
<1>1. Class(b) = 0
  BY DEF Class
<1>. QED BY <1>1 DEF Step, UTF8_REJECT

LEMMA BytesAssociative ==
  ASSUME NEW s \in Seq(Nat), NEW t \in Seq(Nat), NEW u \in Seq(Nat)
  PROVE  (s \o t) \o u = s \o (t \o u)
  BY ConcatAssociative

LEMMA EscapedHigh ==
  ASSUME NEW cp \in Nat, cp >= 128, NEW b
  PROVE  Escaped(cp, b) = <<b>>
  BY DEF Escaped

LEMMA DumpByteWritten ==
  ASSUME DumpInv, WrittenSoFar, DumpByte
  PROVE  WrittenSoFar'
<1>1. PICK b \in TextBytes :
        /\ dumped = "running" /\ text' = Append(text, b) /\ state' = Step(state, Class(b))
        /\ codepoint' = Codepoint(b)
        /\ \/ /\ state' = UTF8_ACCEPT /\ Flush(string_buffer \o Escaped(Codepoint(b), b))
              /\ UNCHANGED dumped
           \/ /\ state' = UTF8_REJECT /\ dumped' = "thrown"
           \/ /\ state' \notin {UTF8_ACCEPT, UTF8_REJECT} /\ UNCHANGED <<dumped, output>>
              /\ string_buffer' = Append(string_buffer, b)
  BY DEF DumpByte
<1>2. /\ text \in Seq(Bytes) /\ state \in 0 .. 8 /\ state # 1 /\ b \in 0 .. 255
      /\ string_buffer \in Seq(Nat) /\ output \in Seq(Nat)
      /\ codepoint \in Nat /\ IsPart(state, codepoint)
  BY <1>1, TextAssumption DEF DumpInv, Bytes, UTF8_REJECT
<1>. DEFINE all == output \o string_buffer
<1>3. all \in Seq(Nat) /\ \E pos : Encoded(text, all, pos)
  BY <1>1, <1>2, ConcatProperties DEF WrittenSoFar
<1>4. \E q : Encoded(Append(text, b), all \o Enc(b), q)
  BY <1>2, <1>3, EncodedAppend
<1>5. CASE state' = UTF8_ACCEPT /\ Flush(string_buffer \o Escaped(Codepoint(b), b)) /\ UNCHANGED dumped
  <2>1. Escaped(Codepoint(b), b) = Enc(b)
    <3>1. CASE b < 128
      <4>3. b \in 0 .. 127
        BY <1>2, <3>1
      <4>4. Class(b) = 0 /\ Step(state, Class(b)) = IF state = 0 THEN 0 ELSE 1
        BY <1>2, <4>3, AsciiStep
      <4>5. Step(state, Class(b)) = 0
        BY <1>1, <1>5, Zenon DEF UTF8_ACCEPT
      <4>1. state = 0
        BY <4>4, <4>5
      <4>2. Codepoint(b) = b
        <5>1. Class(b) = 0
          BY <4>4
        <5>2. Codepoint(b) = b % FirstBits[1]
          BY <4>1, <5>1 DEF Codepoint, UTF8_ACCEPT
        <5>. QED BY <1>2, <3>1, <5>2 DEF FirstBits
      <4>. QED BY <3>1, <4>2 DEF Enc
    <3>2. CASE b >= 128
      <4>1. Codepoint(b) \in Nat /\ Codepoint(b) >= 128
        BY <1>1, <1>2, <1>5, <3>2, DecodeStep DEF UTF8_REJECT
      <4>2. Escaped(Codepoint(b), b) = <<b>>
        BY <4>1, EscapedHigh
      <4>. QED BY <1>2, <3>2, <4>2 DEF Enc
    <3>. QED BY <1>2, <3>1, <3>2
  <2>. DEFINE e == Enc(b)
  <2>2. e \in Seq(Nat)
    BY <1>2, EncBytes
  <2>3. Flush(string_buffer \o e)
    BY <1>5, <2>1
  <2>. HIDE DEF e
  <2>6. output \o (string_buffer \o e) = all \o e
    <3>1. output \in Seq(Nat) /\ string_buffer \in Seq(Nat)
      BY <1>2
    <3>2. (output \o string_buffer) \o e = output \o (string_buffer \o e)
      BY <2>2, <3>1, BytesAssociative, Zenon
    <3>. QED BY <3>2
  <2>4. output' \o string_buffer' = all \o e
    <3>1. CASE output' = output \o (string_buffer \o e) /\ string_buffer' = <<>>
      <4>1. output' \in Seq(Nat)
        BY <1>2, <2>2, <3>1, ConcatProperties
      <4>2. output' \o <<>> = output'
        BY <4>1, ConcatEmptySeq
      <4>. QED BY <2>6, <3>1, <4>2
    <3>2. CASE string_buffer' = string_buffer \o e /\ output' = output
      BY <2>6, <3>2
    <3>. QED BY <2>3, <3>1, <3>2 DEF Flush
  <2>5. \E q : Encoded(text', output' \o string_buffer', q)
    BY <1>1, <1>4, <2>4 DEF e
  <2>. QED BY <1>1, <1>5, <2>5 DEF WrittenSoFar
<1>6. CASE state' = UTF8_REJECT /\ dumped' = "thrown"
  BY <1>6 DEF WrittenSoFar
<1>7. CASE /\ state' \notin {UTF8_ACCEPT, UTF8_REJECT} /\ UNCHANGED <<dumped, output>>
           /\ string_buffer' = Append(string_buffer, b)
  <2>1. b >= 128
    <3>. SUFFICES ASSUME b \in 0 .. 127 PROVE FALSE
      BY <1>2
    <3>1. Step(state, Class(b)) \in {0, 1}
      BY <1>2, AsciiStep
    <3>. QED BY <1>1, <1>7, <3>1 DEF UTF8_ACCEPT, UTF8_REJECT
  <2>2. Enc(b) = <<b>>
    BY <1>2, <2>1, EncPlain
  <2>3. b \in Nat /\ <<b>> \in Seq(Nat) /\ Append(string_buffer, b) = string_buffer \o <<b>>
    BY <1>2, AppendIsConcat
  <2>4. output' \o string_buffer' = all \o <<b>>
    <3>. DEFINE one == <<b>>
    <3>1. output \in Seq(Nat) /\ string_buffer \in Seq(Nat) /\ one \in Seq(Nat)
      BY <1>2, <2>3
    <3>. HIDE DEF one
    <3>2. (output \o string_buffer) \o one = output \o (string_buffer \o one)
      BY <3>1, BytesAssociative, Zenon
    <3>. QED BY <1>7, <2>3, <3>2 DEF one
  <2>5. \E q : Encoded(text', output' \o string_buffer', q)
    BY <1>1, <1>4, <2>2, <2>4
  <2>. QED BY <1>1, <1>7, <2>5 DEF WrittenSoFar
<1>. QED BY <1>1, <1>5, <1>6, <1>7

LEMMA DumpEndWritten ==
  ASSUME WrittenSoFar, DumpEnd
  PROVE  WrittenSoFar'
<1>1. /\ dumped = "running" /\ text' = text
      /\ \/ dumped' = "done" /\ output' = output \o string_buffer
         \/ dumped' = "thrown"
  BY DEF DumpEnd
<1>. QED BY <1>1 DEF WrittenSoFar

(***************************************************************************)
(* The lexer on the text that has been written: its next byte.             *)
(***************************************************************************)
Given == <<Quote>> \o output \o <<Quote>>

Dumped ==
  /\ dumped = "done" /\ source = [text |-> Given]
  /\ text \in Seq(Bytes) /\ output \in Seq(Nat) /\ input \in Seq(Range(input))

LEMMA GivenBytes ==
  ASSUME output \in Seq(Nat)
  PROVE  /\ Given \in Seq(Nat) /\ Len(Given) = Len(output) + 2 /\ Len(output) \in Nat
         /\ Given[1] = Quote /\ Given[Len(output) + 2] = Quote
         /\ \A j \in 1 .. Len(output) : Given[1 + j] = output[j]
<1>. DEFINE q == <<Quote>>
            o == q \o output
<1>1. q \in Seq(Nat) /\ Len(q) = 1 /\ q[1] = Quote
  BY DEF Quote
<1>2. Len(output) \in Nat
  BY LenProperties
<1>. HIDE DEF q
<1>3. /\ o \in Seq(Nat) /\ Len(o) = 1 + Len(output)
      /\ \A j \in 1 .. 1 + Len(output) : o[j] = IF j <= 1 THEN q[j] ELSE output[j - 1]
  <2>1. /\ o \in Seq(Nat) /\ Len(o) = Len(q) + Len(output)
        /\ \A j \in 1 .. Len(q) + Len(output) :
             o[j] = IF j <= Len(q) THEN q[j] ELSE output[j - Len(q)]
    BY <1>1, ConcatProperties
  <2>. QED BY <1>1, <2>1
<1>4. o[1] = Quote /\ \A j \in 1 .. Len(output) : o[1 + j] = output[j]
  <2>1. o[1] = Quote
    BY <1>1, <1>2, <1>3
  <2>2. ASSUME NEW j \in 1 .. Len(output) PROVE o[1 + j] = output[j]
    <3>. DEFINE k == 1 + j
    <3>1. k \in 1 .. 1 + Len(output) /\ ~(k <= 1) /\ k - 1 = j
      BY <1>2
    <3>. HIDE DEF k
    <3>2. o[k] = output[j]
      BY <1>3, <3>1
    <3>. QED BY <3>2 DEF k
  <2>. QED BY <2>1, <2>2
<1>. HIDE DEF o
<1>. DEFINE g == o \o q
<1>5. Given = g
  BY DEF Given, o, q
<1>6. /\ g \in Seq(Nat) /\ Len(g) = Len(o) + Len(q)
      /\ \A j \in 1 .. Len(o) + Len(q) : g[j] = IF j <= Len(o) THEN o[j] ELSE q[j - Len(o)]
  BY <1>1, <1>3, ConcatProperties
<1>. HIDE DEF g
<1>7. /\ Len(g) = Len(output) + 2
      /\ \A j \in 1 .. Len(output) + 2 : g[j] = IF j <= Len(o) THEN o[j] ELSE q[j - Len(o)]
  <2>1. Len(o) + Len(q) = Len(output) + 2
    BY <1>1, <1>2, <1>3
  <2>. QED BY <1>6, <2>1
<1>8. g[1] = Quote
  BY <1>2, <1>3, <1>4, <1>7
<1>9. g[Len(output) + 2] = Quote
  <2>. DEFINE k == Len(output) + 2
  <2>1. k \in 1 .. Len(output) + 2 /\ ~(k <= Len(o)) /\ k - Len(o) = 1
    BY <1>2, <1>3
  <2>. HIDE DEF k
  <2>2. g[k] = Quote
    BY <1>1, <1>7, <2>1
  <2>. QED BY <2>2 DEF k
<1>10. ASSUME NEW j \in 1 .. Len(output) PROVE g[1 + j] = output[j]
  <2>. DEFINE k == 1 + j
  <2>1. k \in 1 .. Len(output) + 2 /\ k <= Len(o) /\ o[k] = output[j]
    BY <1>2, <1>3, <1>4
  <2>. HIDE DEF k
  <2>2. g[k] = output[j]
    BY <1>7, <2>1
  <2>. QED BY <2>2 DEF k
<1>. QED BY <1>2, <1>5, <1>6, <1>7, <1>8, <1>9, <1>10

LEMMA NextByte ==
  ASSUME Dumped, next_unget = FALSE, NEW c \in NextBytes
  PROVE  c = IF Len(input) < Len(Given) THEN Given[Len(input) + 1] ELSE Eof
<1>1. source.text = Given /\ "text" \in DOMAIN source
  BY DEF Dumped
<1>. QED BY <1>1 DEF NextBytes

LEMMA CodeByte ==
  ASSUME Dumped, next_unget = FALSE, NEW pos, Encoded(text, output, pos),
         NEW i \in 0 .. Len(text) - 1, NEW j \in 1 .. Len(Enc(text[i + 1])),
         Len(input) = pos[i] + j, NEW c \in NextBytes
  PROVE  c = Enc(text[i + 1])[j]
<1>. DEFINE e == Enc(text[i + 1])
<1>1. Len(text) \in Nat /\ i + 1 \in 1 .. Len(text) /\ text[i + 1] \in 0 .. 255
  <2>1. Len(text) \in Nat /\ i + 1 \in 1 .. Len(text)
    BY LenProperties DEF Dumped
  <2>. QED BY <2>1, ElementOfSeq DEF Dumped, Bytes
<1>2. e \in Seq(Nat) /\ Len(e) \in 1 .. 6
  BY <1>1, EncBytes
<1>3. /\ pos[i] \in Nat /\ pos[i + 1] = pos[i] + Len(e) /\ pos[i + 1] <= Len(output)
      /\ \A m \in 1 .. Len(e) : output[pos[i] + m] = e[m]
  <2>1. pos[i] \in Nat
    BY <1>1 DEF Encoded
  <2>. QED BY <2>1 DEF Encoded
<1>. HIDE DEF e
<1>4. /\ Len(Given) = Len(output) + 2 /\ Len(output) \in Nat
      /\ \A m \in 1 .. Len(output) : Given[1 + m] = output[m]
  BY GivenBytes DEF Dumped
<1>5. j \in 1 .. Len(e)
  BY DEF e
<1>6. pos[i] + j \in 1 .. Len(output) /\ output[pos[i] + j] = e[j]
  <2>1. Len(e) \in Nat /\ pos[i] \in Nat /\ pos[i] + Len(e) <= Len(output) /\ Len(output) \in Nat
    BY <1>2, <1>3, <1>4
  <2>2. j \in Nat /\ 1 <= j /\ j <= Len(e)
    BY <1>5, <2>1
  <2>3. pos[i] + j \in 1 .. Len(output)
    BY <2>1, <2>2
  <2>. QED BY <1>3, <1>5, <2>3
<1>7. Given[1 + (pos[i] + j)] = e[j]
  BY <1>4, <1>6
<1>8. Len(input) + 1 = 1 + (pos[i] + j) /\ Len(input) < Len(Given)
  BY <1>3, <1>4, <1>5, <1>6
<1>. QED BY <1>7, <1>8, NextByte DEF e

LEMMA LastByte ==
  ASSUME Dumped, next_unget = FALSE, Len(input) = 1 + Len(output), NEW c \in NextBytes
  PROVE  c = Quote
<1>1. Len(Given) = Len(output) + 2 /\ Len(output) \in Nat /\ Given[Len(output) + 2] = Quote
  BY GivenBytes DEF Dumped
<1>2. Len(input) < Len(Given) /\ Len(input) + 1 = Len(output) + 2
  BY <1>1
<1>. QED BY <1>1, <1>2, NextByte

(* What get leaves behind. *)
LEMMA GetLonger ==
  ASSUME Dumped, next_unget = FALSE, NEW c, Get(c)
  PROVE  /\ c \in NextBytes /\ next_unget' = FALSE /\ Len(input') = Len(input) + 1
         /\ input \in Seq(Range(input)) /\ Len(input) \in Nat
<1>1. input' = Append(input, c) /\ next_unget' = FALSE /\ c \in NextBytes
  BY DEF Get, Read
<1>2. Len(Append(input, c)) = Len(input) + 1 /\ Len(input) \in Nat
  <2>1. input \in Seq(Range(input) \cup {c})
    BY SeqMonotonic DEF Dumped
  <2>. QED BY <2>1, AppendProperties, LenProperties
<1>. QED BY <1>1, <1>2 DEF Dumped

(***************************************************************************)
(* Which step the lexer takes in each place, when it is not in a number.   *)
(***************************************************************************)
LEMMA NumberPlaces ==
  ASSUME scan_number
  PROVE  at \in {"minus", "zero", "any1", "decimal1", "decimal2", "exponent", "sign", "any2"}
<1>1. \A arc \in Arcs : arc[1] \in {"minus", "zero", "any1", "decimal1", "decimal2", "exponent",
                                     "sign", "any2"}
  BY DEF Arcs, IntegerArcs, FractionArcs, ExponentArcs
<1>. QED BY <1>1 DEF scan_number, Complete

LEMMA StepByPlace ==
  ASSUME LexerNext
  PROVE  /\ at = "idle" => Scan
         /\ at = "bom" => skip_bom
         /\ at = "white" => skip_whitespace \/ Dispatch
         /\ at = "string" => scan_string
         /\ at = "range" => next_byte_in_range
         /\ at = "escape" => Escape
         /\ at = "hex" => EscapeHex
         /\ at # "stopped"
<1>1. Scan => at = "idle"
  BY DEF Scan
<1>2. skip_bom => at \in {"bom", "bom2", "bom3"}
  BY DEF skip_bom
<1>3. skip_whitespace \/ Dispatch => at = "white"
  BY DEF skip_whitespace, Dispatch
<1>4. scan_literal => at = "literal"
  BY DEF scan_literal
<1>5. scan_string => at = "string"
  BY DEF scan_string
<1>6. next_byte_in_range => at = "range"
  BY DEF next_byte_in_range
<1>7. Escape => at = "escape"
  BY DEF Escape
<1>8. EscapeHex => at = "hex"
  BY DEF EscapeHex
<1>9. EscapeLow => at \in {"low1", "low2"}
  BY DEF EscapeLow
<1>. QED BY <1>1, <1>2, <1>3, <1>4, <1>5, <1>6, <1>7, <1>8, <1>9, NumberPlaces DEF LexerNext

(***************************************************************************)
(* The ranges that the lexer has for the bytes after a first one.          *)
(***************************************************************************)
InRange(b, r) == r \in Nat \X Nat /\ r[1] <= b /\ b <= r[2]

LEMMA ContRange ==
  /\ Cont \in Seq(Nat)
  /\ \A b \in 0 .. 255 : LaterOk(b) => InRange(b, Cont)
<1>1. Cont \in Seq(Nat) /\ Cont \in Nat \X Nat /\ Cont[1] = 128 /\ Cont[2] = 191
  BY DEF Cont
<1>. QED BY <1>1 DEF LaterOk, InRange

Ranges(lo, hi, n) ==
  IF n = 1 THEN <<<<lo, hi>>>> ELSE IF n = 2 THEN <<<<lo, hi>>, Cont>>
  ELSE <<<<lo, hi>>, Cont, Cont>>

LEMMA RangesOf ==
  ASSUME NEW lo \in Nat, NEW hi \in Nat, NEW n \in 1 .. 3
  PROVE  LET f == Ranges(lo, hi, n)
         IN  /\ f \in Seq(Seq(Nat)) /\ Len(f) = n
             /\ \A b \in 0 .. 255 : lo <= b /\ b <= hi => InRange(b, f[1])
             /\ \A j \in 2 .. n : \A b \in 0 .. 255 : LaterOk(b) => InRange(b, f[j])
<1>. DEFINE f == Ranges(lo, hi, n)
            r == <<lo, hi>>
<1>1. r \in Seq(Nat) /\ r \in Nat \X Nat /\ r[1] = lo /\ r[2] = hi
  OBVIOUS
<1>. HIDE DEF f, r
<1>2. f = IF n = 1 THEN <<r>> ELSE IF n = 2 THEN <<r, Cont>> ELSE <<r, Cont, Cont>>
  BY DEF f, r, Ranges
<1>3. f \in Seq(Seq(Nat)) /\ Len(f) = n /\ f[1] = r /\ (n >= 2 => f[2] = Cont) /\ (n = 3 => f[3] = Cont)
  <2>. DEFINE S == Seq(Nat)
  <2>1. r \in S /\ Cont \in S
    BY <1>1, ContRange
  <2>. HIDE DEF S
  <2>2. CASE n = 1
    <3>1. <<r>> \in Seq(S) /\ Len(<<r>>) = 1 /\ <<r>>[1] = r
      BY <2>1
    <3>. QED BY <1>2, <2>2, <3>1 DEF S
  <2>3. CASE n = 2
    <3>. DEFINE g == <<r, Cont>>
    <3>1. g \in Seq(S) /\ Len(g) = 2 /\ g[1] = r /\ g[2] = Cont
      BY <2>1
    <3>. HIDE DEF g
    <3>2. f = g
      BY <1>2, <2>3 DEF g
    <3>. QED BY <2>3, <3>1, <3>2 DEF S
  <2>4. CASE n = 3
    <3>. DEFINE g == <<r, Cont, Cont>>
    <3>1. g \in Seq(S) /\ Len(g) = 3 /\ g[1] = r /\ g[2] = Cont /\ g[3] = Cont
      BY <2>1
    <3>. HIDE DEF g
    <3>2. f = g
      BY <1>2, <2>4 DEF g
    <3>. QED BY <2>4, <3>1, <3>2 DEF S
  <2>. QED BY <2>2, <2>3, <2>4
<1>4. \A b \in 0 .. 255 : lo <= b /\ b <= hi => InRange(b, f[1])
  BY <1>1, <1>3 DEF InRange
<1>5. ASSUME NEW j \in 2 .. n, NEW b \in 0 .. 255, LaterOk(b) PROVE InRange(b, f[j])
  <2>1. f[j] = Cont
    BY <1>3
  <2>. QED BY <1>5, <2>1, ContRange
<1>. QED BY <1>3, <1>4, <1>5 DEF f

LEMMA FollowCases ==
  ASSUME NEW a \in 194 .. 244
  PROVE  /\ a < 224 => Follow(a) = <<Cont>>
         /\ a \in 225 .. 236 \/ a \in {238, 239} => Follow(a) = <<Cont, Cont>>
<1>1. CASE a < 224
  BY <1>1 DEF Follow
<1>2. CASE a \in 225 .. 236
  BY <1>2 DEF Follow
<1>3. CASE a \in {238, 239}
  BY <1>3 DEF Follow
<1>. QED BY <1>1, <1>2, <1>3

LEMMA FollowRanges ==
  ASSUME NEW a \in 194 .. 244
  PROVE  /\ Follow(a) \in Seq(Seq(Nat)) /\ Len(Follow(a)) = Width(a) - 1 /\ Width(a) \in 2 .. 4
         /\ \A b \in 0 .. 255 : SecondOk(a, b) => InRange(b, Follow(a)[1])
         /\ \A j \in 2 .. Width(a) - 1 : \A b \in 0 .. 255 : LaterOk(b) => InRange(b, Follow(a)[j])
<1>. DEFINE lo == IF a = 224 THEN 160 ELSE IF a = 240 THEN 144 ELSE 128
            hi == IF a = 237 THEN 159 ELSE IF a = 244 THEN 143 ELSE 191
            n == IF a < 224 THEN 1 ELSE IF a < 240 THEN 2 ELSE 3
<1>1. lo \in Nat /\ hi \in Nat /\ n \in 1 .. 3 /\ Width(a) = n + 1
  BY DEF Width
<1>2. \A b \in 0 .. 255 : SecondOk(a, b) => lo <= b /\ b <= hi
  BY DEF SecondOk
<1>3. Follow(a) = Ranges(lo, hi, n)
  <2>1. CASE a \in 194 .. 223
    <3>1. lo = 128 /\ hi = 191 /\ n = 1
      BY <2>1
    <3>2. Follow(a) = <<Cont>>
      BY <2>1, FollowCases
    <3>. HIDE DEF lo, hi, n
    <3>. QED BY <3>1, <3>2 DEF Cont, Ranges
  <2>2. CASE a = 224
    BY <2>2 DEF Follow, Cont, Ranges
  <2>3. CASE a \in 225 .. 236 \/ a \in {238, 239}
    <3>1. lo = 128 /\ hi = 191 /\ n = 2
      BY <2>3
    <3>2. Follow(a) = <<Cont, Cont>>
      BY <2>3, FollowCases
    <3>. HIDE DEF lo, hi, n
    <3>. QED BY <3>1, <3>2 DEF Cont, Ranges
  <2>4. CASE a = 237
    BY <2>4 DEF Follow, Cont, Ranges
  <2>5. CASE a = 240
    BY <2>5 DEF Follow, Cont, Ranges
  <2>6. CASE a \in 241 .. 243
    BY <2>6 DEF Follow, Cont, Ranges
  <2>7. CASE a = 244
    BY <2>7 DEF Follow, Cont, Ranges
  <2>. QED BY <2>1, <2>2, <2>3, <2>4, <2>5, <2>6, <2>7
<1>. DEFINE f == Follow(a)
<1>. HIDE DEF lo, hi, n, f
<1>4. f = Ranges(lo, hi, n)
  BY <1>3 DEF f
<1>5. /\ f \in Seq(Seq(Nat)) /\ Len(f) = n
      /\ \A b \in 0 .. 255 : lo <= b /\ b <= hi => InRange(b, f[1])
      /\ \A j \in 2 .. n : \A b \in 0 .. 255 : LaterOk(b) => InRange(b, f[j])
  <2>. DEFINE g == Ranges(lo, hi, n)
  <2>1. /\ g \in Seq(Seq(Nat)) /\ Len(g) = n
        /\ \A b \in 0 .. 255 : lo <= b /\ b <= hi => InRange(b, g[1])
        /\ \A j \in 2 .. n : \A b \in 0 .. 255 : LaterOk(b) => InRange(b, g[j])
    BY <1>1, RangesOf
  <2>. QED BY <1>4, <2>1, Zenon
<1>6. n = Width(a) - 1 /\ Width(a) \in 2 .. 4
  BY <1>1
<1>7. \A b \in 0 .. 255 : SecondOk(a, b) => InRange(b, f[1])
  BY <1>2, <1>5
<1>. QED BY <1>5, <1>6, <1>7 DEF f

(***************************************************************************)
(* Where the lexer is in what dump wrote.  Before the first byte, after it *)
(* has been put back, after the string, and at the end of the input:       *)
(***************************************************************************)
TheString == [type |-> "value_string", text |-> text]

Unread == at \in {"idle", "bom"} /\ input = <<>> /\ next_unget = FALSE /\ tokens = <<>>

Peeked ==
  at = "white" /\ Len(input) = 1 /\ next_unget = TRUE /\ current = Quote /\ tokens = <<>>

StringRead ==
  /\ at \in {"idle", "white"} /\ next_unget = FALSE
  /\ Len(input) = Len(output) + 2 /\ tokens = <<TheString>>

AllRead == at = "stopped" /\ tokens = <<TheString, Mark("end_of_input")>>

(* In the string, when the first i bytes of the text have been recovered.  *)
(* Between two characters; within one; after a backslash; and among the    *)
(* digits of an escape.                                                    *)
TokenSoFar(i) ==
  token_buffer \in Seq(Bytes) /\ Len(token_buffer) = i /\ \A j \in 1 .. i : token_buffer[j] = text[j]

Halfway(pos, cuts, i) ==
  /\ Encoded(text, output, pos) /\ cuts \in Cuts(text) /\ i \in 0 .. Len(text)
  /\ TokenSoFar(i) /\ next_unget = FALSE /\ tokens = <<>>

AtCut(pos, cuts, i) == at = "string" /\ i \in cuts /\ Len(input) = 1 + pos[i]

InCharacter(pos, cuts, i) ==
  /\ at = "range" /\ Len(input) = 1 + pos[i]
  /\ todo \in Seq(Seq(Nat)) /\ Len(todo) \in 1 .. 3 /\ i + Len(todo) \in cuts
  /\ \A j \in 1 .. Len(todo) : text[i + j] >= 128 /\ InRange(text[i + j], todo[j])

InEscape(pos, cuts, i) ==
  /\ at = "escape" /\ i \in cuts /\ i < Len(text) /\ Len(input) = 2 + pos[i]
  /\ text[i + 1] \in Lettered \/ text[i + 1] \in (0 .. 31) \ Lettered

InHex(pos, cuts, i) ==
  /\ at = "hex" /\ i \in cuts /\ i < Len(text) /\ text[i + 1] \in (0 .. 31) \ Lettered
  /\ codepoint1 = 0 /\ todo \in Seq(Nat) /\ Len(todo) \in 0 .. 3
  /\ Len(input) = 3 + pos[i] + Len(todo)
  /\ \A j \in 1 .. Len(todo) : todo[j] = Enc(text[i + 1])[2 + j]

Inside ==
  \E pos, cuts, i :
    /\ Halfway(pos, cuts, i)
    /\ \/ AtCut(pos, cuts, i) \/ InCharacter(pos, cuts, i)
       \/ InEscape(pos, cuts, i) \/ InHex(pos, cuts, i)

ReadingBack == Unread \/ Peeked \/ Inside \/ StringRead \/ AllRead

(* What the steps below have in common. *)
Reads ==
  /\ LexerInv /\ LexerNext
  /\ Dumped /\ IsUtf8Text(text) /\ \E pos : Encoded(text, output, pos)
  /\ UNCHANGED <<text, output>>

LEMMA HalfwayFacts ==
  ASSUME Dumped, NEW pos, NEW cuts, NEW i, Halfway(pos, cuts, i)
  PROVE  /\ Len(text) \in Nat /\ i \in Nat /\ Len(output) \in Nat /\ Len(input) \in Nat
         /\ cuts \subseteq 0 .. Len(text) /\ pos[i] \in Nat /\ pos[0] = 0
         /\ pos[Len(text)] = Len(output)
         /\ i < Len(text) => /\ i \in 0 .. Len(text) - 1 /\ text[i + 1] \in 0 .. 255
                             /\ pos[i + 1] = pos[i] + Len(Enc(text[i + 1]))
                             /\ Len(Enc(text[i + 1])) \in 1 .. 6
<1>1. Len(text) \in Nat /\ Len(output) \in Nat /\ Len(input) \in Nat /\ text \in Seq(Bytes)
  BY LenProperties DEF Dumped
<1>2. i \in 0 .. Len(text) /\ cuts \subseteq 0 .. Len(text) /\ Encoded(text, output, pos)
  BY DEF Halfway, Cuts
<1>3. pos[i] \in Nat /\ pos[0] = 0 /\ pos[Len(text)] = Len(output)
  BY <1>1, <1>2 DEF Encoded
<1>4. ASSUME i < Len(text)
      PROVE  /\ i \in 0 .. Len(text) - 1 /\ text[i + 1] \in 0 .. 255
             /\ pos[i + 1] = pos[i] + Len(Enc(text[i + 1]))
             /\ Len(Enc(text[i + 1])) \in 1 .. 6
  <2>1. i \in 0 .. Len(text) - 1 /\ i + 1 \in 1 .. Len(text)
    BY <1>1, <1>2, <1>4
  <2>2. text[i + 1] \in 0 .. 255
    BY <1>1, <2>1, ElementOfSeq DEF Bytes
  <2>3. pos[i + 1] = pos[i] + Len(Enc(text[i + 1]))
    BY <1>2, <2>1 DEF Encoded
  <2>. QED BY <2>1, <2>2, <2>3, EncBytes
<1>. QED BY <1>1, <1>2, <1>3, <1>4

LEMMA WidthAscii ==
  ASSUME NEW a \in 0 .. 127
  PROVE  Width(a) = 1
BY DEF Width

(* A byte below 128 is a character. *)
LEMMA CutAfterAscii ==
  ASSUME Dumped, NEW cuts \in Cuts(text), NEW i \in cuts, i < Len(text),
         text[i + 1] \in 0 .. 127
  PROVE  i + 1 \in cuts
<1>1. text \in Seq(Bytes) /\ i # Len(text)
  BY LenProperties DEF Dumped, Cuts
<1>2. PICK n \in 1 .. 4 : i + n \in cuts /\ CharacterAt(text, i, n)
  BY <1>1, NextCut
<1>3. Width(text[i + 1]) = 1
  BY WidthAscii
<1>4. n = 1
  BY <1>2, <1>3, Zenon DEF CharacterAt
<1>. QED BY <1>2, <1>4

(* The next byte of the text is added to the token. *)
LEMMA OneByteMore ==
  ASSUME Dumped, NEW pos, NEW cuts, NEW i, Halfway(pos, cuts, i), i < Len(text),
         UNCHANGED <<text, output, tokens>>, next_unget' = FALSE,
         NEW s, s = <<text[i + 1]>>, token_buffer' = token_buffer \o s
  PROVE  Halfway(pos, cuts, i + 1)'
<1>1. Len(text) \in Nat /\ i \in Nat /\ text[i + 1] \in Bytes
  BY HalfwayFacts DEF Bytes
<1>2. /\ token_buffer \in Seq(Bytes) /\ Len(token_buffer) = i
      /\ \A j \in 1 .. i : token_buffer[j] = text[j]
      /\ Encoded(text, output, pos) /\ cuts \in Cuts(text) /\ tokens = <<>>
  BY DEF Halfway, TokenSoFar
<1>. DEFINE b == text[i + 1]
            t == Append(token_buffer, b)
<1>3. token_buffer' = t
  BY <1>1, <1>2, AppendIsConcat
<1>4. b \in Bytes
  BY <1>1
<1>. HIDE DEF b
<1>5. /\ t \in Seq(Bytes) /\ Len(t) = i + 1 /\ t[i + 1] = b
      /\ \A j \in 1 .. i : t[j] = token_buffer[j]
  BY <1>2, <1>4, AppendProperties
<1>. HIDE DEF t
<1>6. \A j \in 1 .. i + 1 : t[j] = text[j]
  BY <1>1, <1>2, <1>5 DEF b
<1>7. TokenSoFar(i + 1)'
  BY <1>3, <1>5, <1>6 DEF TokenSoFar
<1>8. i + 1 \in 0 .. Len(text)
  BY <1>1
<1>. QED BY <1>2, <1>7, <1>8 DEF Halfway

LEMMA NoBytesMore ==
  ASSUME NEW pos, NEW cuts, NEW i, Halfway(pos, cuts, i),
         UNCHANGED <<text, output, tokens, token_buffer>>, next_unget' = FALSE
  PROVE  Halfway(pos, cuts, i)'
BY DEF Halfway, TokenSoFar

(***************************************************************************)
(* What each step of the lexer does inside of a string, by its byte.       *)
(***************************************************************************)
LEMMA FollowAscii ==
  ASSUME NEW c \in 0 .. 127
  PROVE  Follow(c) = <<>>
BY DEF Follow

LEMMA StringByte ==
  ASSUME scan_string
  PROVE  \E c \in NextBytes :
           /\ Get(c)
           /\ c = 34 => Token("value_string", token_buffer)
           /\ c = 92 => at' = "escape" /\ UNCHANGED <<token_buffer, tokens>>
           /\ c \in Ordinary => /\ token_buffer' = token_buffer \o <<c>>
                               /\ at' = "string" /\ UNCHANGED tokens
           /\ c \in 194 .. 244 => /\ token_buffer' = token_buffer \o <<c>>
                                 /\ todo' = Follow(c) /\ at' = "range" /\ UNCHANGED tokens
<1>1. PICK c \in NextBytes :
        /\ Get(c)
        /\ \/ c = Quote /\ Token("value_string", token_buffer)
           \/ c = Backslash /\ Go("escape") /\ UNCHANGED <<token_buffer, todo, codepoint1>>
           \/ c \in Ordinary /\ add(<<c>>) /\ Go("string")
           \/ Follow(c) # <<>> /\ add(<<c>>) /\ todo' = Follow(c) /\ Go("range")
           \/ c \in Control \cup {Eof}
           \/ c > 127 /\ Follow(c) = <<>>
  BY DEF scan_string
<1>2. c = 34 => Token("value_string", token_buffer)
  <2>. SUFFICES ASSUME c = 34 PROVE Token("value_string", token_buffer)
    OBVIOUS
  <2>1. Follow(c) = <<>>
    BY FollowAscii
  <2>. QED BY <1>1, <2>1 DEF Backslash, Ordinary, Quote, Control, Eof
<1>3. c = 92 => at' = "escape" /\ UNCHANGED <<token_buffer, tokens>>
  <2>. SUFFICES ASSUME c = 92 PROVE at' = "escape" /\ UNCHANGED <<token_buffer, tokens>>
    OBVIOUS
  <2>1. Follow(c) = <<>>
    BY FollowAscii
  <2>2. Go("escape") /\ UNCHANGED token_buffer
    BY <1>1, <2>1 DEF Backslash, Ordinary, Quote, Control, Eof
  <2>. QED BY <2>2 DEF Go
<1>4. c \in Ordinary => /\ token_buffer' = token_buffer \o <<c>>
                      /\ at' = "string" /\ UNCHANGED tokens
  <2>. SUFFICES ASSUME c \in Ordinary
                PROVE  token_buffer' = token_buffer \o <<c>> /\ at' = "string" /\ UNCHANGED tokens
    OBVIOUS
  <2>1. c \in 32 .. 127 /\ c # 34 /\ c # 92
    BY DEF Ordinary, Quote, Backslash
  <2>2. Follow(c) = <<>>
    <3>1. c \in 0 .. 127
      BY <2>1
    <3>. QED BY <3>1, FollowAscii
  <2>3. add(<<c>>) /\ Go("string")
    BY <1>1, <2>1, <2>2 DEF Backslash, Quote, Control, Eof
  <2>. QED BY <2>3 DEF Go, add
<1>5. c \in 194 .. 244 => /\ token_buffer' = token_buffer \o <<c>>
                        /\ todo' = Follow(c) /\ at' = "range" /\ UNCHANGED tokens
  <2>. SUFFICES ASSUME c \in 194 .. 244
                PROVE  /\ token_buffer' = token_buffer \o <<c>>
                       /\ todo' = Follow(c) /\ at' = "range" /\ UNCHANGED tokens
    OBVIOUS
  <2>1. Follow(c) # <<>>
    <3>. DEFINE f == Follow(c)
    <3>1. f \in Seq(Seq(Nat)) /\ Len(f) = Width(c) - 1 /\ Width(c) \in 2 .. 4
      BY FollowRanges
    <3>. HIDE DEF f
    <3>2. Len(f) # 0
      BY <3>1
    <3>. QED BY <3>2, EmptySeq DEF f
  <2>2. c # Quote /\ c # Backslash /\ c \notin Ordinary /\ c \notin Control /\ c # Eof
    BY DEF Quote, Backslash, Ordinary, Control, Eof
  <2>3. add(<<c>>) /\ todo' = Follow(c) /\ Go("range")
    BY <1>1, <2>1, <2>2, Zenon
  <2>. QED BY <2>3 DEF Go, add
<1>. QED BY <1>1, <1>2, <1>3, <1>4, <1>5

LEMMA RangeByte ==
  ASSUME next_byte_in_range
  PROVE  \E c \in NextBytes :
           /\ Get(c)
           /\ c \in Nat /\ InRange(c, todo[1]) =>
                /\ token_buffer' = token_buffer \o <<c>> /\ todo' = Tail(todo)
                /\ at' = (IF Len(todo) = 1 THEN "string" ELSE "range") /\ UNCHANGED tokens
<1>1. PICK c \in NextBytes :
        /\ Get(c)
        /\ \/ /\ add(<<c>>) /\ todo' = Tail(todo)
              /\ Go(IF Len(todo) = 1 THEN "string" ELSE "range")
           \/ c < todo[1][1] \/ todo[1][2] < c
  BY DEF next_byte_in_range
<1>2. c \in Nat /\ InRange(c, todo[1]) => ~(c < todo[1][1]) /\ ~(todo[1][2] < c)
  BY DEF InRange
<1>. QED BY <1>1, <1>2, Zenon DEF Go, add

LEMMA EscapeByte ==
  ASSUME Escape
  PROVE  \E c \in NextBytes :
           /\ Get(c)
           /\ c \in DOMAIN Escapes /\ c # 117 =>
                /\ token_buffer' = token_buffer \o <<Escapes[c]>>
                /\ at' = "string" /\ UNCHANGED tokens
           /\ c = 117 => /\ at' = "hex" /\ todo' = <<>> /\ codepoint1' = 0
                         /\ UNCHANGED <<token_buffer, tokens>>
<1>1. PICK c \in NextBytes :
        /\ Get(c)
        /\ \/ c \in DOMAIN Escapes /\ add(<<Escapes[c]>>) /\ Go("string")
           \/ c = 117 /\ todo' = <<>> /\ codepoint1' = 0 /\ Go("hex") /\ UNCHANGED token_buffer
           \/ c \notin DOMAIN Escapes \cup {117}
  BY DEF Escape
<1>2. 117 \notin DOMAIN Escapes
  BY DEF Escapes, Quote, Backslash
<1>. QED BY <1>1, <1>2 DEF Go, add

LEMMA HexByte ==
  ASSUME EscapeHex, codepoint1 = 0
  PROVE  \E c \in NextBytes :
           /\ Get(c)
           /\ c \in DOMAIN HexValue /\ Len(todo) < 3 =>
                /\ todo' = Append(todo, c) /\ at' = "hex"
                /\ UNCHANGED <<token_buffer, codepoint1, tokens>>
           /\ c \in DOMAIN HexValue /\ Len(todo) = 3 =>
                \A cp \in 0 .. 31 : get_codepoint(Append(todo, c)) = cp =>
                  /\ token_buffer' = token_buffer \o <<cp>>
                  /\ at' = "string" /\ UNCHANGED tokens
<1>1. PICK c \in NextBytes :
        /\ Get(c)
        /\ \/ /\ c \in DOMAIN HexValue /\ Len(todo) < 3
              /\ todo' = Append(todo, c) /\ Go("hex") /\ UNCHANGED <<token_buffer, codepoint1>>
           \/ /\ c \in DOMAIN HexValue /\ Len(todo) = 3
              /\ CodepointRead(get_codepoint(Append(todo, c)))
           \/ c \notin DOMAIN HexValue
  BY DEF EscapeHex
<1>2. c \in DOMAIN HexValue /\ Len(todo) < 3 =>
                /\ todo' = Append(todo, c) /\ at' = "hex"
                /\ UNCHANGED <<token_buffer, codepoint1, tokens>>
  BY <1>1 DEF Go
<1>3. ASSUME c \in DOMAIN HexValue, Len(todo) = 3, NEW cp \in 0 .. 31,
             get_codepoint(Append(todo, c)) = cp
      PROVE  token_buffer' = token_buffer \o <<cp>> /\ at' = "string" /\ UNCHANGED tokens
  <2>1. CodepointRead(cp)
    BY <1>1, <1>3
  <2>2. cp \notin HighSurrogate /\ cp \notin LowSurrogate /\ cp < 128
    BY SMT DEF HighSurrogate, LowSurrogate
  <2>3. Utf8(cp) = <<cp>>
    BY <2>2, SMT DEF Utf8
  <2>4. add(Utf8(cp)) /\ Go("string")
    <3>. DEFINE high == cp \in HighSurrogate
                low == cp \in LowSurrogate
    <3>1. ~high /\ ~low
      BY <2>2
    <3>2. high \/ low \/ (add(Utf8(cp)) /\ Go("string"))
      BY <2>1 DEF CodepointRead
    <3>. QED BY <3>1, <3>2
  <2>. QED BY <2>3, <2>4 DEF add, Go
<1>. QED BY <1>1, <1>2, <1>3

(***************************************************************************)
(* One step in each place.                                                 *)
(***************************************************************************)
LEMMA HighBytes ==
  ASSUME NEW x \in 0 .. 255, NEW a
  PROVE  (SecondOk(a, x) => x >= 128) /\ (LaterOk(x) => x >= 128)
BY DEF SecondOk, LaterOk

LEMMA HighFirst ==
  ASSUME NEW a \in 0 .. 255, a >= 128, FirstOk(a)
  PROVE  a \in 194 .. 244
BY DEF FirstOk

LEMMA AtCutStep ==
  ASSUME Reads, NEW pos, NEW cuts, NEW i, Halfway(pos, cuts, i), AtCut(pos, cuts, i)
  PROVE  ReadingBack'
<1>1. PICK c \in NextBytes :
        /\ Get(c)
        /\ c = 34 => Token("value_string", token_buffer)
        /\ c = 92 => at' = "escape" /\ UNCHANGED <<token_buffer, tokens>>
        /\ c \in Ordinary => /\ token_buffer' = token_buffer \o <<c>>
                             /\ at' = "string" /\ UNCHANGED tokens
        /\ c \in 194 .. 244 => /\ token_buffer' = token_buffer \o <<c>>
                               /\ todo' = Follow(c) /\ at' = "range" /\ UNCHANGED tokens
  <2>1. scan_string
    BY StepByPlace DEF Reads, AtCut
  <2>. QED BY <2>1, StringByte
<1>2. /\ Dumped /\ next_unget = FALSE /\ tokens = <<>> /\ i \in cuts /\ cuts \in Cuts(text)
      /\ Len(input) = 1 + pos[i] /\ Encoded(text, output, pos)
      /\ text' = text /\ output' = output
  BY DEF Reads, Halfway, AtCut
<1>3. /\ Len(text) \in Nat /\ i \in Nat /\ Len(output) \in Nat /\ Len(input) \in Nat
      /\ cuts \subseteq 0 .. Len(text) /\ pos[i] \in Nat /\ pos[Len(text)] = Len(output)
      /\ i < Len(text) => /\ i \in 0 .. Len(text) - 1 /\ text[i + 1] \in 0 .. 255
                          /\ pos[i + 1] = pos[i] + Len(Enc(text[i + 1]))
                          /\ Len(Enc(text[i + 1])) \in 1 .. 6
  BY <1>2, HalfwayFacts
<1>4. next_unget' = FALSE /\ Len(input') = Len(input) + 1
  BY <1>1, <1>2, GetLonger
<1>5. CASE i = Len(text)
  <2>1. c = 34
    BY <1>1, <1>2, <1>3, <1>5, LastByte DEF Quote
  <2>2. tokens' = <<[type |-> "value_string", text |-> token_buffer]>> /\ at' = "idle"
    BY <1>1, <1>2, <2>1 DEF Token
  <2>3. token_buffer = text
    <3>1. /\ token_buffer \in Seq(Bytes) /\ Len(token_buffer) = Len(text)
          /\ \A j \in 1 .. Len(text) : token_buffer[j] = text[j]
      BY <1>5 DEF Halfway, TokenSoFar
    <3>2. text \in Seq(Bytes)
      BY <1>2 DEF Dumped
    <3>. QED BY <3>1, <3>2, SeqEqual
  <2>4. Len(input') = Len(output) + 2
    BY <1>2, <1>3, <1>4, <1>5
  <2>5. StringRead'
    BY <1>2, <1>4, <2>2, <2>3, <2>4 DEF StringRead, TheString
  <2>. QED BY <2>5 DEF ReadingBack
<1>6. CASE i # Len(text)
  <2>. DEFINE b == text[i + 1]
  <2>1. i < Len(text) /\ i # Len(text)
    <3>1. i \in 0 .. Len(text)
      BY <1>2, <1>3
    <3>. QED BY <1>3, <1>6, <3>1
  <2>2. /\ b \in 0 .. 255 /\ pos[i + 1] = pos[i] + Len(Enc(b)) /\ Len(Enc(b)) \in 1 .. 6
        /\ i \in 0 .. Len(text) - 1
    BY <1>3, <2>1
  <2>3. c = Enc(b)[1]
    <3>1. Len(input) = pos[i] + 1
      BY <1>2, <1>3
    <3>2. 1 \in 1 .. Len(Enc(b))
      <4>. DEFINE n == Len(Enc(b))
      <4>1. n \in 1 .. 6
        BY <2>2
      <4>. HIDE DEF n
      <4>2. 1 \in 1 .. n
        BY <4>1
      <4>. QED BY <4>2 DEF n
    <3>3. c \in NextBytes
      BY <1>1
    <3>. QED BY <1>2, <2>2, <3>1, <3>2, <3>3, CodeByte
  <2>4. CASE b \in Ordinary
    <3>1. Enc(b) = <<b>>
      BY <2>2, <2>4, EncPlain
    <3>2. c = b /\ pos[i + 1] = pos[i] + 1
      BY <2>2, <2>3, <3>1
    <3>3. token_buffer' = token_buffer \o <<b>> /\ at' = "string" /\ UNCHANGED tokens
      BY <1>1, <2>4, <3>2
    <3>4. Halfway(pos, cuts, i + 1)'
      BY <1>2, <1>4, <2>1, <3>3, OneByteMore
    <3>5. i + 1 \in cuts
      <4>1. b \in 0 .. 127
        BY <2>4 DEF Ordinary
      <4>. QED BY <1>2, <2>1, <4>1, CutAfterAscii
    <3>6. Len(input') = 1 + pos[i + 1]
      BY <1>2, <1>3, <1>4, <3>2
    <3>7. AtCut(pos, cuts, i + 1)'
      BY <3>3, <3>5, <3>6 DEF AtCut
    <3>8. Inside'
      BY <3>4, <3>7 DEF Inside
    <3>. QED BY <3>8 DEF ReadingBack
  <2>5. CASE b >= 128
    <3>1. Enc(b) = <<b>>
      BY <2>2, <2>5, EncPlain
    <3>2. c = b /\ pos[i + 1] = pos[i] + 1
      BY <2>2, <2>3, <3>1
    <3>3. PICK n \in 1 .. 4 : i + n \in cuts /\ i + n <= Len(text) /\ CharacterAt(text, i, n)
      <4>1. text \in Seq(Bytes)
        BY <1>2 DEF Dumped
      <4>. QED BY <1>2, <2>1, <4>1, NextCut
    <3>4. b \in 194 .. 244 /\ n = Width(b)
      <4>1. FirstOk(b) /\ n = Width(b)
        BY <3>3 DEF CharacterAt
      <4>2. b \in 0 .. 255
        BY <2>2
      <4>3. b \in 194 .. 244
        BY <2>5, <4>1, <4>2, HighFirst
      <4>. QED BY <4>1, <4>3
    <3>. DEFINE f == Follow(b)
    <3>5. /\ f \in Seq(Seq(Nat)) /\ Len(f) = Width(b) - 1 /\ Width(b) \in 2 .. 4
          /\ \A x \in 0 .. 255 : SecondOk(b, x) => InRange(x, f[1])
          /\ \A j \in 2 .. Width(b) - 1 : \A x \in 0 .. 255 : LaterOk(x) => InRange(x, f[j])
      BY <3>4, FollowRanges
    <3>6. token_buffer' = token_buffer \o <<b>> /\ todo' = f /\ at' = "range" /\ UNCHANGED tokens
      BY <1>1, <3>2, <3>4
    <3>7. Halfway(pos, cuts, i + 1)'
      BY <1>2, <1>4, <2>1, <3>6, OneByteMore
    <3>8. Len(input') = 1 + pos[i + 1]
      BY <1>2, <1>3, <1>4, <3>2
    <3>. HIDE DEF f
    <3>9. ASSUME NEW j \in 1 .. Len(f)
          PROVE  text[i + 1 + j] >= 128 /\ InRange(text[i + 1 + j], f[j])
      <4>. DEFINE x == text[i + 1 + j]
      <4>1. i + 1 + j \in 1 .. Len(text) /\ j \in Nat /\ j <= n - 1
        BY <1>3, <3>3, <3>4, <3>5
      <4>2. x \in 0 .. 255
        <5>1. text \in Seq(Bytes)
          BY <1>2 DEF Dumped
        <5>. QED BY <4>1, <5>1, ElementOfSeq DEF Bytes
      <4>3. CASE j = 1
        <5>1. x = text[i + 2]
          BY <1>3, <4>3
        <5>2. SecondOk(b, text[i + 2])
          BY <3>3, <3>4, <3>5 DEF CharacterAt
        <5>3. SecondOk(b, x)
          BY <5>1, <5>2
        <5>4. x >= 128
          BY <4>2, <5>3, HighBytes
        <5>. QED BY <3>5, <4>2, <4>3, <5>3, <5>4
      <4>4. CASE j # 1
        <5>1. j \in 2 .. Width(b) - 1 /\ j \in {2, 3}
          <6>. DEFINE w == Width(b)
          <6>1. w \in 2 .. 4 /\ n = w /\ j \in Nat /\ j \in 1 .. Len(f) /\ j <= n - 1
            BY <3>4, <3>5, <4>1
          <6>. HIDE DEF w
          <6>2. j \in 2 .. w - 1 /\ j \in {2, 3}
            BY <4>4, <6>1
          <6>. QED BY <6>2 DEF w
        <5>2. LaterOk(x)
          <6>1. CASE j = 2
            <7>1. n >= 3 /\ x = text[i + 3]
              BY <1>3, <4>1, <6>1
            <7>. QED BY <3>3, <7>1 DEF CharacterAt
          <6>2. CASE j = 3
            <7>1. n = 4 /\ x = text[i + 4]
              BY <1>3, <4>1, <6>2
            <7>. QED BY <3>3, <7>1 DEF CharacterAt
          <6>. QED BY <5>1, <6>1, <6>2
        <5>3. x >= 128
          BY <4>2, <5>2, HighBytes
        <5>. QED BY <3>5, <4>2, <5>1, <5>2, <5>3
      <4>. QED BY <4>3, <4>4
    <3>10. InCharacter(pos, cuts, i + 1)'
      <4>1. i + 1 + Len(f) \in cuts /\ Len(f) \in 1 .. 3
        <5>1. i + 1 + Len(f) = i + n
          BY <1>3, <3>4, <3>5
        <5>. QED BY <3>3, <3>5, <5>1
      <4>. QED BY <1>2, <3>5, <3>6, <3>8, <3>9, <4>1 DEF InCharacter
    <3>11. Inside'
      BY <3>7, <3>10 DEF Inside
    <3>. QED BY <3>11 DEF ReadingBack
  <2>6. CASE b \in Lettered \/ b \in (0 .. 31) \ Lettered
    <3>1. Enc(b)[1] = 92
      <4>1. CASE b \in Lettered
        <5>1. PICK l \in DOMAIN Escapes : Enc(b) = <<92, l>>
          BY <4>1, EncLetter
        <5>. QED BY <5>1
      <4>2. CASE b \in (0 .. 31) \ Lettered
        <5>1. PICK h \in DOMAIN HexValue, l \in DOMAIN HexValue :
                Enc(b) = <<92, 117, 48, 48, h, l>>
          BY <4>2, EncControl
        <5>. QED BY <5>1
      <4>. QED BY <2>6, <4>1, <4>2
    <3>2. at' = "escape" /\ UNCHANGED <<token_buffer, tokens>>
      BY <1>1, <2>3, <3>1
    <3>3. Halfway(pos, cuts, i)'
      BY <1>2, <1>4, <3>2, NoBytesMore
    <3>4. Len(input') = 2 + pos[i]
      BY <1>2, <1>3, <1>4
    <3>5. InEscape(pos, cuts, i)'
      BY <1>2, <2>1, <2>6, <3>2, <3>4 DEF InEscape
    <3>6. Inside'
      BY <3>3, <3>5 DEF Inside
    <3>. QED BY <3>6 DEF ReadingBack
  <2>. QED BY <2>2, <2>4, <2>5, <2>6, EncKinds
<1>. QED BY <1>5, <1>6

LEMMA InCharacterStep ==
  ASSUME Reads, NEW pos, NEW cuts, NEW i, Halfway(pos, cuts, i), InCharacter(pos, cuts, i)
  PROVE  ReadingBack'
<1>1. PICK c \in NextBytes :
        /\ Get(c)
        /\ c \in Nat /\ InRange(c, todo[1]) =>
             /\ token_buffer' = token_buffer \o <<c>> /\ todo' = Tail(todo)
             /\ at' = (IF Len(todo) = 1 THEN "string" ELSE "range") /\ UNCHANGED tokens
  <2>1. next_byte_in_range
    BY StepByPlace DEF Reads, InCharacter
  <2>. QED BY <2>1, RangeByte
<1>2. /\ Dumped /\ next_unget = FALSE /\ tokens = <<>> /\ cuts \in Cuts(text)
      /\ Len(input) = 1 + pos[i] /\ Encoded(text, output, pos)
      /\ text' = text /\ output' = output
      /\ todo \in Seq(Seq(Nat)) /\ Len(todo) \in 1 .. 3 /\ i + Len(todo) \in cuts
      /\ \A j \in 1 .. Len(todo) : text[i + j] >= 128 /\ InRange(text[i + j], todo[j])
  BY DEF Reads, Halfway, InCharacter
<1>3. /\ Len(text) \in Nat /\ i \in Nat /\ Len(output) \in Nat /\ Len(input) \in Nat
      /\ cuts \subseteq 0 .. Len(text) /\ pos[i] \in Nat
      /\ i < Len(text) => /\ i \in 0 .. Len(text) - 1 /\ text[i + 1] \in 0 .. 255
                          /\ pos[i + 1] = pos[i] + Len(Enc(text[i + 1]))
  BY <1>2, HalfwayFacts
<1>4. next_unget' = FALSE /\ Len(input') = Len(input) + 1
  BY <1>1, <1>2, GetLonger
<1>. DEFINE m == Len(todo)
<1>14. m \in 1 .. 3 /\ i + m \in 0 .. Len(text) /\ Len(text) \in Nat /\ i \in Nat
  BY <1>2, <1>3
<1>. HIDE DEF m
<1>5. i < Len(text) /\ 1 \in 1 .. m
  BY <1>14
<1>. DEFINE b == text[i + 1]
<1>6. b \in 0 .. 255 /\ b >= 128 /\ InRange(b, todo[1]) /\ i \in 0 .. Len(text) - 1
  <2>1. text[i + 1] >= 128 /\ InRange(text[i + 1], todo[1])
    BY <1>2, <1>5 DEF m
  <2>. QED BY <1>3, <1>5, <2>1
<1>7. Enc(b) = <<b>>
  BY <1>6, EncPlain
<1>8. c = b /\ pos[i + 1] = pos[i] + 1
  <2>1. Len(Enc(b)) = 1 /\ Enc(b)[1] = b
    BY <1>7
  <2>2. pos[i + 1] = pos[i] + 1
    BY <1>3, <1>5, <2>1
  <2>3. Len(input) = pos[i] + 1
    <3>1. Len(input) = 1 + pos[i] /\ pos[i] \in Nat
      BY <1>2, <1>3
    <3>. QED BY <3>1
  <2>4. 1 \in 1 .. Len(Enc(b)) /\ c \in NextBytes
    BY <1>1, <2>1
  <2>5. c = Enc(b)[1]
    BY <1>2, <1>6, <2>3, <2>4, CodeByte
  <2>. QED BY <2>1, <2>2, <2>5
<1>9. /\ token_buffer' = token_buffer \o <<b>> /\ todo' = Tail(todo)
      /\ at' = (IF Len(todo) = 1 THEN "string" ELSE "range") /\ UNCHANGED tokens
  <2>. HIDE DEF b
  <2>1. c \in Nat /\ InRange(c, todo[1])
    BY <1>6, <1>8
  <2>. QED BY <1>1, <1>8, <2>1
<1>10. Halfway(pos, cuts, i + 1)'
  BY <1>2, <1>4, <1>5, <1>9, OneByteMore
<1>11. Len(input') = 1 + pos[i + 1]
  <2>1. Len(input) = 1 + pos[i] /\ pos[i] \in Nat
    BY <1>2, <1>3
  <2>. QED BY <1>4, <1>8, <2>1
<1>12. CASE Len(todo) = 1
  <2>1. AtCut(pos, cuts, i + 1)'
    BY <1>2, <1>9, <1>11, <1>12 DEF AtCut
  <2>2. Inside'
    BY <1>10, <2>1 DEF Inside
  <2>. QED BY <2>2 DEF ReadingBack
<1>13. CASE Len(todo) # 1
  <2>. DEFINE t == Tail(todo)
  <2>1. /\ t \in Seq(Seq(Nat)) /\ Len(t) = Len(todo) - 1
        /\ \A j \in 1 .. Len(todo) - 1 : t[j] = todo[j + 1]
    <3>1. todo # <<>>
      BY <1>14 DEF m
    <3>. QED BY <1>2, <3>1, HeadTailProperties
  <2>. HIDE DEF t
  <2>2. ASSUME NEW j \in 1 .. Len(t)
        PROVE  text[i + 1 + j] >= 128 /\ InRange(text[i + 1 + j], t[j])
    <3>. DEFINE k == j + 1
    <3>1. Len(t) = m - 1 /\ (j \in 1 .. m - 1 => t[j] = todo[k])
      BY <2>1 DEF m
    <3>3. k \in 1 .. m /\ i + 1 + j = i + k /\ j \in 1 .. m - 1
      BY <1>14, <3>1
    <3>. HIDE DEF k
    <3>2. text[i + k] >= 128 /\ InRange(text[i + k], todo[k])
      BY <1>2, <3>3 DEF m
    <3>. QED BY <3>1, <3>2, <3>3
  <2>3. Len(t) \in 1 .. 3 /\ i + 1 + Len(t) \in cuts
    <3>1. Len(t) = m - 1 /\ m # 1 /\ i + m \in cuts
      BY <1>2, <1>13, <2>1 DEF m
    <3>2. i + 1 + Len(t) = i + m /\ Len(t) \in 1 .. 3
      BY <1>14, <3>1
    <3>. QED BY <3>1, <3>2
  <2>4. todo' = t /\ at' = "range"
    BY <1>9, <1>13 DEF t
  <2>5. InCharacter(pos, cuts, i + 1)'
    BY <1>2, <1>11, <2>1, <2>2, <2>3, <2>4 DEF InCharacter
  <2>6. Inside'
    BY <1>10, <2>5 DEF Inside
  <2>. QED BY <2>6 DEF ReadingBack
<1>. QED BY <1>12, <1>13

LEMMA InEscapeStep ==
  ASSUME Reads, NEW pos, NEW cuts, NEW i, Halfway(pos, cuts, i), InEscape(pos, cuts, i)
  PROVE  ReadingBack'
<1>1. PICK c \in NextBytes :
        /\ Get(c)
        /\ c \in DOMAIN Escapes /\ c # 117 =>
             /\ token_buffer' = token_buffer \o <<Escapes[c]>>
             /\ at' = "string" /\ UNCHANGED tokens
        /\ c = 117 => /\ at' = "hex" /\ todo' = <<>> /\ codepoint1' = 0
                      /\ UNCHANGED <<token_buffer, tokens>>
  <2>1. Escape
    BY StepByPlace DEF Reads, InEscape
  <2>. QED BY <2>1, EscapeByte
<1>. DEFINE b == text[i + 1]
<1>2. /\ Dumped /\ next_unget = FALSE /\ tokens = <<>> /\ cuts \in Cuts(text) /\ i \in cuts
      /\ Len(input) = 2 + pos[i] /\ Encoded(text, output, pos)
      /\ text' = text /\ output' = output /\ i < Len(text)
      /\ b \in Lettered \/ b \in (0 .. 31) \ Lettered
  BY DEF Reads, Halfway, InEscape
<1>3. /\ Len(text) \in Nat /\ i \in 0 .. Len(text) - 1 /\ Len(input) \in Nat
      /\ pos[i] \in Nat /\ pos[i + 1] = pos[i] + Len(Enc(b))
  BY <1>2, HalfwayFacts
<1>4. next_unget' = FALSE /\ Len(input') = Len(input) + 1 /\ c \in NextBytes
  BY <1>1, <1>2, GetLonger
<1>5. ASSUME 2 \in 1 .. Len(Enc(b))
      PROVE  c = Enc(b)[2]
  <2>1. Len(input) = pos[i] + 2
    BY <1>2, <1>3
  <2>. QED BY <1>2, <1>3, <1>4, <1>5, <2>1, CodeByte
<1>6. CASE b \in Lettered
  <2>1. PICK l \in DOMAIN Escapes : Enc(b) = <<92, l>> /\ Escapes[l] = b /\ l # 117
    BY <1>6, EncLetter
  <2>2. Len(Enc(b)) = 2 /\ Enc(b)[2] = l
    BY <2>1
  <2>3. c = l
    BY <1>5, <2>2
  <2>4. token_buffer' = token_buffer \o <<b>> /\ at' = "string" /\ UNCHANGED tokens
    BY <1>1, <2>1, <2>3
  <2>5. Halfway(pos, cuts, i + 1)'
    BY <1>2, <1>4, <2>4, OneByteMore
  <2>6. i + 1 \in cuts
    <3>1. b \in 0 .. 127
      BY <1>6 DEF Lettered
    <3>. QED BY <1>2, <3>1, CutAfterAscii
  <2>7. Len(input') = 1 + pos[i + 1]
    BY <1>2, <1>3, <1>4, <2>2
  <2>8. AtCut(pos, cuts, i + 1)'
    BY <2>4, <2>6, <2>7 DEF AtCut
  <2>9. Inside'
    BY <2>5, <2>8 DEF Inside
  <2>. QED BY <2>9 DEF ReadingBack
<1>7. CASE b \in (0 .. 31) \ Lettered
  <2>1. PICK h \in DOMAIN HexValue, l \in DOMAIN HexValue : Enc(b) = <<92, 117, 48, 48, h, l>>
    BY <1>7, EncControl
  <2>2. Len(Enc(b)) = 6 /\ Enc(b)[2] = 117
    BY <2>1
  <2>3. c = 117
    BY <1>5, <2>2
  <2>4. at' = "hex" /\ todo' = <<>> /\ codepoint1' = 0 /\ UNCHANGED <<token_buffer, tokens>>
    BY <1>1, <2>3
  <2>5. Halfway(pos, cuts, i)'
    BY <1>2, <1>4, <2>4, NoBytesMore
  <2>6. Len(input') = 3 + pos[i] + 0
    BY <1>2, <1>3, <1>4
  <2>7. InHex(pos, cuts, i)'
    <3>1. <<>> \in Seq(Nat) /\ Len(<<>>) = 0 /\ 1 .. 0 = {}
      OBVIOUS
    <3>. QED BY <1>2, <1>7, <2>4, <2>6, <3>1 DEF InHex
  <2>8. Inside'
    BY <2>5, <2>7 DEF Inside
  <2>. QED BY <2>8 DEF ReadingBack
<1>. QED BY <1>2, <1>6, <1>7

LEMMA InHexStep ==
  ASSUME Reads, NEW pos, NEW cuts, NEW i, Halfway(pos, cuts, i), InHex(pos, cuts, i)
  PROVE  ReadingBack'
<1>. DEFINE b == text[i + 1]
<1>1. PICK c \in NextBytes :
        /\ Get(c)
        /\ c \in DOMAIN HexValue /\ Len(todo) < 3 =>
             /\ todo' = Append(todo, c) /\ at' = "hex"
             /\ UNCHANGED <<token_buffer, codepoint1, tokens>>
        /\ c \in DOMAIN HexValue /\ Len(todo) = 3 =>
             \A cp \in 0 .. 31 : get_codepoint(Append(todo, c)) = cp =>
               /\ token_buffer' = token_buffer \o <<cp>>
               /\ at' = "string" /\ UNCHANGED tokens
  <2>1. EscapeHex /\ codepoint1 = 0
    BY StepByPlace DEF Reads, InHex
  <2>. QED BY <2>1, HexByte
<1>2. /\ Dumped /\ next_unget = FALSE /\ tokens = <<>> /\ cuts \in Cuts(text) /\ i \in cuts
      /\ Encoded(text, output, pos)
      /\ text' = text /\ output' = output /\ i < Len(text)
      /\ b \in (0 .. 31) \ Lettered /\ codepoint1 = 0
      /\ todo \in Seq(Nat) /\ Len(todo) \in 0 .. 3 /\ Len(input) = 3 + pos[i] + Len(todo)
      /\ \A j \in 1 .. Len(todo) : todo[j] = Enc(text[i + 1])[2 + j]
  BY DEF Reads, Halfway, InHex
<1>3. /\ Len(text) \in Nat /\ i \in 0 .. Len(text) - 1 /\ Len(input) \in Nat
      /\ pos[i] \in Nat /\ pos[i + 1] = pos[i] + Len(Enc(b))
  BY <1>2, HalfwayFacts
<1>4. next_unget' = FALSE /\ Len(input') = Len(input) + 1 /\ c \in NextBytes
  BY <1>1, <1>2, GetLonger
<1>5. PICK h \in DOMAIN HexValue, l \in DOMAIN HexValue :
        Enc(b) = <<92, 117, 48, 48, h, l>> /\ 16 * HexValue[h] + HexValue[l] = b
  BY <1>2, EncControl
<1>. DEFINE e == Enc(b)
            n == Len(todo)
<1>6. /\ Len(e) = 6 /\ e[3] = 48 /\ e[4] = 48 /\ e[5] = h /\ e[6] = l
      /\ 48 \in DOMAIN HexValue /\ HexValue[48] = 0
      /\ h \in Nat /\ l \in Nat
  BY <1>5 DEF HexValue, Digit
<1>11. n \in 0 .. 3 /\ pos[i] \in Nat /\ Len(input) = 3 + pos[i] + n
  BY <1>2, <1>3
<1>. HIDE DEF n
<1>12. 3 + n \in {3, 4, 5, 6} /\ Len(input) = pos[i] + (3 + n) /\ 3 + n \in 1 .. 6
  BY <1>11
<1>7. c = e[3 + n]
  <2>. DEFINE k == 3 + n
  <2>1. k \in 1 .. Len(e) /\ Len(input) = pos[i] + k
    BY <1>6, <1>12
  <2>. HIDE DEF k
  <2>2. c = e[k]
    <3>1. k \in 1 .. Len(Enc(text[i + 1])) /\ Len(input) = pos[i] + k
      BY <2>1
    <3>2. Dumped /\ next_unget = FALSE /\ Encoded(text, output, pos) /\ i \in 0 .. Len(text) - 1
      BY <1>2, <1>3
    <3>3. c \in NextBytes
      BY <1>4
    <3>. QED BY <3>1, <3>2, <3>3, CodeByte
  <2>. QED BY <2>2 DEF k
<1>8. c \in DOMAIN HexValue /\ c \in Nat
  <2>. HIDE DEF e
  <2>. QED BY <1>6, <1>7, <1>12
<1>9. CASE n < 3
  <2>1. todo' = Append(todo, c) /\ at' = "hex" /\ UNCHANGED <<token_buffer, codepoint1, tokens>>
    BY <1>1, <1>8, <1>9 DEF n
  <2>2. Halfway(pos, cuts, i)'
    BY <1>2, <1>4, <2>1, NoBytesMore
  <2>. DEFINE t == Append(todo, c)
  <2>3. t \in Seq(Nat) /\ Len(t) = n + 1 /\ t[n + 1] = c /\ \A j \in 1 .. n : t[j] = todo[j]
    BY <1>2, <1>8, AppendProperties DEF n
  <2>. HIDE DEF t, e
  <2>4. ASSUME NEW j \in 1 .. Len(t)
        PROVE  t[j] = e[2 + j]
    <3>1. n \in 0 .. 3
      BY <1>11
    <3>2. CASE j = n + 1
      <4>1. 2 + j = 3 + n
        BY <3>1, <3>2
      <4>. QED BY <1>7, <2>3, <3>2, <4>1
    <3>3. CASE j # n + 1
      <4>1. j \in 1 .. n
        BY <2>3, <3>1, <3>3
      <4>. QED BY <1>2, <2>3, <4>1 DEF e, n
    <3>. QED BY <3>2, <3>3
  <2>5. Len(t) \in 0 .. 3 /\ Len(input') = 3 + pos[i] + Len(t)
    <3>1. Len(t) = n + 1 /\ Len(input') = Len(input) + 1
      BY <1>4, <2>3
    <3>. QED BY <1>9, <1>11, <3>1
  <2>6. InHex(pos, cuts, i)'
    BY <1>2, <2>1, <2>3, <2>4, <2>5 DEF InHex, t, e
  <2>7. Inside'
    BY <2>2, <2>6 DEF Inside
  <2>. QED BY <2>7 DEF ReadingBack
<1>10. CASE n = 3
  <2>. DEFINE t == Append(todo, c)
  <2>1. c = l /\ todo[1] = 48 /\ todo[2] = 48 /\ todo[3] = h
    <3>1. todo[1] = e[2 + 1] /\ todo[2] = e[2 + 2] /\ todo[3] = e[2 + 3] /\ c = e[3 + 3]
      <4>1. \A j \in 1 .. 3 : todo[j] = e[2 + j]
        BY <1>2, <1>10 DEF n
      <4>. QED BY <1>7, <1>10, <4>1
    <3>. HIDE DEF e
    <3>. QED BY <1>6, <3>1
  <2>2. t[1] = 48 /\ t[2] = 48 /\ t[3] = h /\ t[4] = l
    <3>1. t[3 + 1] = c /\ \A j \in 1 .. 3 : t[j] = todo[j]
      <4>1. todo \in Seq(Nat) /\ Len(todo) = 3
        BY <1>2, <1>10 DEF n
      <4>2. /\ t \in Seq(Nat) /\ Len(t) = Len(todo) + 1 /\ t[Len(todo) + 1] = c
            /\ \A j \in 1 .. Len(todo) : t[j] = todo[j]
        <5>1. todo \in Seq(Nat) /\ c \in Nat
          BY <1>8, <4>1
        <5>. QED BY <5>1, AppendProperties
      <4>. HIDE DEF t
      <4>. QED BY <4>1, <4>2
    <3>. HIDE DEF t
    <3>. QED BY <2>1, <3>1
  <2>3. get_codepoint(t) = b
    <3>1. HexValue[h] \in Int /\ HexValue[l] \in Int
      BY <1>5 DEF HexValue, Digit
    <3>. HIDE DEF t, b
    <3>. QED BY <1>5, <1>6, <2>2, <3>1 DEF get_codepoint
  <2>4. token_buffer' = token_buffer \o <<b>> /\ at' = "string" /\ UNCHANGED tokens
    <3>1. b \in 0 .. 31 /\ Len(todo) = 3
      BY <1>2, <1>10 DEF n
    <3>. QED BY <1>1, <1>8, <2>3, <3>1
  <2>5. Halfway(pos, cuts, i + 1)'
    BY <1>2, <1>4, <2>4, OneByteMore
  <2>6. i + 1 \in cuts
    <3>1. b \in 0 .. 127
      BY <1>2
    <3>. QED BY <1>2, <3>1, CutAfterAscii
  <2>7. Len(input') = 1 + pos[i + 1]
    BY <1>3, <1>4, <1>6, <1>10, <1>11
  <2>8. AtCut(pos, cuts, i + 1)'
    BY <2>4, <2>6, <2>7 DEF AtCut
  <2>9. Inside'
    BY <2>5, <2>8 DEF Inside
  <2>. QED BY <2>9 DEF ReadingBack
<1>. QED BY <1>9, <1>10, <1>11

LEMMA LexerSource ==
  ASSUME LexerNext
  PROVE  UNCHANGED source
<1>1. CASE Scan
  BY <1>1 DEF Scan
<1>2. CASE \E c : Get(c) \/ GetUnget(c)
  BY <1>2 DEF Get, GetUnget, Read
<1>3. CASE skip_bom
  BY <1>2, <1>3, Zenon DEF skip_bom
<1>4. CASE skip_whitespace \/ Dispatch \/ scan_literal
  BY <1>2, <1>4, Zenon DEF skip_whitespace, Dispatch, scan_literal
<1>5. CASE scan_number
  BY <1>2, <1>5, Zenon DEF scan_number
<1>6. CASE scan_string \/ next_byte_in_range \/ Escape \/ EscapeHex \/ EscapeLow
  BY <1>2, <1>6, Zenon DEF scan_string, next_byte_in_range, Escape, EscapeHex, EscapeLow
<1>. QED BY <1>1, <1>3, <1>4, <1>5, <1>6 DEF LexerNext

LEMMA AppendToOne ==
  ASSUME NEW a, NEW b
  PROVE  Append(<<a>>, b) = <<a, b>>
<1>. DEFINE S == {a, b}
            s == <<a>>
            t == <<a, b>>
            u == Append(s, b)
<1>1. b \in S /\ s \in Seq(S) /\ Len(s) = 1 /\ s[1] = a
  OBVIOUS
<1>2. t \in Seq(S) /\ Len(t) = 2 /\ t[1] = a /\ t[2] = b
  OBVIOUS
<1>. HIDE DEF S, s, t
<1>3. u \in Seq(S) /\ Len(u) = 2 /\ u[1] = a /\ u[2] = b
  <2>0. s \in Seq(S) /\ b \in S
    BY <1>1
  <2>1. /\ u \in Seq(S) /\ Len(u) = Len(s) + 1 /\ u[Len(s) + 1] = b
        /\ \A i \in 1 .. Len(s) : u[i] = s[i]
    BY <2>0, AppendProperties
  <2>. HIDE DEF u
  <2>. QED BY <1>1, <2>1
<1>. HIDE DEF u
<1>4. \A i \in 1 .. 2 : u[i] = t[i]
  BY <1>2, <1>3
<1>5. u = t
  BY <1>2, <1>3, <1>4, SeqEqual
<1>. QED BY <1>5 DEF s, t, u

LEMMA UnreadStep ==
  ASSUME Reads, Unread
  PROVE  ReadingBack'
<1>1. /\ Dumped /\ next_unget = FALSE /\ tokens = <<>> /\ input = <<>> /\ at \in {"idle", "bom"}
  BY DEF Reads, Unread
<1>2. Given[1] = Quote /\ Len(Given) > 0 /\ Len(input) = 0
  BY <1>1, GivenBytes DEF Dumped
<1>3. CASE at = "idle"
  <2>1. Scan
    BY <1>3, StepByPlace DEF Reads
  <2>2. position.chars_read_total = 0
    <3>1. position.chars_read_total = Len(Consumed) /\ Consumed = <<>>
      BY <1>1 DEF Reads, LexerInv, PositionExact, Consumed
    <3>. QED BY <3>1
  <2>3. at' = "bom" /\ UNCHANGED <<input, next_unget, tokens>>
    BY <2>1, <2>2 DEF Scan
  <2>4. Unread'
    BY <1>1, <2>3 DEF Unread
  <2>. QED BY <2>4 DEF ReadingBack
<1>4. CASE at = "bom"
  <2>1. skip_bom
    BY <1>4, StepByPlace DEF Reads
  <2>2. PICK c \in NextBytes :
          \/ c # 239 /\ GetUnget(c) /\ at' = "white" /\ UNCHANGED tokens
          \/ c = 239
    BY <1>4, <2>1 DEF skip_bom
  <2>3. c = Quote
    <3>1. Len(input) < Len(Given) /\ Len(input) + 1 = 1
      BY <1>2
    <3>2. c = Given[Len(input) + 1]
      BY <1>1, <3>1, NextByte
    <3>. QED BY <1>2, <3>1, <3>2
  <2>4. GetUnget(c) /\ at' = "white" /\ UNCHANGED tokens
    BY <2>2, <2>3 DEF Quote
  <2>5. next_unget' = TRUE /\ input' = Append(<<>>, c) /\ current' = Quote
    BY <1>1, <2>3, <2>4 DEF GetUnget, Read
  <2>6. Len(input') = 1
    BY <2>5
  <2>7. Peeked'
    BY <1>1, <2>4, <2>5, <2>6 DEF Peeked
  <2>. QED BY <2>7 DEF ReadingBack
<1>. QED BY <1>1, <1>3, <1>4

LEMMA PeekedStep ==
  ASSUME Reads, Peeked
  PROVE  ReadingBack'
<1>1. /\ at = "white" /\ Len(input) = 1 /\ next_unget = TRUE /\ current = Quote /\ tokens = <<>>
      /\ text' = text /\ output' = output /\ text \in Seq(Bytes)
  BY DEF Reads, Peeked, Dumped
<1>2. NextBytes = {34}
  BY <1>1 DEF NextBytes, Quote
<1>3. /\ at' = "string" /\ token_buffer' = <<>> /\ tokens' = tokens
      /\ input' = input /\ next_unget' = FALSE
  <2>1. 34 \notin White /\ 34 \notin DOMAIN Structure /\ 34 \notin DOMAIN Literals
        /\ 34 \notin Digit \cup {Minus} /\ 34 \notin {Nul, Eof} /\ 34 = Quote
    BY DEF White, NewLine, Structure, Literals, Digit, Minus, Nul, Eof, Quote
  <2>2. ~skip_whitespace
    BY <1>2, <2>1 DEF skip_whitespace
  <2>3. Dispatch
    BY <1>1, <2>2, StepByPlace DEF Reads
  <2>4. PICK c \in NextBytes :
          /\ Get(c)
          /\ \/ c \in DOMAIN Structure
             \/ c \in DOMAIN Literals
             \/ c = Quote /\ at' = "string" /\ token_buffer' = <<>> /\ UNCHANGED tokens
             \/ c \in Digit \cup {Minus}
             \/ c \in {Nul, Eof}
             \/ c \notin DOMAIN Structure \cup DOMAIN Literals \cup Digit
                          \cup {Quote, Minus, Nul, Eof}
    BY <2>3 DEF Dispatch
  <2>5. c = 34
    BY <1>2, <2>4
  <2>6. at' = "string" /\ token_buffer' = <<>> /\ UNCHANGED tokens
    BY <2>1, <2>4, <2>5
  <2>7. input' = input /\ next_unget' = FALSE
    BY <1>1, <2>4 DEF Get, Read
  <2>. QED BY <2>6, <2>7
<1>4. PICK pos : Encoded(text, output, pos)
  BY DEF Reads
<1>5. PICK cuts : cuts \in Cuts(text)
  BY DEF Reads, IsUtf8Text
<1>6. TokenSoFar(0)'
  <2>1. <<>> \in Seq(Bytes) /\ Len(<<>>) = 0 /\ 1 .. 0 = {}
    OBVIOUS
  <2>. QED BY <1>3, <2>1 DEF TokenSoFar
<1>7. Halfway(pos, cuts, 0)'
  <2>1. 0 \in 0 .. Len(text)
    BY <1>1, LenProperties
  <2>. QED BY <1>1, <1>3, <1>4, <1>5, <1>6, <2>1 DEF Halfway
<1>8. AtCut(pos, cuts, 0)'
  <2>1. 0 \in cuts /\ pos[0] = 0
    BY <1>4, <1>5 DEF Cuts, Encoded
  <2>2. Len(input') = 1 + pos[0]
    BY <1>1, <1>3, <2>1
  <2>. QED BY <1>3, <2>1, <2>2 DEF AtCut
<1>9. Inside'
  BY <1>7, <1>8 DEF Inside
<1>. QED BY <1>9 DEF ReadingBack

LEMMA StringReadStep ==
  ASSUME Reads, StringRead
  PROVE  ReadingBack'
<1>1. /\ Dumped /\ at \in {"idle", "white"} /\ next_unget = FALSE /\ UNCHANGED TheString
      /\ Len(input) = Len(output) + 2 /\ tokens = <<TheString>> /\ output' = output
  BY DEF Reads, StringRead, TheString
<1>2. Len(Given) = Len(output) + 2 /\ Len(output) \in Nat
  BY <1>1, GivenBytes DEF Dumped
<1>3. CASE at = "idle"
  <2>1. Scan
    BY <1>3, StepByPlace DEF Reads
  <2>2. position.chars_read_total # 0
    <3>1. position.chars_read_total = Len(input)
      BY <1>1 DEF Reads, LexerInv, PositionExact, Consumed
    <3>. QED BY <1>1, <1>2, <3>1
  <2>3. at' = "white" /\ UNCHANGED <<input, next_unget, tokens>>
    BY <2>1, <2>2 DEF Scan
  <2>4. StringRead'
    BY <1>1, <2>3 DEF StringRead
  <2>. QED BY <2>4 DEF ReadingBack
<1>4. CASE at = "white"
  <2>1. NextBytes = {Eof}
    <3>1. ASSUME NEW c \in NextBytes
          PROVE  c = Eof
      <4>1. ~(Len(input) < Len(Given))
        BY <1>1, <1>2
      <4>. QED BY <1>1, <4>1, NextByte
    <3>2. NextBytes # {}
      BY <1>1 DEF NextBytes, Dumped
    <3>. QED BY <3>1, <3>2
  <2>2. Eof \notin White /\ Eof \notin DOMAIN Structure /\ Eof \notin DOMAIN Literals
        /\ Eof \notin Digit \cup {Minus} /\ Eof # Quote
    BY DEF White, NewLine, Structure, Literals, Digit, Minus, Eof, Quote
  <2>3. ~skip_whitespace
    BY <2>1, <2>2 DEF skip_whitespace
  <2>4. Dispatch
    BY <1>4, <2>3, StepByPlace DEF Reads
  <2>5. PICK c \in NextBytes :
          \/ c \in DOMAIN Structure
          \/ c \in DOMAIN Literals
          \/ c = Quote
          \/ c \in Digit \cup {Minus}
          \/ Stop("end_of_input")
          \/ c \notin DOMAIN Structure \cup DOMAIN Literals \cup Digit
                       \cup {Quote, Minus, Nul, Eof}
    BY <2>4 DEF Dispatch
  <2>6. Stop("end_of_input")
    BY <2>1, <2>2, <2>5
  <2>7. tokens' = <<TheString, Mark("end_of_input")>> /\ at' = "stopped"
    <3>. DEFINE end == Mark("end_of_input")
    <3>1. tokens' = Append(tokens, end) /\ at' = "stopped"
      BY <2>6 DEF Stop
    <3>2. tokens = <<TheString>>
      BY <1>1
    <3>. HIDE DEF end
    <3>3. Append(<<TheString>>, end) = <<TheString, end>>
      BY AppendToOne
    <3>. QED BY <3>1, <3>2, <3>3 DEF end
  <2>8. AllRead'
    BY <1>1, <2>7 DEF AllRead, Mark
  <2>. QED BY <2>8 DEF ReadingBack
<1>. QED BY <1>1, <1>3, <1>4

LEMMA ReadsStep ==
  ASSUME Reads, ReadingBack
  PROVE  ReadingBack'
<1>1. CASE Inside
  <2>1. PICK pos, cuts, i :
          /\ Halfway(pos, cuts, i)
          /\ \/ AtCut(pos, cuts, i) \/ InCharacter(pos, cuts, i)
             \/ InEscape(pos, cuts, i) \/ InHex(pos, cuts, i)
    BY <1>1 DEF Inside
  <2>. QED BY <2>1, AtCutStep, InCharacterStep, InEscapeStep, InHexStep
<1>2. ~AllRead
  BY StepByPlace DEF Reads, AllRead
<1>. QED BY <1>1, <1>2, UnreadStep, PeekedStep, StringReadStep DEF ReadingBack

(***************************************************************************)
(* A string is dumped, then what has been written is read.                 *)
(***************************************************************************)
BackInv ==
  /\ WrittenSoFar
  /\ dumped # "none" => number.type = "none"
  /\ dumped = "running" => source = Nothing /\ Unread
  /\ dumped = "done" => source = [text |-> Given] /\ ReadingBack

LEMMA BackStart ==
  ASSUME TextInit
  PROVE  BackInv
<1>1. CASE NoString
  BY <1>1 DEF NoString, BackInv, WrittenSoFar
<1>2. CASE source = Nothing /\ DumpInit /\ NoNumber
  <2>1. text = <<>> /\ output = <<>> /\ string_buffer = <<>> /\ dumped = "running"
    BY <1>2 DEF DumpInit
  <2>2. WrittenSoFar
    <3>1. <<>> \o <<>> = <<>>
      OBVIOUS
    <3>. QED BY <2>1, <3>1, NothingWritten DEF WrittenSoFar
  <2>3. Unread
    BY DEF TextInit, LexerInit, Unread
  <2>4. number.type = "none"
    BY <1>2 DEF NoNumber
  <2>. QED BY <1>2, <2>1, <2>2, <2>3, <2>4 DEF BackInv
<1>. QED BY <1>1, <1>2 DEF TextInit

LEMMA BackStep ==
  ASSUME TextInv, TextInv', DumpsUtf8, BackInv, [TextNext]_textVars
  PROVE  BackInv'
<1>1. CASE DumpString
  <2>1. /\ dumped = "running" /\ number' = number
        /\ UNCHANGED <<input, next_unget, at, tokens>>
    BY <1>1 DEF DumpString, DumpNext, DumpByte, DumpEnd, numberVars
  <2>2. WrittenSoFar'
    BY <1>1, DumpByteWritten, DumpEndWritten DEF BackInv, TextInv, DumpString, DumpNext
  <2>3. dumped' = "running" => source' = Nothing
    BY <1>1, <2>1 DEF DumpString, BackInv
  <2>4. dumped' = "done" => source' = [text |-> Given']
    BY <1>1 DEF DumpString, Give, Given
  <2>5. Unread'
    BY <2>1 DEF BackInv, Unread
  <2>6. number'.type = "none"
    BY <2>1 DEF BackInv
  <2>. QED BY <2>2, <2>3, <2>4, <2>5, <2>6 DEF BackInv, ReadingBack
<1>2. CASE DumpNumber
  <2>1. dumped = "none" /\ dumped' = dumped
    BY <1>2 DEF DumpNumber, dumpVars, BackInv
  <2>. QED BY <2>1 DEF BackInv, WrittenSoFar
<1>3. CASE ReadText
  <2>1. /\ source # Nothing /\ LexerNext /\ number' = number
        /\ UNCHANGED <<text, output, string_buffer, dumped>>
    BY <1>3 DEF ReadText, dumpVars, numberVars
  <2>2. WrittenSoFar' /\ (dumped' # "none" => number'.type = "none")
    BY <2>1 DEF BackInv, WrittenSoFar
  <2>3. dumped # "running"
    BY <2>1 DEF BackInv
  <2>4. ASSUME dumped = "done"
        PROVE  source' = [text |-> Given'] /\ ReadingBack'
    <3>1. Reads
      <4>1. /\ text \in Seq(Bytes) /\ output \in Seq(Nat) /\ input \in Seq(Range(input))
            /\ LexerInv /\ IsUtf8Text(text) /\ source = [text |-> Given]
            /\ \E pos : Encoded(text, output, pos)
        BY <2>4 DEF TextInv, DumpInv, LexerInv, BackInv, WrittenSoFar, DumpsUtf8, Bytes
      <4>. QED BY <2>1, <2>4, <4>1 DEF Reads, Dumped
    <3>2. ReadingBack'
      BY <2>4, <3>1, ReadsStep DEF BackInv
    <3>3. source' = source
      <4>1. CASE UNCHANGED source
        BY <4>1
      <4>2. CASE ~UNCHANGED source
        BY <2>1, <4>2, LexerSource
      <4>. QED BY <4>1, <4>2
    <3>. QED BY <2>1, <2>4, <3>2, <3>3 DEF BackInv, Given
  <2>. QED BY <2>1, <2>2, <2>3, <2>4 DEF BackInv
<1>4. CASE UNCHANGED textVars
  <2>1. /\ UNCHANGED <<source, input, current, next_unget, at, tokens, todo, codepoint1,
                       token_buffer>>
        /\ UNCHANGED <<text, output, string_buffer, dumped, number>>
    BY <1>4 DEF textVars, vars, scratch, dumpVars, numberVars
  <2>2. ReadingBack => ReadingBack'
    <3>1. Inside => Inside'
      <4>. SUFFICES ASSUME NEW pos, NEW cuts, NEW i, Halfway(pos, cuts, i),
                           \/ AtCut(pos, cuts, i) \/ InCharacter(pos, cuts, i)
                           \/ InEscape(pos, cuts, i) \/ InHex(pos, cuts, i)
                    PROVE  Inside'
        BY DEF Inside
      <4>1. Halfway(pos, cuts, i)'
        BY <2>1 DEF Halfway, TokenSoFar
      <4>2. (\/ AtCut(pos, cuts, i) \/ InCharacter(pos, cuts, i)
             \/ InEscape(pos, cuts, i) \/ InHex(pos, cuts, i))'
        BY <2>1 DEF AtCut, InCharacter, InEscape, InHex
      <4>. QED BY <4>1, <4>2 DEF Inside
    <3>. QED BY <2>1, <3>1 DEF ReadingBack, Unread, Peeked, StringRead, AllRead, TheString
  <2>. QED BY <2>1, <2>2 DEF BackInv, WrittenSoFar, Unread, Given
<1>. QED BY <1>1, <1>2, <1>3, <1>4 DEF TextNext

(* For every string that is UTF-8: the lexer reads what dump() has written *)
(* of it, between quotes, as one string token with exactly its bytes, and  *)
(* then the end of the input.                                              *)
THEOREM StringsReadBack == TextSpec => []ReadsBack
<1>1. TextInit => BackInv
  BY BackStart
<1>2. TextInv /\ TextInv' /\ DumpsUtf8 /\ BackInv /\ [TextNext]_textVars => BackInv'
  BY BackStep
<1>3. BackInv => ReadsBack
  BY DEF BackInv, ReadsBack, ReadingBack, Unread, Peeked, Inside, AtCut, InCharacter,
         InEscape, InHex, StringRead, AllRead, TheString
<1>4. DumpsUtf8 /\ RejectsForGood => DumpsUtf8
  OBVIOUS
<1>. QED BY <1>1, <1>2, <1>3, <1>4, TextInvariant, DumpsExactlyUtf8, PTL DEF TextSpec

(***************************************************************************)
(* What strtoull and strtoll make of the digits.                           *)
(***************************************************************************)
Values(ds, n, pre) ==
  /\ n \in Nat /\ Len(ds) = n /\ pre \in [0 .. n -> Nat] /\ pre[0] = 0
  /\ \A i \in 1 .. n : pre[i - 1] <= 2 ^ IntBits /\ pre[i] = 10 * pre[i - 1] + (ds[i] - 48)

LEMMA ValueOfDigits ==
  ASSUME NEW ds, NEW n, NEW pre, Values(ds, n, pre)
  PROVE  DigitsValue(ds) = pre[n]
<1>. USE DEF Values
<1>. DEFINE F(v) == [i \in 0 .. Len(ds) |->
                       IF i = 0 THEN 0
                       ELSE IF v[i - 1] > 2 ^ IntBits THEN v[i - 1]
                       ELSE 10 * v[i - 1] + (ds[i] - 48)]
            value == CHOOSE v : v = F(v)
            full == 2 ^ IntBits
<1>1. DigitsValue(ds) = value[Len(ds)]
  BY DEF DigitsValue
<1>0. full \in Nat
  BY WidthAssumption
<1>2. pre = F(pre)
  <2>1. pre = [i \in 0 .. n |-> pre[i]]
    OBVIOUS
  <2>2. ASSUME NEW i \in 0 .. n
        PROVE  pre[i] = IF i = 0 THEN 0
                        ELSE IF pre[i - 1] > 2 ^ IntBits THEN pre[i - 1]
                        ELSE 10 * pre[i - 1] + (ds[i] - 48)
    <3>1. CASE i = 0
      BY <3>1
    <3>2. CASE i # 0
      <4>1. i \in 1 .. n /\ i - 1 \in 0 .. n
        BY <3>2
      <4>2. pre[i - 1] \in Nat /\ pre[i - 1] <= full /\ pre[i] = 10 * pre[i - 1] + (ds[i] - 48)
        BY <4>1
      <4>3. ~(pre[i - 1] > full)
        <5>. HIDE DEF full
        <5>. QED BY <1>0, <4>2
      <4>. QED BY <3>2, <4>2, <4>3
    <3>. QED BY <3>1, <3>2
  <2>. QED BY <2>1, <2>2, Zenon
<1>. HIDE DEF F
<1>3. value = F(value)
  BY <1>2
<1>. HIDE DEF value
<1>4. ASSUME NEW i \in 0 .. n
      PROVE  value[i] = IF i = 0 THEN 0
                        ELSE IF value[i - 1] > full THEN value[i - 1]
                        ELSE 10 * value[i - 1] + (ds[i] - 48)
  BY <1>3, Zenon DEF F
<1>. HIDE DEF full
<1>. DEFINE Bad == {k \in Nat : k <= n /\ value[k] # pre[k]}
<1>5. Bad = {}
  <2>. SUFFICES ASSUME Bad # {} PROVE FALSE
    OBVIOUS
  <2>1. PICK m \in Bad : \A k \in Bad : m <= k
    <3>1. Bad \in SUBSET Nat
      OBVIOUS
    <3>. HIDE DEF Bad
    <3>. QED BY <3>1, LeastNatural
  <2>2. m \in 0 .. n /\ value[m] # pre[m] /\ m \in Nat
    OBVIOUS
  <2>3. m # 0
    BY <1>4, <2>2
  <2>4. m - 1 \in Nat /\ m - 1 <= n /\ ~(m <= m - 1) /\ m \in 1 .. n
    BY <2>2, <2>3
  <2>5. m - 1 \notin Bad
    <3>. HIDE DEF Bad
    <3>. QED BY <2>1, <2>4
  <2>6. value[m - 1] = pre[m - 1]
    BY <2>4, <2>5
  <2>. HIDE DEF Bad
  <2>7. m - 1 \in 0 .. n
    BY <2>2, <2>4
  <2>8. pre[m - 1] \in Nat /\ pre[m - 1] <= full /\ pre[m] = 10 * pre[m - 1] + (ds[m] - 48)
    BY <2>4, <2>7 DEF full
  <2>9. ~(value[m - 1] > full)
    BY <1>0, <2>6, <2>8
  <2>. QED BY <1>4, <2>2, <2>3, <2>6, <2>8, <2>9
<1>6. value[n] = pre[n]
  <2>1. n \in Nat
    OBVIOUS
  <2>. HIDE DEF Values
  <2>. QED BY <1>5, <2>1
<1>. QED BY <1>1, <1>6

(***************************************************************************)
(* The text that dump_integer has written.                                 *)
(***************************************************************************)
Unsigned(w) == IF w[1] = Minus THEN Tail(w) ELSE w

IntegerText(w) ==
  /\ w \in Seq(Nat) /\ Len(w) > spent
  /\ w[1] = Minus <=> negative
  /\ \A i \in spent + 1 .. Len(w) : w[i] \in Digit
  /\ w[spent + 1] = 48 => Len(w) = 1 /\ ~negative
  /\ DigitsValue(Unsigned(w)) = Magnitude

LEMMA ZeroValue ==
  ASSUME NEW ds, Len(ds) = 1, ds[1] = 48
  PROVE  DigitsValue(ds) = 0
<1>. DEFINE zeros == [i \in 0 .. 1 |-> 0]
<1>1. zeros \in [0 .. 1 -> Nat] /\ zeros[0] = 0 /\ zeros[1] = 0
  OBVIOUS
<1>. HIDE DEF zeros
<1>2. ASSUME NEW i \in 1 .. 1
      PROVE  zeros[i - 1] <= 2 ^ IntBits /\ zeros[i] = 10 * zeros[i - 1] + (ds[i] - 48)
  <2>1. i = 1 /\ i - 1 = 0 /\ 0 <= 2 ^ IntBits
    BY WidthAssumption
  <2>2. zeros[i] = 0 /\ zeros[i - 1] = 0 /\ ds[i] = 48
    BY <1>1, <2>1
  <2>. QED BY <2>1, <2>2
<1>3. Values(ds, 1, zeros)
  BY <1>1, <1>2 DEF Values
<1>. QED BY <1>1, <1>3, ValueOfDigits

LEMMA ZeroText ==
  ASSUME number \in IntegerNumbers, ZeroWritten
  PROVE  IntegerText(written)
<1>. DEFINE w == <<48>>
<1>1. written = w /\ number.value = 0
  BY DEF ZeroWritten
<1>2. ~negative /\ Magnitude = 0 /\ spent = 0
  BY <1>1, Magnitudes DEF spent
<1>3. w \in Seq(Nat) /\ Len(w) = 1 /\ w[1] = 48 /\ w[1] # Minus /\ 48 \in Digit
  BY DEF Minus, Digit
<1>4. DigitsValue(w) = 0
  BY <1>3, ZeroValue
<1>. HIDE DEF w
<1>5. \A i \in spent + 1 .. Len(w) : w[i] \in Digit
  BY <1>2, <1>3
<1>6. Len(w) > spent /\ w[spent + 1] = 48
  BY <1>2, <1>3
<1>7. DigitsValue(Unsigned(w)) = Magnitude
  BY <1>2, <1>3, <1>4 DEF Unsigned
<1>. QED BY <1>1, <1>2, <1>3, <1>5, <1>6, <1>7 DEF IntegerText

LEMMA PlacedText ==
  ASSUME number \in IntegerNumbers, Placed
  PROVE  IntegerText(written)
<1>. DEFINE w == written
            full == 2 ^ IntBits
            n == Total - spent
            ds == Unsigned(w)
<1>1. /\ spent \in {0, 1} /\ Total \in Nat /\ Magnitude \in Nat /\ Total < NumberBuffer - 1
      /\ spent < Total /\ NumberBuffer \in Nat /\ (negative <=> spent = 1)
      /\ Magnitude < full /\ full \in Nat
  BY Magnitudes, WidthAssumption
<1>2. /\ w = [i \in 1 .. Total |-> number_buffer[i - 1]] /\ number_buffer[spent] # 48
      /\ Cells
  BY DEF Placed
<1>3. PICK pre : Digits(number_buffer, pre, spent) /\ pre[spent] = 0
  BY DEF Placed
<1>4. /\ pre \in [spent .. Total -> 0 .. Magnitude] /\ pre[Total] = Magnitude
      /\ \A i \in spent .. Total - 1 :
           number_buffer[i] \in Digit
           /\ pre[i + 1] = 10 * pre[i] + (number_buffer[i] - 48)
  BY <1>3 DEF Digits
<1>. HIDE DEF w, full
<1>5. ASSUME NEW i \in spent + 1 .. Total
      PROVE  /\ w[i] \in Digit /\ i - 1 \in spent .. Total - 1
             /\ pre[i] = 10 * pre[i - 1] + (w[i] - 48)
  <2>. DEFINE j == i - 1
  <2>1. j \in spent .. Total - 1 /\ i \in 1 .. Total /\ j + 1 = i
    BY <1>1
  <2>2. w[i] = number_buffer[j]
    BY <1>2, <2>1
  <2>. HIDE DEF j
  <2>3. number_buffer[j] \in Digit /\ pre[j + 1] = 10 * pre[j] + (number_buffer[j] - 48)
    BY <1>4, <2>1
  <2>4. pre[i] = 10 * pre[j] + (w[i] - 48)
    BY <2>1, <2>2, <2>3
  <2>. QED BY <2>1, <2>2, <2>3, <2>4 DEF j
<1>6. negative => w[1] = Minus
  BY <1>1, <1>2 DEF Cells
<1>7. ~negative => w[1] \in Digit
  <2>. SUFFICES ASSUME ~negative PROVE w[1] \in Digit
    OBVIOUS
  <2>1. 1 \in spent + 1 .. Total
    BY <1>1
  <2>. QED BY <1>5, <2>1
<1>8. w[1] = Minus <=> negative
  BY <1>6, <1>7 DEF Minus, Digit
<1>9. w \in Seq(Nat) /\ Len(w) = Total
  <2>1. ASSUME NEW i \in 1 .. Total PROVE w[i] \in Nat
    <3>1. CASE i \in spent + 1 .. Total
      BY <1>5, <3>1 DEF Digit
    <3>2. CASE i \notin spent + 1 .. Total
      <4>1. i = 1 /\ negative
        BY <1>1, <3>2
      <4>. QED BY <1>6, <4>1 DEF Minus
    <3>. QED BY <3>1, <3>2
  <2>2. w = [i \in 1 .. Total |-> w[i]]
    BY <1>2
  <2>. QED BY <1>1, <2>1, <2>2
<1>10. w[spent + 1] # 48
  <2>1. spent + 1 \in 1 .. Total /\ (spent + 1) - 1 = spent
    BY <1>1
  <2>. QED BY <1>2, <2>1
<1>11. Len(ds) = n /\ n \in Nat /\ \A i \in 1 .. n : ds[i] = w[spent + i]
  <2>1. CASE negative
    <3>1. ds = Tail(w) /\ spent = 1
      BY <1>1, <1>8, <2>1 DEF Unsigned
    <3>2. w # <<>>
      BY <1>1, <1>9
    <3>3. Len(Tail(w)) = Len(w) - 1 /\ \A i \in 1 .. Len(Tail(w)) : Tail(w)[i] = w[i + 1]
      BY <1>9, <3>2, HeadTailProperties
    <3>. HIDE DEF ds
    <3>4. Len(ds) = n /\ n \in Nat
      BY <1>1, <1>9, <3>1, <3>3
    <3>5. ASSUME NEW i \in 1 .. n PROVE ds[i] = w[spent + i]
      <4>1. i + 1 = spent + i /\ i \in 1 .. Len(Tail(w))
        BY <3>1, <3>4
      <4>. QED BY <3>1, <3>3, <4>1
    <3>. QED BY <3>4, <3>5
  <2>2. CASE ~negative
    <3>1. ds = w /\ spent = 0
      BY <1>1, <1>8, <2>2 DEF Unsigned
    <3>. QED BY <1>1, <1>9, <3>1
  <2>. QED BY <2>1, <2>2
<1>. DEFINE h == [i \in 0 .. n |-> pre[spent + i]]
<1>12. DigitsValue(ds) = Magnitude
  <2>. HIDE DEF ds
  <2>1. ASSUME NEW i \in 0 .. n
        PROVE  h[i] = pre[spent + i] /\ h[i] \in Nat /\ h[i] <= full
    <3>1. spent + i \in spent .. Total
      BY <1>1
    <3>2. pre[spent + i] \in 0 .. Magnitude
      BY <1>4, <3>1
    <3>. QED BY <1>1, <3>2
  <2>2. h \in [0 .. n -> Nat]
    BY <2>1
  <2>3. h[0] = 0 /\ h[n] = Magnitude
    <3>1. spent + 0 = spent /\ spent + n = Total /\ 0 \in 0 .. n /\ n \in 0 .. n
      BY <1>1, <1>11
    <3>. HIDE DEF h, n
    <3>. QED BY <1>3, <1>4, <2>1, <3>1
  <2>4. ASSUME NEW i \in 1 .. n
        PROVE  h[i - 1] <= full /\ h[i] = 10 * h[i - 1] + (ds[i] - 48)
    <3>. DEFINE k == spent + i
                j == i - 1
    <3>1. /\ k \in spent + 1 .. Total /\ k - 1 = spent + j /\ j \in 0 .. n /\ i \in 0 .. n
      BY <1>1
    <3>2. ds[i] = w[k]
      BY <1>11
    <3>. HIDE DEF k, h, j, n
    <3>3. pre[k] = 10 * pre[k - 1] + (w[k] - 48)
      BY <1>5, <3>1
    <3>4. h[i] = pre[k] /\ h[j] = pre[k - 1] /\ h[j] <= full
      BY <2>1, <3>1 DEF k
    <3>5. h[j] <= full /\ h[i] = 10 * h[j] + (ds[i] - 48)
      BY <3>2, <3>3, <3>4
    <3>. QED BY <3>5 DEF j
  <2>5. \A i \in 1 .. n : h[i - 1] <= 2 ^ IntBits /\ h[i] = 10 * h[i - 1] + (ds[i] - 48)
    BY <2>4 DEF full
  <2>6. Len(ds) = n /\ n \in Nat
    BY <1>11
  <2>. HIDE DEF h, n
  <2>7. DigitsValue(ds) = h[n]
    <3>1. Values(ds, n, h)
      BY <2>2, <2>3, <2>5, <2>6 DEF Values
    <3>. QED BY <3>1, ValueOfDigits
  <2>. QED BY <2>3, <2>7
<1>13. Len(w) > spent /\ \A i \in spent + 1 .. Len(w) : w[i] \in Digit
  BY <1>1, <1>5, <1>9
<1>. HIDE DEF ds
<1>. QED BY <1>8, <1>9, <1>10, <1>12, <1>13 DEF IntegerText, w, ds

LEMMA IntegerWritten ==
  ASSUME NumberInv, number \in IntegerNumbers, written # <<>>
  PROVE  IntegerText(written)
<1>1. ZeroWritten \/ Placed
  BY Types DEF NumberInv, NotBegun, Placing
<1>. QED BY <1>1, ZeroText, PlacedText

(***************************************************************************)
(* The text of a number: a sign, digits up to place a; a point and digits  *)
(* up to m, or m = a; an exponent after m, or none.                        *)
(***************************************************************************)
signed == written[1] = Minus
signs == IF signed THEN 1 ELSE 0

NumberText(w, a, m) ==
  /\ w \in Seq(Nat) /\ a \in Nat /\ m \in Nat /\ signs < a
  /\ \A i \in signs + 1 .. a : w[i] \in Digit
  /\ w[signs + 1] = 48 => a = signs + 1
  /\ \/ m = a
     \/ m >= a + 2 /\ w[a + 1] = Dot /\ \A i \in a + 2 .. m : w[i] \in Digit
  /\ \/ Len(w) = m
     \/ /\ Len(w) >= m + 3 /\ w[m + 1] = 101 /\ w[m + 2] \in {Plus, Minus}
        /\ \A i \in m + 3 .. Len(w) : w[i] \in Digit

(***************************************************************************)
(* What is to come of it.                                                  *)
(***************************************************************************)
IntegerType == IF signed THEN "value_integer" ELSE "value_unsigned"

TheToken(a) ==
  [type |-> IF a = Len(written) THEN IntegerType ELSE "value_float", text |-> written]

FitsWidth(a) == a = Len(written) => NumberType(IntegerType, written) = IntegerType

(***************************************************************************)
(* Where the lexer is in it: besides Unread, after the first byte has been *)
(* put back, in the number when k bytes have been read, after it, and at   *)
(* the end of the input.                                                   *)
(***************************************************************************)
FirstPeeked ==
  /\ at = "white" /\ Len(input) = 1 /\ next_unget = TRUE /\ current = written[1]
  /\ tokens = <<>>

Place(k, a, m) ==
  \/ at = "minus" /\ k = 1 /\ signed
  \/ at = "zero" /\ k = a /\ written[signs + 1] = 48
  \/ at = "any1" /\ signs < k /\ k <= a /\ written[signs + 1] # 48
  \/ at = "decimal1" /\ k = a + 1 /\ m > a
  \/ at = "decimal2" /\ a + 2 <= k /\ k <= m
  \/ at = "exponent" /\ k = m + 1
  \/ at = "sign" /\ k = m + 2
  \/ at = "any2" /\ m + 3 <= k

InNumber(k, a, m) ==
  /\ k \in 1 .. Len(written) /\ Len(input) = k /\ next_unget = FALSE /\ tokens = <<>>
  /\ token_buffer \in Seq(Nat) /\ Len(token_buffer) = k
  /\ \A j \in 1 .. k : token_buffer[j] = written[j]
  /\ number_type = IF k <= a THEN IntegerType ELSE "value_float"
  /\ Place(k, a, m)

NumberRead(a) ==
  /\ at \in {"idle", "white"} /\ next_unget = TRUE /\ current = Eof
  /\ Len(input) = Len(written) + 1 /\ tokens = <<TheToken(a)>>

NumberDone(a) == at = "stopped" /\ tokens = <<TheToken(a), Mark("end_of_input")>>

ReadingNumber(a, m) ==
  Unread \/ FirstPeeked \/ (\E k : InNumber(k, a, m)) \/ NumberRead(a) \/ NumberDone(a)

ReadsNumber(a, m) ==
  /\ LexerInv /\ LexerNext
  /\ NumberText(written, a, m) /\ FitsWidth(a) /\ source = [text |-> written]
  /\ UNCHANGED written

LEMMA NextOfText ==
  ASSUME NEW w, source = [text |-> w], next_unget = FALSE
  PROVE  NextBytes = {IF Len(input) < Len(w) THEN w[Len(input) + 1] ELSE Eof}
<1>1. source.text = w /\ "text" \in DOMAIN source
  OBVIOUS
<1>. QED BY <1>1 DEF NextBytes

LEMMA NumberFacts ==
  ASSUME NEW a, NEW m, ReadsNumber(a, m)
  PROVE  /\ signs \in {0, 1} /\ (signed <=> signs = 1) /\ signed \in BOOLEAN
         /\ Len(written) \in Nat /\ Len(written) >= m /\ m >= a /\ a > signs
         /\ a \in Nat /\ m \in Nat /\ written \in Seq(Nat)
         /\ Len(input) \in Nat /\ input \in Seq(Range(input))
         /\ written[1] \in Digit \cup {Minus}
         /\ UNCHANGED <<signed, signs, IntegerType, TheToken(a)>>
<1>1. NumberText(written, a, m) /\ LexerInv
  BY DEF ReadsNumber
<1>2. Len(written) \in Nat /\ Len(input) \in Nat
  BY <1>1, LenProperties DEF NumberText, LexerInv
<1>3. UNCHANGED <<signed, signs, IntegerType, TheToken(a)>>
  BY DEF ReadsNumber, signed, signs, IntegerType, TheToken
<1>4. signs \in {0, 1} /\ (signed <=> signs = 1) /\ signed \in BOOLEAN
  BY DEF signed, signs
<1>5. Len(written) >= m /\ m >= a
  BY <1>1, <1>2 DEF NumberText
<1>6. written[1] \in Digit \cup {Minus}
  <2>1. CASE signed
    BY <2>1 DEF signed
  <2>2. CASE ~signed
    <3>1. signs = 0
      BY <1>4, <2>2
    <3>2. 1 \in signs + 1 .. a
      BY <1>1, <3>1 DEF NumberText
    <3>. QED BY <1>1, <3>2 DEF NumberText
  <2>. QED BY <2>1, <2>2
<1>. QED BY <1>1, <1>2, <1>3, <1>4, <1>5, <1>6 DEF NumberText, LexerInv

LEMMA UnreadNumber ==
  ASSUME NEW a, NEW m, ReadsNumber(a, m), Unread
  PROVE  ReadingNumber(a, m)'
<1>1. /\ next_unget = FALSE /\ tokens = <<>> /\ input = <<>> /\ at \in {"idle", "bom"}
      /\ source = [text |-> written] /\ UNCHANGED written
  BY DEF ReadsNumber, Unread
<1>2. Len(written) > 0 /\ Len(input) = 0 /\ written[1] # 239
  <2>1. /\ Len(written) \in Nat /\ Len(written) >= m /\ m >= a /\ a > signs
        /\ a \in Nat /\ m \in Nat /\ signs \in {0, 1} /\ written[1] \in Digit \cup {Minus}
    BY NumberFacts
  <2>. QED BY <1>1, <2>1 DEF Digit, Minus
<1>3. CASE at = "idle"
  <2>1. Scan
    BY <1>3, StepByPlace DEF ReadsNumber
  <2>2. position.chars_read_total = 0
    <3>1. position.chars_read_total = Len(Consumed) /\ Consumed = <<>>
      BY <1>1 DEF ReadsNumber, LexerInv, PositionExact, Consumed
    <3>. QED BY <3>1
  <2>3. at' = "bom" /\ UNCHANGED <<input, next_unget, tokens>>
    BY <2>1, <2>2 DEF Scan
  <2>4. Unread'
    BY <1>1, <2>3 DEF Unread
  <2>. QED BY <2>4 DEF ReadingNumber
<1>4. CASE at = "bom"
  <2>1. skip_bom
    BY <1>4, StepByPlace DEF ReadsNumber
  <2>2. PICK c \in NextBytes :
          \/ c # 239 /\ GetUnget(c) /\ at' = "white" /\ UNCHANGED tokens
          \/ c = 239
    BY <1>4, <2>1 DEF skip_bom
  <2>3. c = written[1]
    <3>1. Len(input) < Len(written) /\ Len(input) + 1 = 1
      BY <1>2
    <3>2. NextBytes = {IF Len(input) < Len(written) THEN written[Len(input) + 1] ELSE Eof}
      BY <1>1, NextOfText
    <3>. QED BY <3>1, <3>2
  <2>4. GetUnget(c) /\ at' = "white" /\ UNCHANGED tokens
    BY <1>2, <2>2, <2>3
  <2>5. next_unget' = TRUE /\ input' = Append(<<>>, c) /\ current' = written'[1]
    BY <1>1, <2>3, <2>4 DEF GetUnget, Read
  <2>6. Len(input') = 1
    BY <2>5
  <2>7. FirstPeeked'
    BY <1>1, <2>4, <2>5, <2>6 DEF FirstPeeked
  <2>. QED BY <2>7 DEF ReadingNumber
<1>. QED BY <1>1, <1>3, <1>4

LEMMA PeekedNumber ==
  ASSUME NEW a, NEW m, ReadsNumber(a, m), FirstPeeked
  PROVE  ReadingNumber(a, m)'
<1>. DEFINE first == written[1]
<1>1. /\ at = "white" /\ Len(input) = 1 /\ next_unget = TRUE /\ current = first /\ tokens = <<>>
      /\ written' = written
  BY DEF ReadsNumber, FirstPeeked
<1>2. NextBytes = {first}
  BY <1>1 DEF NextBytes
<1>3. /\ first \in Digit \cup {Minus} /\ (first = Minus <=> signed)
  BY NumberFacts DEF signed
<1>4. /\ Len(written) \in Nat /\ Len(written) >= m /\ m >= a /\ a > signs /\ a \in Nat
      /\ m \in Nat /\ signs \in {0, 1} /\ (signed <=> signs = 1) /\ signed \in BOOLEAN
      /\ UNCHANGED <<signed, signs, IntegerType>>
  BY NumberFacts
<1>. HIDE DEF first
<1>5. first \notin White /\ first \notin DOMAIN Structure /\ first \notin DOMAIN Literals
      /\ first # Quote /\ first \notin {Nul, Eof}
  BY <1>3 DEF White, NewLine, Structure, Literals, Digit, Minus, Nul, Eof, Quote
<1>6. ~skip_whitespace
  BY <1>2, <1>5 DEF skip_whitespace
<1>7. Dispatch
  BY <1>1, <1>6, StepByPlace DEF ReadsNumber
<1>8. PICK c \in NextBytes :
        /\ Get(c)
        /\ \/ c \in DOMAIN Structure
           \/ c \in DOMAIN Literals
           \/ c = Quote
           \/ /\ at' = CASE c = Minus -> "minus" [] c = 48 -> "zero" [] OTHER -> "any1"
              /\ number_type' = IF c = Minus THEN "value_integer" ELSE "value_unsigned"
              /\ token_buffer' = <<c>>
              /\ UNCHANGED tokens
           \/ c \in {Nul, Eof}
           \/ c \notin DOMAIN Structure \cup DOMAIN Literals \cup Digit
                        \cup {Quote, Minus, Nul, Eof}
  BY <1>7 DEF Dispatch
<1>9. c = first
  BY <1>2, <1>8
<1>10. /\ at' = CASE c = Minus -> "minus" [] c = 48 -> "zero" [] OTHER -> "any1"
       /\ number_type' = IF c = Minus THEN "value_integer" ELSE "value_unsigned"
       /\ token_buffer' = <<c>>
       /\ UNCHANGED tokens
  BY <1>3, <1>5, <1>8, <1>9
<1>11. input' = input /\ next_unget' = FALSE
  BY <1>1, <1>8 DEF Get, Read
<1>12. number_type' = IntegerType'
  <2>1. number_type' = IntegerType
    BY <1>3, <1>9, <1>10 DEF IntegerType
  <2>. QED BY <1>4, <2>1
<1>13. /\ token_buffer' \in Seq(Nat) /\ Len(token_buffer') = 1
       /\ \A j \in 1 .. 1 : token_buffer'[j] = written'[j]
  <2>1. first \in Nat
    BY <1>3 DEF Digit, Minus
  <2>2. <<first>> \in Seq(Nat) /\ Len(<<first>>) = 1 /\ <<first>>[1] = first
    BY <2>1
  <2>3. token_buffer' = <<first>>
    BY <1>9, <1>10
  <2>4. token_buffer' \in Seq(Nat) /\ Len(token_buffer') = 1 /\ token_buffer'[1] = first
    BY <2>2, <2>3
  <2>. QED BY <1>1, <2>4 DEF first
<1>14. Place(1, a, m)'
  <2>1. CASE c = Minus
    <3>1. at' = "minus"
      BY <1>10, <2>1 DEF Minus
    <3>. QED BY <1>3, <1>4, <1>9, <2>1, <3>1 DEF Place
  <2>2. CASE c = 48
    <3>1. at' = "zero"
      BY <1>10, <2>2 DEF Minus
    <3>2. signs = 0 /\ written[signs + 1] = 48
      <4>1. first = 48 /\ first # Minus
        BY <1>9, <2>2 DEF Minus
      <4>2. signs = 0
        BY <1>3, <1>4, <4>1
      <4>. QED BY <4>1, <4>2 DEF first
    <3>3. a = 1
      BY <3>2 DEF ReadsNumber, NumberText
    <3>. QED BY <1>1, <1>4, <3>1, <3>2, <3>3 DEF Place
  <2>3. CASE c # Minus /\ c # 48
    <3>1. at' = "any1"
      BY <1>10, <2>3
    <3>2. signs = 0
      BY <1>3, <1>4, <1>9, <2>3
    <3>3. signs < 1 /\ 1 <= a /\ written[signs + 1] # 48
      BY <1>4, <1>9, <2>3, <3>2 DEF first
    <3>. QED BY <1>1, <1>4, <3>1, <3>3 DEF Place
  <2>. QED BY <2>1, <2>2, <2>3
<1>15. InNumber(1, a, m)'
  <2>1. 1 \in 1 .. Len(written') /\ Len(input') = 1 /\ tokens' = <<>> /\ 1 <= a
    BY <1>1, <1>4, <1>10, <1>11
  <2>. QED BY <1>11, <1>12, <1>13, <1>14, <2>1 DEF InNumber
<1>. QED BY <1>15 DEF ReadingNumber

LEMMA StepInNumber ==
  ASSUME LexerNext,
         at \in {"minus", "zero", "any1", "decimal1", "decimal2", "exponent", "sign", "any2"}
  PROVE  scan_number
<1>1. at \notin {"idle", "bom", "bom2", "bom3", "white", "literal", "string", "range", "escape",
                "hex", "low1", "low2"}
  OBVIOUS
<1>2. ~Scan /\ ~skip_bom
  BY <1>1 DEF Scan, skip_bom
<1>3. ~skip_whitespace /\ ~Dispatch /\ ~scan_literal
  BY <1>1 DEF skip_whitespace, Dispatch, scan_literal
<1>4. ~scan_string /\ ~next_byte_in_range
  BY <1>1 DEF scan_string, next_byte_in_range
<1>5. ~Escape /\ ~EscapeHex /\ ~EscapeLow
  BY <1>1 DEF Escape, EscapeHex, EscapeLow
<1>. QED BY <1>2, <1>3, <1>4, <1>5 DEF LexerNext

(* The ways out of the first places.                                       *)
LEMMA Ways ==
  ASSUME NEW x \in Arcs
  PROVE  /\ x[1] = "minus" =>
              x = <<"minus", {48}, "zero">> \/ x = <<"minus", 49 .. 57, "any1">>
         /\ x[1] = "any1" => \/ x = <<"any1", Digit, "any1">>
                             \/ x = <<"any1", {Dot}, "decimal1">>
                             \/ x = <<"any1", Exponents, "exponent">>
  BY DEF Arcs, IntegerArcs, FractionArcs, ExponentArcs

(* A byte has one way through the automaton at most.                       *)
LEMMA OneArc ==
  ASSUME NEW x \in Arcs, NEW y \in Arcs, x[1] = y[1], NEW c, c \in x[2], c \in y[2]
  PROVE  x[3] = y[3]
<1>. USE DEF Digit, Dot, Exponents, Plus, Minus
<1>1. CASE x[1] = "minus"
  <2>. HIDE DEF Digit, Dot, Exponents, Plus, Minus
  <2>1. \/ x = <<"minus", {48}, "zero">>
        \/ x = <<"minus", 49 .. 57, "any1">>
    BY <1>1, Ways
  <2>2. \/ y = <<"minus", {48}, "zero">>
        \/ y = <<"minus", 49 .. 57, "any1">>
    BY <1>1, Ways
  <2>3. ~(c \in {48} /\ c \in 49 .. 57)
    OBVIOUS
  <2>. QED BY <2>1, <2>2, <2>3
<1>2. CASE x[1] = "zero"
  BY <1>2 DEF Arcs, IntegerArcs, FractionArcs, ExponentArcs
<1>3. CASE x[1] = "any1"
  <2>. HIDE DEF Digit, Dot, Exponents, Plus, Minus
  <2>1. \/ x = <<"any1", Digit, "any1">>
        \/ x = <<"any1", {Dot}, "decimal1">>
        \/ x = <<"any1", Exponents, "exponent">>
    BY <1>3, Ways
  <2>2. \/ y = <<"any1", Digit, "any1">>
        \/ y = <<"any1", {Dot}, "decimal1">>
        \/ y = <<"any1", Exponents, "exponent">>
    BY <1>3, Ways
  <2>3. /\ ~(c \in Digit /\ c \in {Dot}) /\ ~(c \in Digit /\ c \in Exponents)
        /\ ~(c \in {Dot} /\ c \in Exponents)
    BY DEF Digit, Dot, Exponents
  <2>. QED BY <2>1, <2>2, <2>3
<1>4. CASE x[1] \in {"decimal1", "decimal2"}
  BY <1>4 DEF Arcs, IntegerArcs, FractionArcs, ExponentArcs
<1>5. CASE x[1] \in {"exponent", "sign", "any2"}
  BY <1>5 DEF Arcs, IntegerArcs, FractionArcs, ExponentArcs
<1>6. x[1] \in {"minus", "zero", "any1", "decimal1", "decimal2", "exponent", "sign", "any2"}
  BY DEF Arcs, IntegerArcs, FractionArcs, ExponentArcs
<1>. QED BY <1>1, <1>2, <1>3, <1>4, <1>5, <1>6

LEMMA NumberByte ==
  ASSUME scan_number, NEW c, NextBytes = {c}, NEW arc \in Arcs, at = arc[1], c \in arc[2]
  PROVE  /\ Get(c) /\ at' = arc[3] /\ add(<<c>>) /\ UNCHANGED tokens
         /\ number_type' = IF arc[3] \in {"decimal1", "exponent"} THEN "value_float"
                           ELSE number_type
<1>1. PICK x \in Arcs :
         /\ at = x[1] /\ c \in x[2] /\ Get(c)
         /\ at' = x[3] /\ add(<<c>>)
         /\ number_type' = IF x[3] \in {"decimal1", "exponent"} THEN "value_float"
                           ELSE number_type
         /\ UNCHANGED tokens
  BY DEF scan_number
<1>2. x[3] = arc[3]
  BY <1>1, OneArc
<1>. QED BY <1>1, <1>2

LEMMA NumberEnd ==
  ASSUME scan_number, NextBytes = {Eof}, at \in {"zero", "any1", "decimal2", "any2"}
  PROVE  /\ GetUnget(Eof)
         /\ Token(NumberType(number_type, token_buffer), token_buffer)
<1>1. ASSUME NEW arc \in Arcs PROVE Eof \notin arc[2]
  <2>1. arc[2] \in {Digit, {Dot}, Exponents, {48}, 49 .. 57, {Plus, Minus}}
    BY DEF Arcs, IntegerArcs, FractionArcs, ExponentArcs
  <2>. QED BY <2>1 DEF Digit, Dot, Exponents, Plus, Minus, Eof
<1>. QED BY <1>1 DEF scan_number

LEMMA AppendLength ==
  ASSUME NEW s, s \in Seq(Range(s)), NEW c
  PROVE  Len(Append(s, c)) = Len(s) + 1
<1>1. s \in Seq(Range(s) \cup {c})
  BY SeqMonotonic
<1>. QED BY <1>1, AppendProperties

LEMMA FrontLength ==
  ASSUME NEW S, NEW s \in Seq(S), Len(s) >= 1
  PROVE  Len(Front(s)) = Len(s) - 1
<1>1. Len(s) \in Nat
  BY LenProperties
<1>. DEFINE n == Len(s) - 1
<1>2. n \in Nat
  BY <1>1
<1>3. ASSUME NEW i \in 1 .. n PROVE s[i] \in S
  <2>1. i \in 1 .. Len(s)
    BY <1>1
  <2>. HIDE DEF n
  <2>. QED BY <2>1, ElementOfSeq
<1>. HIDE DEF n
<1>4. Len(SubSeq(s, 1, n)) = IF 1 <= n THEN n - 1 + 1 ELSE 0
  BY <1>2, <1>3, SubSeqProperties
<1>5. Len(SubSeq(s, 1, n)) = n
  BY <1>2, <1>4
<1>. QED BY <1>5 DEF Front, n

LEMMA AddOne ==
  ASSUME NEW s \in Seq(Nat), NEW k \in Nat, Len(s) = k, NEW t, NEW c \in Nat, c = t[k + 1],
         \A j \in 1 .. k : s[j] = t[j]
  PROVE  /\ s \o <<c>> \in Seq(Nat) /\ Len(s \o <<c>>) = k + 1
         /\ \A j \in 1 .. k + 1 : (s \o <<c>>)[j] = t[j]
<1>. DEFINE one == <<c>>
<1>1. one \in Seq(Nat) /\ Len(one) = 1 /\ one[1] = c
  OBVIOUS
<1>. HIDE DEF one
<1>2. /\ s \o one \in Seq(Nat) /\ Len(s \o one) = k + 1
      /\ \A j \in 1 .. k + 1 : (s \o one)[j] = IF j <= k THEN s[j] ELSE one[j - k]
  <2>1. /\ s \o one \in Seq(Nat) /\ Len(s \o one) = Len(s) + Len(one)
        /\ \A j \in 1 .. Len(s) + Len(one) :
             (s \o one)[j] = IF j <= Len(s) THEN s[j] ELSE one[j - Len(s)]
    BY <1>1, ConcatProperties
  <2>. QED BY <1>1, <2>1
<1>3. ASSUME NEW j \in 1 .. k + 1 PROVE (s \o one)[j] = t[j]
  <2>1. CASE j <= k
    BY <1>2, <2>1
  <2>2. CASE j = k + 1
    <3>1. ~(j <= k) /\ j - k = 1
      BY <2>2
    <3>2. (s \o one)[j] = one[j - k]
      BY <1>2, <3>1
    <3>. QED BY <1>1, <2>2, <3>1, <3>2
  <2>3. j <= k \/ j = k + 1
    OBVIOUS
  <2>. QED BY <2>1, <2>2, <2>3
<1>. QED BY <1>2, <1>3 DEF one

(***************************************************************************)
(* The next byte of the text, and the way that it takes.                   *)
(***************************************************************************)
Way(from, c, to) == \E arc \in Arcs : arc[1] = from /\ c \in arc[2] /\ arc[3] = to

LEMMA NumberWays ==
  /\ \A c \in Digit : /\ c # 48 => Way("minus", c, "any1")
                     /\ Way("any1", c, "any1") /\ Way("decimal1", c, "decimal2")
                     /\ Way("decimal2", c, "decimal2") /\ Way("sign", c, "any2")
                     /\ Way("any2", c, "any2")
  /\ Way("minus", 48, "zero")
  /\ Way("zero", Dot, "decimal1") /\ Way("any1", Dot, "decimal1")
  /\ Way("zero", 101, "exponent") /\ Way("any1", 101, "exponent")
  /\ Way("decimal2", 101, "exponent")
  /\ \A c \in {Plus, Minus} : Way("exponent", c, "sign")
<1>1. ASSUME NEW x \in Arcs, NEW c \in x[2]
      PROVE  Way(x[1], c, x[3])
  BY DEF Way
<1>2. ASSUME NEW c \in Digit
      PROVE  /\ c # 48 => Way("minus", c, "any1")
             /\ Way("any1", c, "any1") /\ Way("decimal1", c, "decimal2")
             /\ Way("decimal2", c, "decimal2") /\ Way("sign", c, "any2")
             /\ Way("any2", c, "any2")
  <2>1. c # 48 => c \in 49 .. 57
    BY DEF Digit
  <2>2. /\ <<"minus", 49 .. 57, "any1">> \in Arcs /\ <<"any1", Digit, "any1">> \in Arcs
        /\ <<"decimal1", Digit, "decimal2">> \in Arcs
        /\ <<"decimal2", Digit, "decimal2">> \in Arcs
        /\ <<"sign", Digit, "any2">> \in Arcs /\ <<"any2", Digit, "any2">> \in Arcs
    BY DEF Arcs, IntegerArcs, FractionArcs, ExponentArcs
  <2>. QED BY <1>1, <2>1, <2>2
<1>3. /\ <<"minus", {48}, "zero">> \in Arcs
      /\ <<"zero", {Dot}, "decimal1">> \in Arcs /\ <<"any1", {Dot}, "decimal1">> \in Arcs
      /\ <<"zero", Exponents, "exponent">> \in Arcs
      /\ <<"any1", Exponents, "exponent">> \in Arcs
      /\ <<"decimal2", Exponents, "exponent">> \in Arcs
      /\ <<"exponent", {Plus, Minus}, "sign">> \in Arcs
  BY DEF Arcs, IntegerArcs, FractionArcs, ExponentArcs
<1>4. 101 \in Exponents
  BY DEF Exponents
<1>. QED BY <1>1, <1>2, <1>3, <1>4

(* Where a byte leads from one place to the next.                          *)
NextPlace(k, a, m, to) ==
  \/ to = "zero" /\ k = a /\ written[signs + 1] = 48
  \/ to = "any1" /\ signs < k /\ k <= a /\ written[signs + 1] # 48
  \/ to = "decimal1" /\ k = a + 1 /\ m > a
  \/ to = "decimal2" /\ a + 2 <= k /\ k <= m
  \/ to = "exponent" /\ k = m + 1
  \/ to = "sign" /\ k = m + 2
  \/ to = "any2" /\ m + 3 <= k

LEMMA NextWay ==
  ASSUME NEW a, NEW m, NumberText(written, a, m), NEW k \in Nat, k < Len(written), k >= 1,
         Place(k, a, m)
  PROVE  \E to : /\ Way(at, written[k + 1], to) /\ NextPlace(k + 1, a, m, to)
                 /\ k + 1 > a => (to \in {"decimal1", "exponent"} \/ k > a)
                 /\ k + 1 <= a => to \notin {"decimal1", "exponent"}
                 /\ written[k + 1] \in Nat
<1>. DEFINE c == written[k + 1]
            n == Len(written)
            lead == written[signs + 1]
<1>1. /\ a \in Nat /\ m \in Nat /\ n \in Nat /\ signs < a /\ signs \in {0, 1}
      /\ (signed <=> signs = 1) /\ signed \in BOOLEAN
      /\ \A i \in signs + 1 .. a : written[i] \in Digit
      /\ lead = 48 => a = signs + 1
  <2>1. signs \in {0, 1} /\ (signed <=> signs = 1) /\ signed \in BOOLEAN
    BY DEF signed, signs
  <2>2. n \in Nat
    BY LenProperties DEF NumberText
  <2>3. a \in Nat /\ m \in Nat /\ signs < a
    BY DEF NumberText
  <2>4. \A i \in signs + 1 .. a : written[i] \in Digit
    BY DEF NumberText
  <2>5. lead = 48 => a = signs + 1
    BY DEF NumberText
  <2>. QED BY <2>1, <2>2, <2>3, <2>4, <2>5
<1>2. m = a \/ (m >= a + 2 /\ written[a + 1] = Dot /\ \A i \in a + 2 .. m : written[i] \in Digit)
  BY DEF NumberText
<1>3. \/ n = m
      \/ /\ n >= m + 3 /\ written[m + 1] = 101 /\ written[m + 2] \in {Plus, Minus}
         /\ \A i \in m + 3 .. n : written[i] \in Digit
  BY DEF NumberText
<1>4. c \in Nat
  <2>1. k + 1 \in 1 .. Len(written) /\ written \in Seq(Nat)
    BY <1>1 DEF NumberText
  <2>. QED BY <2>1, ElementOfSeq
<1>5. k < n /\ k \in Nat /\ k >= 1
  OBVIOUS
<1>6. signs < k /\ k < a => c \in Digit /\ lead # 48
  <2>. SUFFICES ASSUME signs < k, k < a PROVE c \in Digit /\ lead # 48
    OBVIOUS
  <2>1. k + 1 \in signs + 1 .. a
    BY <1>1, <1>5
  <2>. QED BY <1>1, <1>5, <2>1
<1>7. k = signs => c = lead /\ c \in Digit /\ signs = 1 /\ k = 1
  <2>. SUFFICES ASSUME k = signs PROVE c = lead /\ c \in Digit /\ signs = 1
    BY <1>5
  <2>1. signs + 1 \in signs + 1 .. a
    BY <1>1
  <2>. QED BY <1>1, <1>5, <2>1
<1>8. k = a /\ m > a => c = Dot
  BY <1>2
<1>9. k > a /\ k < m => m >= a + 2 /\ c \in Digit
  <2>. SUFFICES ASSUME k > a, k < m PROVE m >= a + 2 /\ c \in Digit
    OBVIOUS
  <2>1. m # a /\ k + 1 \in a + 2 .. m
    BY <1>1, <1>5
  <2>. QED BY <1>2, <2>1
<1>10. k = m => c = 101 /\ n >= m + 3
  BY <1>3, <1>5
<1>11. k = m + 1 => c \in {Plus, Minus} /\ n >= m + 3
  <2>. SUFFICES ASSUME k = m + 1 PROVE c \in {Plus, Minus} /\ n >= m + 3
    OBVIOUS
  <2>1. n # m /\ k + 1 = m + 2
    BY <1>1, <1>5
  <2>. QED BY <1>3, <2>1
<1>12. k >= m + 2 => c \in Digit
  <2>. SUFFICES ASSUME k >= m + 2 PROVE c \in Digit
    OBVIOUS
  <2>1. n # m /\ k + 1 \in m + 3 .. n
    BY <1>1, <1>5
  <2>. QED BY <1>3, <2>1
<1>13. m >= a
  BY <1>1, <1>2
<1>14. \E to : Way(at, c, to) /\ NextPlace(k + 1, a, m, to)
                 /\ (k + 1 > a => (to \in {"decimal1", "exponent"} \/ k > a))
                 /\ (k + 1 <= a => to \notin {"decimal1", "exponent"})
  <2>. HIDE DEF c, n
  <2>1. CASE at = "minus" /\ k = 1 /\ signed
    <3>1. k = signs /\ c = lead /\ c \in Digit /\ k + 1 = signs + 1 /\ k + 1 <= a
      BY <1>1, <1>5, <1>7, <2>1
    <3>2. CASE c = 48
      <4>1. Way(at, c, "zero") /\ k + 1 = a /\ ~(k + 1 > a)
        BY <1>1, <2>1, <3>1, <3>2, NumberWays
      <4>2. NextPlace(k + 1, a, m, "zero")
        BY <3>1, <3>2, <4>1 DEF NextPlace
      <4>. QED BY <4>1, <4>2
    <3>3. CASE c # 48
      <4>1. Way(at, c, "any1") /\ ~(k + 1 > a)
        BY <1>1, <2>1, <3>1, <3>3, NumberWays
      <4>2. NextPlace(k + 1, a, m, "any1")
        BY <1>1, <3>1, <3>3 DEF NextPlace
      <4>. QED BY <4>1, <4>2
    <3>. QED BY <3>2, <3>3
  <2>2. CASE at \in {"zero", "any1"} /\ k = a
    <3>1. CASE m > a
      <4>1. Way(at, c, "decimal1")
        BY <1>8, <2>2, <3>1, NumberWays
      <4>2. NextPlace(k + 1, a, m, "decimal1") /\ ~(k + 1 <= a)
        BY <1>1, <2>2, <3>1 DEF NextPlace
      <4>. QED BY <4>1, <4>2
    <3>2. CASE m = a
      <4>1. Way(at, c, "exponent")
        BY <1>10, <2>2, <3>2, NumberWays
      <4>2. NextPlace(k + 1, a, m, "exponent") /\ ~(k + 1 <= a)
        BY <1>1, <2>2, <3>2 DEF NextPlace
      <4>. QED BY <4>1, <4>2
    <3>. QED BY <1>1, <1>13, <3>1, <3>2
  <2>3. CASE at = "any1" /\ signs < k /\ k < a
    <3>1. Way(at, c, "any1") /\ lead # 48
      BY <1>6, <2>3, NumberWays
    <3>2. NextPlace(k + 1, a, m, "any1") /\ ~(k + 1 > a)
      BY <1>1, <1>5, <2>3, <3>1 DEF NextPlace
    <3>. QED BY <3>1, <3>2
  <2>4. CASE at = "decimal1" /\ k = a + 1 /\ m > a
    <3>1. m >= a + 2 /\ k < m
      BY <1>1, <1>2, <2>4
    <3>2. Way(at, c, "decimal2")
      BY <1>1, <1>9, <2>4, <3>1, NumberWays
    <3>3. NextPlace(k + 1, a, m, "decimal2") /\ ~(k + 1 <= a) /\ k > a
      BY <1>1, <2>4, <3>1 DEF NextPlace
    <3>. QED BY <3>2, <3>3
  <2>5. CASE at = "decimal2" /\ a + 2 <= k /\ k < m
    <3>1. Way(at, c, "decimal2")
      BY <1>1, <1>5, <1>9, <2>5, NumberWays
    <3>2. NextPlace(k + 1, a, m, "decimal2") /\ ~(k + 1 <= a) /\ k > a
      BY <1>1, <1>5, <2>5 DEF NextPlace
    <3>. QED BY <3>1, <3>2
  <2>6. CASE at = "decimal2" /\ a + 2 <= k /\ k = m
    <3>1. Way(at, c, "exponent")
      BY <1>10, <2>6, NumberWays
    <3>2. NextPlace(k + 1, a, m, "exponent") /\ ~(k + 1 <= a) /\ k > a
      BY <1>1, <2>6 DEF NextPlace
    <3>. QED BY <3>1, <3>2
  <2>7. CASE at = "exponent" /\ k = m + 1
    <3>1. Way(at, c, "sign")
      BY <1>11, <2>7, NumberWays
    <3>2. NextPlace(k + 1, a, m, "sign") /\ ~(k + 1 <= a) /\ k > a
      BY <1>1, <1>13, <2>7 DEF NextPlace
    <3>. QED BY <3>1, <3>2
  <2>8. CASE at \in {"sign", "any2"} /\ k >= m + 2
    <3>1. Way(at, c, "any2")
      BY <1>12, <2>8, NumberWays
    <3>2. NextPlace(k + 1, a, m, "any2") /\ ~(k + 1 <= a) /\ k > a
      BY <1>1, <1>5, <1>13, <2>8 DEF NextPlace
    <3>. QED BY <3>1, <3>2
  <2>9. \/ at = "minus" /\ k = 1 /\ signed
        \/ at \in {"zero", "any1"} /\ k = a
        \/ at = "any1" /\ signs < k /\ k < a
        \/ at = "decimal1" /\ k = a + 1 /\ m > a
        \/ at = "decimal2" /\ a + 2 <= k /\ k < m
        \/ at = "decimal2" /\ a + 2 <= k /\ k = m
        \/ at = "exponent" /\ k = m + 1
        \/ at \in {"sign", "any2"} /\ k >= m + 2
    BY <1>1, <1>5 DEF Place
  <2>. QED BY <2>1, <2>2, <2>3, <2>4, <2>5, <2>6, <2>7, <2>8, <2>9
<1>. QED BY <1>4, <1>14

LEMMA LastPlace ==
  ASSUME NEW a, NEW m, NumberText(written, a, m), NEW k, k = Len(written), Place(k, a, m)
  PROVE  /\ at \in {"zero", "any1", "decimal2", "any2"}
         /\ k <= a <=> a = Len(written)
<1>. DEFINE n == Len(written)
<1>1. signs \in {0, 1} /\ (signed <=> signs = 1)
  BY DEF signed, signs
<1>2. n \in Nat
  BY LenProperties DEF NumberText
<1>3. a \in Nat /\ m \in Nat /\ signs < a /\ (m = a \/ m >= a + 2) /\ (n = m \/ n >= m + 3)
  BY DEF NumberText
<1>. HIDE DEF n
<1>4. n <= a <=> a = n
  BY <1>2, <1>3
<1>5. \/ at = "minus" /\ n = 1 /\ signed
      \/ at = "decimal1" /\ n = a + 1 /\ m > a
      \/ at = "exponent" /\ n = m + 1
      \/ at = "sign" /\ n = m + 2
      \/ at \in {"zero", "any1", "decimal2", "any2"}
  BY DEF Place, n
<1>. QED BY <1>1, <1>2, <1>3, <1>4, <1>5 DEF n

LEMMA InNumberStep ==
  ASSUME NEW a, NEW m, ReadsNumber(a, m), NEW k, InNumber(k, a, m)
  PROVE  ReadingNumber(a, m)'
<1>1. /\ k \in 1 .. Len(written) /\ Len(input) = k /\ next_unget = FALSE /\ tokens = <<>>
      /\ token_buffer \in Seq(Nat) /\ Len(token_buffer) = k
      /\ \A j \in 1 .. k : token_buffer[j] = written[j]
      /\ number_type = (IF k <= a THEN IntegerType ELSE "value_float")
      /\ Place(k, a, m)
      /\ source = [text |-> written] /\ written' = written
      /\ NumberText(written, a, m) /\ FitsWidth(a) /\ LexerNext
  BY DEF ReadsNumber, InNumber
<1>2. /\ Len(written) \in Nat /\ written \in Seq(Nat) /\ a \in Nat
      /\ Len(input) \in Nat /\ input \in Seq(Range(input))
      /\ UNCHANGED <<signed, signs, IntegerType, TheToken(a)>>
  BY NumberFacts
<1>3. scan_number
  <2>1. at \in {"minus", "zero", "any1", "decimal1", "decimal2", "exponent", "sign", "any2"}
    BY <1>1 DEF Place
  <2>. QED BY <1>1, <2>1, StepInNumber
<1>4. PICK c : NextBytes = {c} /\ c = IF k < Len(written) THEN written[k + 1] ELSE Eof
  BY <1>1, NextOfText
<1>5. CASE k < Len(written)
  <2>1. c = written[k + 1] /\ k \in Nat /\ k + 1 \in 1 .. Len(written) /\ k >= 1
    BY <1>1, <1>2, <1>4, <1>5
  <2>2. PICK to : /\ Way(at, c, to) /\ NextPlace(k + 1, a, m, to)
                  /\ k + 1 > a => (to \in {"decimal1", "exponent"} \/ k > a)
                  /\ k + 1 <= a => to \notin {"decimal1", "exponent"}
                  /\ c \in Nat
    BY <1>1, <1>5, <2>1, NextWay
  <2>3. PICK arc \in Arcs : arc[1] = at /\ c \in arc[2] /\ arc[3] = to
    BY <2>2 DEF Way
  <2>4. /\ Get(c) /\ at' = to /\ add(<<c>>) /\ UNCHANGED tokens
        /\ number_type' = IF to \in {"decimal1", "exponent"} THEN "value_float" ELSE number_type
    BY <1>3, <1>4, <2>3, NumberByte
  <2>5. next_unget' = FALSE /\ Len(input') = k + 1
    <3>1. input' = Append(input, c) /\ next_unget' = FALSE
      BY <1>1, <2>4 DEF Get, Read
    <3>. QED BY <1>1, <1>2, <3>1, AppendLength
  <2>6. /\ token_buffer' \in Seq(Nat) /\ Len(token_buffer') = k + 1
        /\ \A j \in 1 .. k + 1 : token_buffer'[j] = written'[j]
    <3>1. token_buffer' = token_buffer \o <<c>>
      BY <2>4 DEF add
    <3>. QED BY <1>1, <2>1, <2>2, <3>1, AddOne
  <2>7. number_type' = IF k + 1 <= a THEN IntegerType' ELSE "value_float"
    BY <1>1, <1>2, <2>1, <2>2, <2>4
  <2>8. Place(k + 1, a, m)'
    BY <1>1, <1>2, <2>2, <2>4 DEF Place, NextPlace
  <2>9. InNumber(k + 1, a, m)'
    BY <1>1, <2>1, <2>4, <2>5, <2>6, <2>7, <2>8 DEF InNumber
  <2>. QED BY <2>9 DEF ReadingNumber
<1>6. CASE k = Len(written)
  <2>1. c = Eof
    BY <1>1, <1>2, <1>4, <1>6
  <2>2. /\ at \in {"zero", "any1", "decimal2", "any2"}
        /\ k <= a <=> a = Len(written)
    BY <1>1, <1>6, LastPlace
  <2>3. /\ GetUnget(Eof) /\ Token(NumberType(number_type, token_buffer), token_buffer)
    BY <1>3, <1>4, <2>1, <2>2, NumberEnd
  <2>4. token_buffer = written
    BY <1>1, <1>2, <1>6, SeqEqual
  <2>5. NumberType(number_type, token_buffer) = TheToken(a).type
    <3>1. TheToken(a).type = IF a = Len(written) THEN IntegerType ELSE "value_float"
      BY DEF TheToken
    <3>2. NumberType("value_float", written) = "value_float"
      BY DEF NumberType
    <3>. QED BY <1>1, <2>2, <2>4, <3>1, <3>2 DEF FitsWidth
  <2>6. tokens' = <<TheToken(a)>> /\ at' = "idle"
    <3>1. tokens' = Append(tokens, [type |-> TheToken(a).type, text |-> written]) /\ at' = "idle"
      BY <2>3, <2>4, <2>5 DEF Token
    <3>2. TheToken(a) = [type |-> TheToken(a).type, text |-> written]
      BY DEF TheToken
    <3>. QED BY <1>1, <3>1, <3>2
  <2>7. next_unget' = TRUE /\ current' = Eof /\ Len(input') = Len(written') + 1
    <3>1. input' = Append(input, Eof) /\ next_unget' = TRUE /\ current' = Eof
      BY <1>1, <2>3 DEF GetUnget, Read
    <3>. QED BY <1>1, <1>2, <1>6, <3>1, AppendLength
  <2>8. NumberRead(a)'
    BY <1>2, <2>6, <2>7 DEF NumberRead
  <2>. QED BY <2>8 DEF ReadingNumber
<1>. QED BY <1>1, <1>2, <1>5, <1>6

LEMMA NumberReadStep ==
  ASSUME NEW a, NEW m, ReadsNumber(a, m), NumberRead(a)
  PROVE  ReadingNumber(a, m)'
<1>1. /\ at \in {"idle", "white"} /\ next_unget = TRUE /\ current = Eof
      /\ Len(input) = Len(written) + 1 /\ tokens = <<TheToken(a)>> /\ written' = written
  BY DEF ReadsNumber, NumberRead
<1>2. /\ Len(written) \in Nat /\ Len(written) >= m /\ m >= a /\ a > signs /\ signs \in {0, 1}
      /\ a \in Nat /\ m \in Nat
      /\ UNCHANGED TheToken(a) /\ input \in Seq(Range(input))
  BY NumberFacts
<1>3. CASE at = "idle"
  <2>1. Scan
    BY <1>3, StepByPlace DEF ReadsNumber
  <2>2. position.chars_read_total # 0
    <3>1. position.chars_read_total = Len(Front(input))
      BY <1>1 DEF ReadsNumber, LexerInv, PositionExact, Consumed
    <3>2. Len(Front(input)) = Len(input) - 1
      BY <1>1, <1>2, FrontLength
    <3>. QED BY <1>1, <1>2, <3>1, <3>2
  <2>3. at' = "white" /\ UNCHANGED <<input, next_unget, current, tokens>>
    BY <2>1, <2>2 DEF Scan
  <2>4. NumberRead(a)'
    BY <1>1, <1>2, <2>3 DEF NumberRead
  <2>. QED BY <2>4 DEF ReadingNumber
<1>4. CASE at = "white"
  <2>1. NextBytes = {Eof}
    BY <1>1 DEF NextBytes
  <2>2. Eof \notin White /\ Eof \notin DOMAIN Structure /\ Eof \notin DOMAIN Literals
        /\ Eof \notin Digit \cup {Minus} /\ Eof # Quote
    BY DEF White, NewLine, Structure, Literals, Digit, Minus, Eof, Quote
  <2>3. ~skip_whitespace
    BY <2>1, <2>2 DEF skip_whitespace
  <2>4. Dispatch
    BY <1>4, <2>3, StepByPlace DEF ReadsNumber
  <2>5. PICK c \in NextBytes :
          \/ c \in DOMAIN Structure
          \/ c \in DOMAIN Literals
          \/ c = Quote
          \/ c \in Digit \cup {Minus}
          \/ Stop("end_of_input")
          \/ c \notin DOMAIN Structure \cup DOMAIN Literals \cup Digit
                       \cup {Quote, Minus, Nul, Eof}
    BY <2>4 DEF Dispatch
  <2>6. Stop("end_of_input")
    BY <2>1, <2>2, <2>5
  <2>7. tokens' = <<TheToken(a), Mark("end_of_input")>> /\ at' = "stopped"
    <3>. DEFINE end == Mark("end_of_input")
    <3>1. tokens' = Append(tokens, end) /\ at' = "stopped"
      BY <2>6 DEF Stop
    <3>2. tokens = <<TheToken(a)>>
      BY <1>1
    <3>. HIDE DEF end
    <3>3. Append(<<TheToken(a)>>, end) = <<TheToken(a), end>>
      BY AppendToOne
    <3>. QED BY <3>1, <3>2, <3>3 DEF end
  <2>8. NumberDone(a)'
    BY <1>2, <2>7 DEF NumberDone, Mark
  <2>. QED BY <2>8 DEF ReadingNumber
<1>. QED BY <1>1, <1>3, <1>4

LEMMA ReadsNumberStep ==
  ASSUME NEW a, NEW m, ReadsNumber(a, m), ReadingNumber(a, m)
  PROVE  ReadingNumber(a, m)'
<1>1. ~NumberDone(a)
  BY StepByPlace DEF ReadsNumber, NumberDone
<1>. QED BY <1>1, UnreadNumber, PeekedNumber, InNumberStep, NumberReadStep DEF ReadingNumber

(***************************************************************************)
(* The digits of a text, without the zeros around them.                    *)
(***************************************************************************)
LEMMA LeastOf ==
  ASSUME NEW S \in SUBSET Nat, NEW m \in S, \A y \in S : m <= y
  PROVE  Min(S) = m
<1>. DEFINE c == Min(S)
<1>1. c \in S /\ \A y \in S : c <= y
  <2>1. \E x \in S : \A y \in S : x <= y
    OBVIOUS
  <2>2. c = CHOOSE x \in S : \A y \in S : x <= y
    BY Zenon DEF Min
  <2>. QED BY <2>1, <2>2, Zenon
<1>. HIDE DEF c
<1>2. c <= m /\ m <= c /\ c \in Nat /\ m \in Nat
  BY <1>1
<1>3. c = m
  BY <1>2
<1>. QED BY <1>3 DEF c

LEMMA GreatestOf ==
  ASSUME NEW S \in SUBSET Nat, NEW m \in S, \A y \in S : m >= y
  PROVE  Max(S) = m
<1>. DEFINE c == Max(S)
<1>1. c \in S /\ \A y \in S : c >= y
  <2>1. \E x \in S : \A y \in S : x >= y
    OBVIOUS
  <2>2. c = CHOOSE x \in S : \A y \in S : x >= y
    BY Zenon DEF Max
  <2>. QED BY <2>1, <2>2, Zenon
<1>. HIDE DEF c
<1>2. c >= m /\ m >= c /\ c \in Nat /\ m \in Nat
  BY <1>1
<1>3. c = m
  BY <1>2
<1>. QED BY <1>3 DEF c

LEMMA GreatestNatural ==
  ASSUME NEW n \in Nat, NEW S \in SUBSET (1 .. n), S # {}
  PROVE  \E m \in S : \A y \in S : m >= y
<1>. DEFINE T == {n - x : x \in S}
<1>1. T \in SUBSET Nat /\ T # {}
  <2>1. \A x \in S : n - x \in Nat
    OBVIOUS
  <2>. QED BY <2>1
<1>2. PICK k \in T : \A y \in T : k <= y
  <2>. HIDE DEF T
  <2>. QED BY <1>1, LeastNatural
<1>3. PICK m \in S : k = n - m
  BY <1>2
<1>4. ASSUME NEW y \in S PROVE m >= y
  <2>1. n - y \in T
    OBVIOUS
  <2>2. n - m <= n - y
    BY <1>2, <1>3, <2>1
  <2>. QED BY <2>2
<1>. QED BY <1>4

Places(s) == {i \in DOMAIN s : s[i] # 48}

(* V is ds between zeros. *)
Padded(V, ds, lead, trail) ==
  /\ lead \in Nat /\ trail \in Nat /\ Len(V) = lead + Len(ds) + trail
  /\ \A i \in 1 .. Len(V) :
       V[i] = IF lead < i /\ i <= lead + Len(ds) THEN ds[i - lead] ELSE 48

LEMMA PaddedPlaces ==
  ASSUME NEW ds \in Seq(Nat), NEW V \in Seq(Nat), NEW lead, NEW trail,
         Padded(V, ds, lead, trail)
  PROVE  /\ Places(V) \subseteq 1 .. Len(V) /\ Places(ds) \subseteq 1 .. Len(ds)
         /\ \A i \in Places(V) : i - lead \in Places(ds)
         /\ \A j \in Places(ds) : lead + j \in Places(V)
<1>. DEFINE k == Len(ds)
            n == Len(V)
<1>1. k \in Nat /\ n \in Nat /\ DOMAIN ds = 1 .. k /\ DOMAIN V = 1 .. n
  BY LenProperties
<1>2. /\ lead \in Nat /\ trail \in Nat /\ n = lead + k + trail
      /\ \A i \in 1 .. n : V[i] = IF lead < i /\ i <= lead + k THEN ds[i - lead] ELSE 48
  BY DEF Padded
<1>. HIDE DEF k, n
<1>3. ASSUME NEW i \in Places(V) PROVE i - lead \in Places(ds)
  <2>1. i \in 1 .. n /\ V[i] # 48
    BY <1>1 DEF Places
  <2>2. lead < i /\ i <= lead + k /\ V[i] = ds[i - lead]
    BY <1>2, <2>1
  <2>3. i - lead \in 1 .. k
    BY <1>1, <1>2, <2>1, <2>2
  <2>. QED BY <1>1, <2>1, <2>2, <2>3 DEF Places
<1>4. ASSUME NEW j \in Places(ds) PROVE lead + j \in Places(V)
  <2>1. j \in 1 .. k /\ ds[j] # 48
    BY <1>1 DEF Places
  <2>2. lead + j \in 1 .. n /\ lead < lead + j /\ lead + j <= lead + k /\ (lead + j) - lead = j
    BY <1>1, <1>2, <2>1
  <2>3. V[lead + j] = ds[j]
    BY <1>2, <2>2
  <2>. QED BY <1>1, <2>1, <2>2, <2>3 DEF Places
<1>. QED BY <1>1, <1>3, <1>4 DEF Places, k, n

LEMMA PaddedNormal ==
  ASSUME NEW ds \in Seq(Nat), NEW V \in Seq(Nat), NEW lead, NEW trail,
         Padded(V, ds, lead, trail), NEW sign, NEW e \in Int, NEW p \in Int,
         ds # <<>> => ds[1] # 48 /\ p = e - trail
  PROVE  Normal(sign, V, p) = Normal(sign, ds, e)
<1>. DEFINE P == Places(ds)
            Q == Places(V)
            k == Len(ds)
            n == Len(V)
<1>1. /\ Normal(sign, ds, e) =
           IF P = {} THEN [signbit |-> sign, digits |-> <<>>, exponent |-> 0]
           ELSE [signbit |-> sign, digits |-> SubSeq(ds, Min(P), Max(P)),
                 exponent |-> e + k - Max(P)]
      /\ Normal(sign, V, p) =
           IF Q = {} THEN [signbit |-> sign, digits |-> <<>>, exponent |-> 0]
           ELSE [signbit |-> sign, digits |-> SubSeq(V, Min(Q), Max(Q)),
                 exponent |-> p + n - Max(Q)]
  BY DEF Normal, Places
<1>2. /\ Q \subseteq 1 .. n /\ P \subseteq 1 .. k
      /\ \A i \in Q : i - lead \in P
      /\ \A j \in P : lead + j \in Q
  BY PaddedPlaces
<1>3. /\ k \in Nat /\ n \in Nat /\ DOMAIN ds = 1 .. k
      /\ \A i \in 1 .. k : ds[i] \in Nat
  BY LenProperties
<1>4. /\ lead \in Nat /\ trail \in Nat /\ n = lead + k + trail
      /\ \A i \in 1 .. n : V[i] = IF lead < i /\ i <= lead + k THEN ds[i - lead] ELSE 48
  BY DEF Padded
<1>5. ds # <<>> => k >= 1
  BY <1>3, EmptySeq
<1>6. CASE ds = <<>>
  <2>1. k = 0
    BY <1>6
  <2>. HIDE DEF P, Q, k, n
  <2>2. P = {}
    BY <1>2, <2>1
  <2>3. Q = {}
    BY <1>2, <2>2
  <2>. QED BY <1>1, <2>2, <2>3
<1>7. CASE ds # <<>>
  <2>1. 1 \in P
    BY <1>3, <1>5, <1>7 DEF Places
  <2>. HIDE DEF P, Q, k, n
  <2>2. P \in SUBSET Nat /\ Q \in SUBSET Nat /\ P # {}
    BY <1>2, <2>1
  <2>3. Min(P) = 1
    <3>1. \A y \in P : 1 <= y
      BY <1>2
    <3>. QED BY <2>1, <2>2, <3>1, LeastOf
  <2>4. PICK m \in P : \A y \in P : m >= y
    BY <1>2, <1>3, <2>2, GreatestNatural
  <2>5. Max(P) = m
    BY <2>2, <2>4, GreatestOf
  <2>6. m \in 1 .. k
    BY <1>2
  <2>7. lead + 1 \in Q /\ lead + m \in Q
    BY <1>2, <2>1
  <2>8. ASSUME NEW y \in Q PROVE lead + 1 <= y /\ lead + m >= y
    <3>1. y - lead \in P /\ y \in 1 .. n
      BY <1>2
    <3>2. y - lead \in 1 .. k /\ m >= y - lead
      BY <1>2, <2>4, <3>1
    <3>. QED BY <1>3, <1>4, <2>6, <3>1, <3>2
  <2>9. Min(Q) = lead + 1 /\ Max(Q) = lead + m
    BY <2>2, <2>7, <2>8, LeastOf, GreatestOf
  <2>10. SubSeq(V, lead + 1, lead + m) = SubSeq(ds, 1, m)
    <3>. DEFINE b == lead + 1
                t == lead + m
    <3>1. b \in Int /\ t \in Int /\ b <= t /\ t - b + 1 = m /\ m - 1 + 1 = m /\ m \in Int
      BY <1>4, <2>6
    <3>2. ASSUME NEW i \in b .. t PROVE V[i] = ds[i - lead] /\ i - lead \in 1 .. k
      <4>1. i \in 1 .. n /\ lead < i /\ i <= lead + k /\ i - lead \in 1 .. k
        BY <1>3, <1>4, <2>6
      <4>. QED BY <1>4, <4>1
    <3>3. \A i \in b .. t : V[i] \in Nat
      BY <1>3, <3>2
    <3>4. \A i \in 1 .. m : ds[i] \in Nat
      BY <1>3, <2>6
    <3>. HIDE DEF b, t
    <3>5. /\ SubSeq(V, b, t) \in Seq(Nat) /\ Len(SubSeq(V, b, t)) = m
          /\ \A i \in 1 .. m : SubSeq(V, b, t)[i] = V[b + i - 1]
      <4>1. /\ SubSeq(V, b, t) \in Seq(Nat)
            /\ Len(SubSeq(V, b, t)) = IF b <= t THEN t - b + 1 ELSE 0
            /\ \A i \in 1 .. t - b + 1 : SubSeq(V, b, t)[i] = V[b + i - 1]
        BY <3>1, <3>3, SubSeqProperties
      <4>. QED BY <3>1, <4>1
    <3>6. /\ SubSeq(ds, 1, m) \in Seq(Nat) /\ Len(SubSeq(ds, 1, m)) = m
          /\ \A i \in 1 .. m : SubSeq(ds, 1, m)[i] = ds[i]
      <4>1. /\ SubSeq(ds, 1, m) \in Seq(Nat)
            /\ Len(SubSeq(ds, 1, m)) = IF 1 <= m THEN m - 1 + 1 ELSE 0
            /\ \A i \in 1 .. m - 1 + 1 : SubSeq(ds, 1, m)[i] = ds[1 + i - 1]
        BY <3>1, <3>4, SubSeqProperties
      <4>2. ASSUME NEW i \in 1 .. m PROVE SubSeq(ds, 1, m)[i] = ds[i]
        <5>1. 1 + i - 1 = i /\ i \in 1 .. m - 1 + 1
          BY <3>1
        <5>. QED BY <4>1, <5>1
      <4>. QED BY <2>6, <3>1, <4>1, <4>2
    <3>7. ASSUME NEW i \in 1 .. m PROVE SubSeq(V, b, t)[i] = SubSeq(ds, 1, m)[i]
      <4>1. b + i - 1 \in b .. t /\ (b + i - 1) - lead = i
        BY <1>4, <2>6 DEF b, t
      <4>. QED BY <3>2, <3>5, <3>6, <4>1
    <3>8. SubSeq(V, b, t) = SubSeq(ds, 1, m)
      BY <3>5, <3>6, <3>7, SeqEqual
    <3>. QED BY <3>8 DEF b, t
  <2>11. p + n - (lead + m) = e + k - m
    BY <1>3, <1>4, <1>7, <2>6
  <2>12. P # {} /\ Q # {}
    BY <2>1, <2>7
  <2>. QED BY <1>1, <2>3, <2>5, <2>9, <2>10, <2>11, <2>12
<1>. QED BY <1>6, <1>7

(***************************************************************************)
(* The text of a double without its sign: what DecimalOf finds in it.      *)
(***************************************************************************)
UnsignedText(u, a, m) ==
  /\ u \in Seq(Nat) /\ a \in Nat /\ m \in Nat /\ 0 < a
  /\ \A i \in 1 .. a : u[i] \in Digit
  /\ u[1] = 48 => a = 1
  /\ \/ m = a
     \/ m >= a + 2 /\ u[a + 1] = Dot /\ \A i \in a + 2 .. m : u[i] \in Digit
  /\ \/ Len(u) = m
     \/ /\ Len(u) >= m + 3 /\ u[m + 1] = 101 /\ u[m + 2] \in {Plus, Minus}
        /\ \A i \in m + 3 .. Len(u) : u[i] \in Digit

(* The digits after the point, and all digits. *)
Places10(a, m) == IF m = a THEN 0 ELSE m - a - 1
Digits10(u, a, m) == [i \in 1 .. a + Places10(a, m) |-> IF i <= a THEN u[i] ELSE u[i + 1]]

FloatText(u, ds, e) ==
  \E a, m, lead, trail :
    /\ UnsignedText(u, a, m) /\ a < Len(u)
    /\ Padded(Digits10(u, a, m), ds, lead, trail)
    /\ Power(SubSeq(u, m + 2, Len(u))) - Places10(a, m) \in Int
    /\ ds # <<>> => ds[1] # 48 /\ Power(SubSeq(u, m + 2, Len(u))) - Places10(a, m) = e - trail

LEMMA Before1 ==
  ASSUME NEW s \in Seq(Nat), NEW marks, NEW n \in Nat, n <= Len(s),
         \A i \in 1 .. n : s[i] \notin marks, n = Len(s) \/ s[n + 1] \in marks
  PROVE  LengthBefore(s, marks) = n
<1>. DEFINE S == {i \in DOMAIN s : s[i] \in marks}
            k == Len(s)
<1>1. LengthBefore(s, marks) = IF S = {} THEN k ELSE Min(S) - 1
  BY DEF LengthBefore
<1>2. k \in Nat /\ S = {i \in 1 .. k : s[i] \in marks} /\ n <= k
  BY LenProperties
<1>3. CASE n = k
  <2>1. S = {}
    <3>. HIDE DEF k
    <3>. QED BY <1>2, <1>3
  <2>. QED BY <1>1, <1>3, <2>1
<1>4. CASE n # k
  <2>. HIDE DEF S, k
  <2>1. n + 1 \in S
    BY <1>2, <1>4 DEF k
  <2>2. S \in SUBSET Nat
    BY <1>2
  <2>3. ASSUME NEW y \in S PROVE n + 1 <= y
    <3>1. y \in 1 .. k /\ s[y] \in marks
      BY <1>2
    <3>2. y \notin 1 .. n
      BY <3>1
    <3>. QED BY <3>1, <3>2
  <2>4. Min(S) = n + 1
    BY <2>1, <2>2, <2>3, LeastOf
  <2>5. S # {}
    BY <2>1
  <2>. QED BY <1>1, <2>4, <2>5
<1>. QED BY <1>3, <1>4

LEMMA SubText ==
  ASSUME NEW s \in Seq(Nat), NEW b \in Nat, NEW n \in Nat, b >= 1, n <= Len(s)
  PROVE  /\ SubSeq(s, b, n) \in Seq(Nat)
         /\ Len(SubSeq(s, b, n)) = IF b <= n THEN n - b + 1 ELSE 0
         /\ \A i \in 1 .. n - b + 1 : SubSeq(s, b, n)[i] = s[b + i - 1]
<1>1. \A i \in b .. n : s[i] \in Nat
  <2>1. \A i \in 1 .. Len(s) : s[i] \in Nat
    BY ElementOfSeq
  <2>2. Len(s) \in Nat
    BY LenProperties
  <2>. QED BY <2>1, <2>2
<1>. QED BY <1>1, SubSeqProperties

LEMMA TextFacts ==
  ASSUME NEW u, NEW a, NEW m, UnsignedText(u, a, m)
  PROVE  /\ Len(u) \in Nat /\ a \in Nat /\ m \in Nat /\ 0 < a /\ a <= m /\ m <= Len(u)
         /\ u \in Seq(Nat)
         /\ m = a \/ m >= a + 2
         /\ \A i \in 1 .. m : u[i] \in Digit \cup {Dot}
         /\ Places10(a, m) \in Nat
         /\ a + Places10(a, m) = IF m = a THEN a ELSE m - 1
<1>1. Len(u) \in Nat
  BY LenProperties DEF UnsignedText
<1>2. a \in Nat /\ m \in Nat /\ 0 < a /\ u \in Seq(Nat)
  BY DEF UnsignedText
<1>3. m = a \/ (m >= a + 2 /\ u[a + 1] = Dot /\ \A i \in a + 2 .. m : u[i] \in Digit)
  BY DEF UnsignedText
<1>4. Len(u) = m \/ Len(u) >= m + 3
  BY DEF UnsignedText
<1>5. ASSUME NEW i \in 1 .. m PROVE u[i] \in Digit \cup {Dot}
  <2>1. CASE i <= a
    <3>1. i \in 1 .. a
      BY <1>2, <2>1
    <3>. QED BY <3>1 DEF UnsignedText
  <2>2. CASE i = a + 1
    <3>1. m # a
      BY <1>2, <2>2
    <3>. QED BY <1>3, <2>2, <3>1
  <2>3. CASE i > a + 1
    <3>1. m # a /\ i \in a + 2 .. m
      BY <1>2, <2>3
    <3>. QED BY <1>3, <3>1
  <2>. QED BY <1>2, <2>1, <2>2, <2>3
<1>6. a <= m /\ m <= Len(u) /\ (m = a \/ m >= a + 2)
  BY <1>1, <1>2, <1>3, <1>4
<1>7. /\ Places10(a, m) \in Nat
      /\ a + Places10(a, m) = IF m = a THEN a ELSE m - 1
  BY <1>2, <1>6 DEF Places10
<1>. QED BY <1>1, <1>2, <1>5, <1>6, <1>7

LEMMA MantissaLength ==
  ASSUME NEW u, NEW a, NEW m, UnsignedText(u, a, m)
  PROVE  LengthBefore(u, Exponents) = m
<1>1. /\ Len(u) \in Nat /\ m \in Nat /\ m <= Len(u) /\ u \in Seq(Nat)
      /\ \A i \in 1 .. m : u[i] \in Digit \cup {Dot}
  BY TextFacts
<1>2. \A i \in 1 .. m : u[i] \notin Exponents
  <2>1. \A c \in Digit \cup {Dot} : c \notin Exponents
    BY DEF Digit, Dot, Exponents
  <2>. QED BY <1>1, <2>1
<1>3. m = Len(u) \/ u[m + 1] \in Exponents
  BY DEF UnsignedText, Exponents
<1>. QED BY <1>1, <1>2, <1>3, Before1

LEMMA WholeLength ==
  ASSUME NEW u, NEW a, NEW m, UnsignedText(u, a, m)
  PROVE  LengthBefore(SubSeq(u, 1, m), {Dot}) = a
<1>. DEFINE s == SubSeq(u, 1, m)
<1>1. /\ Len(u) \in Nat /\ m \in Nat /\ m <= Len(u) /\ u \in Seq(Nat) /\ a \in Nat /\ a <= m
      /\ 0 < a
  BY TextFacts
<1>2. s \in Seq(Nat) /\ Len(s) = m /\ \A i \in 1 .. m : s[i] = u[i]
  <2>1. /\ s \in Seq(Nat) /\ Len(s) = IF 1 <= m THEN m - 1 + 1 ELSE 0
        /\ \A i \in 1 .. m - 1 + 1 : s[i] = u[1 + i - 1]
    BY <1>1, SubText
  <2>2. m - 1 + 1 = m /\ 1 <= m
    BY <1>1
  <2>3. ASSUME NEW i \in 1 .. m PROVE s[i] = u[i]
    <3>1. 1 + i - 1 = i /\ i \in 1 .. m - 1 + 1
      BY <1>1
    <3>. HIDE DEF s
    <3>. QED BY <2>1, <3>1
  <2>. HIDE DEF s
  <2>. QED BY <2>1, <2>2, <2>3
<1>. HIDE DEF s
<1>3. \A i \in 1 .. a : s[i] \notin {Dot}
  <2>1. ASSUME NEW i \in 1 .. a PROVE s[i] \notin {Dot}
    <3>1. i \in 1 .. m
      BY <1>1
    <3>2. s[i] = u[i] /\ u[i] \in Digit
      BY <1>2, <3>1 DEF UnsignedText
    <3>. QED BY <3>2 DEF Digit, Dot
  <2>. QED BY <2>1
<1>4. a = Len(s) \/ s[a + 1] \in {Dot}
  <2>1. CASE m = a
    BY <1>2, <2>1
  <2>2. CASE m # a
    <3>1. u[a + 1] = Dot /\ m >= a + 2
      BY <2>2 DEF UnsignedText
    <3>2. a + 1 \in 1 .. m
      BY <1>1, <3>1
    <3>. QED BY <1>2, <3>1, <3>2
  <2>. QED BY <2>1, <2>2
<1>5. LengthBefore(s, {Dot}) = a
  BY <1>1, <1>2, <1>3, <1>4, Before1
<1>. QED BY <1>5 DEF s

LEMMA AllDigits ==
  ASSUME NEW u, NEW a, NEW m, UnsignedText(u, a, m)
  PROVE  /\ Len(SubSeq(u, 1, m)) = m /\ Len(SubSeq(SubSeq(u, 1, m), 1, a)) = a
         /\ Len(SubSeq(SubSeq(u, 1, m), a + 2, m)) = Places10(a, m)
         /\ SubSeq(SubSeq(u, 1, m), 1, a) \o SubSeq(SubSeq(u, 1, m), a + 2, m)
              = Digits10(u, a, m)
         /\ Digits10(u, a, m) \in Seq(Nat)
<1>. DEFINE mantissa == SubSeq(u, 1, m)
            whole == SubSeq(mantissa, 1, a)
            fraction == SubSeq(mantissa, a + 2, m)
            f == Places10(a, m)
            V == Digits10(u, a, m)
            b == a + 2
<1>1. /\ Len(u) \in Nat /\ m \in Nat /\ m <= Len(u) /\ u \in Seq(Nat) /\ a \in Nat /\ a <= m
      /\ 0 < a /\ (m = a \/ m >= a + 2) /\ f \in Nat /\ f = IF m = a THEN 0 ELSE m - a - 1
  BY TextFacts DEF Places10
<1>2. mantissa \in Seq(Nat) /\ Len(mantissa) = m /\ \A i \in 1 .. m : mantissa[i] = u[i]
  <2>1. /\ mantissa \in Seq(Nat) /\ Len(mantissa) = IF 1 <= m THEN m - 1 + 1 ELSE 0
        /\ \A i \in 1 .. m - 1 + 1 : mantissa[i] = u[1 + i - 1]
    BY <1>1, SubText
  <2>2. m - 1 + 1 = m /\ 1 <= m
    BY <1>1
  <2>3. ASSUME NEW i \in 1 .. m PROVE mantissa[i] = u[i]
    <3>1. 1 + i - 1 = i /\ i \in 1 .. m - 1 + 1
      BY <1>1
    <3>. HIDE DEF mantissa
    <3>. QED BY <2>1, <3>1
  <2>. HIDE DEF mantissa
  <2>. QED BY <2>1, <2>2, <2>3
<1>. HIDE DEF mantissa, f, V
<1>3. whole \in Seq(Nat) /\ Len(whole) = a /\ \A i \in 1 .. a : whole[i] = u[i]
  <2>1. /\ whole \in Seq(Nat) /\ Len(whole) = IF 1 <= a THEN a - 1 + 1 ELSE 0
        /\ \A i \in 1 .. a - 1 + 1 : whole[i] = mantissa[1 + i - 1]
    <3>1. a <= Len(mantissa)
      BY <1>1, <1>2
    <3>. QED BY <1>1, <1>2, <3>1, SubText
  <2>2. a - 1 + 1 = a /\ 1 <= a
    BY <1>1
  <2>3. ASSUME NEW i \in 1 .. a PROVE whole[i] = u[i]
    <3>1. 1 + i - 1 = i /\ i \in 1 .. a - 1 + 1 /\ i \in 1 .. m
      BY <1>1
    <3>. HIDE DEF whole
    <3>. QED BY <1>2, <2>1, <3>1
  <2>. HIDE DEF whole
  <2>. QED BY <2>1, <2>2, <2>3
<1>4. fraction \in Seq(Nat) /\ Len(fraction) = f /\ \A i \in 1 .. f : fraction[i] = u[a + i + 1]
  <2>. DEFINE q == SubSeq(mantissa, b, m)
  <2>1. b \in Nat /\ b >= 1
    BY <1>1
  <2>2. m <= Len(mantissa)
    BY <1>1, <1>2
  <2>. HIDE DEF b
  <2>3. /\ q \in Seq(Nat) /\ Len(q) = IF b <= m THEN m - b + 1 ELSE 0
        /\ \A i \in 1 .. m - b + 1 : q[i] = mantissa[b + i - 1]
    BY <1>1, <1>2, <2>1, <2>2, SubText
  <2>. HIDE DEF q
  <2>4. Len(q) = f
    BY <1>1, <2>1, <2>3 DEF b
  <2>5. ASSUME NEW i \in 1 .. f PROVE q[i] = u[a + i + 1]
    <3>1. i \in 1 .. m - b + 1 /\ b + i - 1 = a + i + 1 /\ a + i + 1 \in 1 .. m
      BY <1>1 DEF b
    <3>. QED BY <1>2, <2>3, <3>1
  <2>6. q = fraction
    BY DEF q, b
  <2>. HIDE DEF fraction
  <2>. QED BY <2>3, <2>4, <2>5, <2>6
<1>. HIDE DEF whole, fraction
<1>5. V = [i \in 1 .. a + f |-> IF i <= a THEN u[i] ELSE u[i + 1]]
  BY DEF V, f, Digits10
<1>6. /\ whole \o fraction \in Seq(Nat) /\ Len(whole \o fraction) = a + f
      /\ \A i \in 1 .. a + f :
           (whole \o fraction)[i] = IF i <= a THEN whole[i] ELSE fraction[i - a]
  BY <1>3, <1>4, ConcatProperties
<1>. DEFINE w == whole \o fraction
<1>. HIDE DEF w
<1>7. ASSUME NEW i \in 1 .. a + f PROVE w[i] = V[i]
  <2>1. CASE i <= a
    <3>1. i \in 1 .. a
      BY <1>1, <2>1
    <3>. QED BY <1>3, <1>5, <1>6, <2>1, <3>1 DEF w
  <2>2. CASE ~(i <= a)
    <3>1. i - a \in 1 .. f /\ a + (i - a) + 1 = i + 1
      BY <1>1, <2>2
    <3>2. w[i] = fraction[i - a]
      BY <1>6, <2>2 DEF w
    <3>3. fraction[i - a] = u[i + 1]
      BY <1>4, <3>1
    <3>. QED BY <1>5, <2>2, <3>2, <3>3
  <2>. QED BY <2>1, <2>2
<1>8. w = V /\ V \in Seq(Nat)
  <2>1. w \in Seq(Nat) /\ Len(w) = a + f
    BY <1>6 DEF w
  <2>2. DOMAIN w = 1 .. a + f /\ w = [i \in 1 .. a + f |-> w[i]]
    BY <2>1
  <2>3. V = [i \in 1 .. a + f |-> V[i]]
    BY <1>5
  <2>4. w = V
    BY <1>7, <2>2, <2>3, Zenon
  <2>. QED BY <2>1, <2>4
<1>. QED BY <1>2, <1>3, <1>4, <1>8 DEF w, mantissa, whole, fraction, f, V

LEMMA TailOfSigned ==
  ASSUME NEW u \in Seq(Nat), NEW c \in Nat
  PROVE  /\ <<c>> \o u \in Seq(Nat) /\ Len(<<c>> \o u) = Len(u) + 1
         /\ (<<c>> \o u)[1] = c /\ \A i \in 1 .. Len(u) : (<<c>> \o u)[i + 1] = u[i]
         /\ Tail(<<c>> \o u) = u
<1>. DEFINE one == <<c>>
            w == one \o u
            n == Len(u)
<1>1. one \in Seq(Nat) /\ Len(one) = 1 /\ one[1] = c /\ n \in Nat
  BY LenProperties
<1>. HIDE DEF one
<1>2. w \in Seq(Nat) /\ Len(w) = 1 + n
      /\ \A i \in 1 .. 1 + n : w[i] = IF i <= 1 THEN one[i] ELSE u[i - 1]
  <2>1. /\ w \in Seq(Nat) /\ Len(w) = Len(one) + n
        /\ \A i \in 1 .. Len(one) + n : w[i] = IF i <= Len(one) THEN one[i] ELSE u[i - Len(one)]
    BY <1>1, ConcatProperties
  <2>. HIDE DEF w, n
  <2>. QED BY <1>1, <2>1
<1>. HIDE DEF w, n
<1>3. w[1] = c
  <2>1. 1 \in 1 .. 1 + n
    BY <1>1
  <2>. QED BY <1>1, <1>2, <2>1
<1>4. ASSUME NEW i \in 1 .. n PROVE w[i + 1] = u[i]
  <2>1. i + 1 \in 1 .. 1 + n /\ ~(i + 1 <= 1) /\ (i + 1) - 1 = i
    BY <1>1
  <2>. QED BY <1>2, <2>1
<1>5. Tail(w) = u
  <2>1. w # <<>>
    <3>1. Len(<<>>) = 0
      OBVIOUS
    <3>. QED BY <1>1, <1>2, <3>1
  <2>2. Tail(w) \in Seq(Nat) /\ Len(Tail(w)) = n /\ \A i \in 1 .. n : Tail(w)[i] = w[i + 1]
    <3>1. /\ Tail(w) \in Seq(Nat) /\ Len(Tail(w)) = Len(w) - 1
          /\ \A i \in 1 .. Len(Tail(w)) : Tail(w)[i] = w[i + 1]
      BY <1>2, <2>1, HeadTailProperties
    <3>2. Len(Tail(w)) = n
      BY <1>1, <1>2, <3>1
    <3>. QED BY <3>1, <3>2
  <2>3. \A i \in 1 .. n : Tail(w)[i] = u[i]
    BY <1>4, <2>2
  <2>. QED BY <2>2, <2>3, SeqEqual DEF n
<1>6. n + 1 = 1 + n
  BY <1>1
<1>. QED BY <1>2, <1>3, <1>4, <1>5, <1>6 DEF w, one, n

Signed(w, sign, u) == w = IF sign THEN <<Minus>> \o u ELSE u

LEMMA Denotes ==
  ASSUME NEW u, NEW ds \in Seq(Nat), NEW e \in Int, FloatText(u, ds, e),
         NEW sign \in BOOLEAN, NEW w, Signed(w, sign, u)
  PROVE  DecimalOf(w) = Normal(sign, ds, e)
<1>1. PICK a, m, lead, trail :
        /\ UnsignedText(u, a, m) /\ a < Len(u)
        /\ Padded(Digits10(u, a, m), ds, lead, trail)
        /\ Power(SubSeq(u, m + 2, Len(u))) - Places10(a, m) \in Int
        /\ ds # <<>> => ds[1] # 48
                        /\ Power(SubSeq(u, m + 2, Len(u))) - Places10(a, m) = e - trail
  BY DEF FloatText
<1>2. u \in Seq(Nat) /\ u[1] # Minus
  <2>1. 1 \in 1 .. a /\ u \in Seq(Nat)
    BY <1>1, TextFacts
  <2>2. u[1] \in Digit
    BY <1>1, <2>1 DEF UnsignedText
  <2>. QED BY <2>1, <2>2 DEF Digit, Minus
<1>3. Minus \in Nat
  BY DEF Minus
<1>4. (w[1] = Minus) = sign /\ u = IF sign THEN Tail(w) ELSE w
  <2>1. CASE sign
    <3>1. (<<Minus>> \o u)[1] = Minus /\ Tail(<<Minus>> \o u) = u
      BY <1>2, <1>3, TailOfSigned
    <3>. QED BY <2>1, <3>1 DEF Signed
  <2>2. CASE ~sign
    <3>1. w = u /\ sign = FALSE
      BY <2>2 DEF Signed
    <3>. QED BY <1>2, <3>1
  <2>. QED BY <2>1, <2>2
<1>. DEFINE minus == w[1] = Minus
            s == IF minus THEN Tail(w) ELSE w
            mantissa == SubSeq(s, 1, LengthBefore(s, Exponents))
            power == Power(SubSeq(s, Len(mantissa) + 2, Len(s)))
            whole == SubSeq(mantissa, 1, LengthBefore(mantissa, {Dot}))
            fraction == SubSeq(mantissa, Len(whole) + 2, Len(mantissa))
            V == Digits10(u, a, m)
            p == Power(SubSeq(u, m + 2, Len(u))) - Places10(a, m)
<1>5. DecimalOf(w) = Normal(minus, whole \o fraction, power - Len(fraction))
  BY DEF DecimalOf
<1>6. s = u
  BY <1>4
<1>7. LengthBefore(u, Exponents) = m /\ LengthBefore(SubSeq(u, 1, m), {Dot}) = a
  BY <1>1, MantissaLength, WholeLength
<1>8. /\ Len(SubSeq(u, 1, m)) = m /\ Len(SubSeq(SubSeq(u, 1, m), 1, a)) = a
      /\ Len(SubSeq(SubSeq(u, 1, m), a + 2, m)) = Places10(a, m)
      /\ SubSeq(SubSeq(u, 1, m), 1, a) \o SubSeq(SubSeq(u, 1, m), a + 2, m) = V
      /\ V \in Seq(Nat)
  BY <1>1, AllDigits
<1>9. mantissa = SubSeq(u, 1, m)
  <2>. HIDE DEF s
  <2>. QED BY <1>6, <1>7
<1>. HIDE DEF s, mantissa
<1>10. whole = SubSeq(SubSeq(u, 1, m), 1, a) /\ power = Power(SubSeq(u, m + 2, Len(u)))
  BY <1>6, <1>7, <1>8, <1>9
<1>. HIDE DEF whole, power
<1>11. fraction = SubSeq(SubSeq(u, 1, m), a + 2, m)
  BY <1>8, <1>9, <1>10
<1>. HIDE DEF fraction
<1>12. whole \o fraction = V /\ power - Len(fraction) = p
  BY <1>8, <1>10, <1>11
<1>. HIDE DEF V, p, minus
<1>13. DecimalOf(w) = Normal(minus, V, p)
  BY <1>5, <1>12
<1>14. Normal(sign, V, p) = Normal(sign, ds, e)
  BY <1>1, <1>8, PaddedNormal DEF V, p
<1>15. minus = sign
  BY <1>4 DEF minus
<1>. QED BY <1>13, <1>14, <1>15

(***************************************************************************)
(* What to_chars writes.                                                   *)
(***************************************************************************)
DigitsOf(ds, k) ==
  /\ ds \in Seq(Nat) /\ k \in Nat /\ Len(ds) = k
  /\ \A i \in 1 .. k : ds[i] \in Digit
  /\ ds # <<>> => ds[1] # 48

(* Place i of the digits of a text whose point comes after a of them. *)
Digit10(u, a, i) == IF i <= a THEN u[i] ELSE u[i + 1]
PaddedDigit(ds, k, lead, i) == IF lead < i /\ i <= lead + k THEN ds[i - lead] ELSE 48

LEMMA PaddedIsDigit ==
  ASSUME NEW ds, NEW k, DigitsOf(ds, k), NEW lead \in Nat, NEW i \in Nat
  PROVE  PaddedDigit(ds, k, lead, i) \in Digit
<1>1. CASE lead < i /\ i <= lead + k
  <2>1. i - lead \in 1 .. k
    BY <1>1 DEF DigitsOf
  <2>. QED BY <1>1, <2>1 DEF DigitsOf, PaddedDigit
<1>2. CASE ~(lead < i /\ i <= lead + k)
  BY <1>2 DEF PaddedDigit, Digit
<1>. QED BY <1>1, <1>2

(* A point after a digits, and no exponent. *)
PointWritten(u, ds, k, a, m, lead, trail, e) ==
  /\ a \in Nat /\ m \in Nat /\ 0 < a /\ m >= a + 2
  /\ u \in Seq(Nat) /\ Len(u) = m /\ u[a + 1] = Dot /\ (u[1] = 48 => a = 1)
  /\ lead \in Nat /\ trail \in Nat /\ lead + k + trail = m - 1
  /\ \A i \in 1 .. m - 1 : Digit10(u, a, i) = PaddedDigit(ds, k, lead, i)
  /\ ds # <<>> => e = trail - (m - a - 1)

LEMMA PointText ==
  ASSUME NEW ds, NEW k, DigitsOf(ds, k), NEW e \in Int, NEW u,
         NEW a, NEW m, NEW lead, NEW trail, PointWritten(u, ds, k, a, m, lead, trail, e)
  PROVE  FloatText(u, ds, e)
<1>. USE DEF PointWritten
<1>1. \A i \in 1 .. m - 1 : Digit10(u, a, i) \in Digit
  BY PaddedIsDigit
<1>2. ASSUME NEW i \in 1 .. a PROVE u[i] \in Digit
  <2>1. i \in 1 .. m - 1 /\ i <= a
    OBVIOUS
  <2>. QED BY <1>1, <2>1 DEF Digit10
<1>3. ASSUME NEW i \in a + 2 .. m PROVE u[i] \in Digit
  <2>. DEFINE j == i - 1
  <2>1. j \in 1 .. m - 1 /\ ~(j <= a) /\ j + 1 = i
    OBVIOUS
  <2>. HIDE DEF j
  <2>. QED BY <1>1, <2>1 DEF Digit10
<1>4. UnsignedText(u, a, m)
  BY <1>2, <1>3 DEF UnsignedText
<1>5. Power(SubSeq(u, m + 2, Len(u))) = 0
  <2>1. SubSeq(u, m + 2, m) = <<>>
    BY SubSeqEmpty
  <2>. QED BY <2>1 DEF Power
<1>6. Places10(a, m) = m - a - 1 /\ a + Places10(a, m) = m - 1
  BY DEF Places10
<1>. DEFINE V == Digits10(u, a, m)
<1>7. V = [i \in 1 .. m - 1 |-> Digit10(u, a, i)]
  BY <1>6 DEF Digits10, Digit10
<1>8. Padded(V, ds, lead, trail)
  <2>. HIDE DEF V
  <2>1. Len(V) = m - 1 /\ Len(ds) = k
    BY <1>7 DEF DigitsOf
  <2>2. \A i \in 1 .. Len(V) :
          V[i] = IF lead < i /\ i <= lead + Len(ds) THEN ds[i - lead] ELSE 48
    BY <1>7, <2>1 DEF PaddedDigit
  <2>. QED BY <2>1, <2>2 DEF Padded
<1>. DEFINE p == Power(SubSeq(u, m + 2, Len(u))) - Places10(a, m)
<1>9. p \in Int /\ (ds # <<>> => p = e - trail)
  BY <1>5, <1>6
<1>10. a < Len(u) /\ (ds # <<>> => ds[1] # 48)
  BY DEF DigitsOf
<1>. HIDE DEF V, p
<1>. QED BY <1>4, <1>8, <1>9, <1>10 DEF FloatText, V, p

(* w is s of length p, followed by t of length q. *)
Joins(w, s, p, t, q) ==
  /\ w \in Seq(Nat) /\ Len(w) = p + q
  /\ \A i \in 1 .. p : w[i] = s[i]
  /\ \A i \in 1 .. q : w[p + i] = t[i]

LEMMA Joined ==
  ASSUME NEW s \in Seq(Nat), NEW t \in Seq(Nat), NEW p, NEW q, Len(s) = p, Len(t) = q
  PROVE  Joins(s \o t, s, p, t, q) /\ p \in Nat /\ q \in Nat
<1>1. p \in Nat /\ q \in Nat
  BY LenProperties
<1>. DEFINE w == s \o t
<1>2. /\ w \in Seq(Nat) /\ Len(w) = Len(s) + Len(t)
      /\ \A i \in 1 .. Len(s) + Len(t) : w[i] = IF i <= Len(s) THEN s[i] ELSE t[i - Len(s)]
  BY ConcatProperties
<1>. HIDE DEF w
<1>3. ASSUME NEW i \in 1 .. p PROVE w[i] = s[i]
  BY <1>1, <1>2
<1>4. ASSUME NEW i \in 1 .. q PROVE w[p + i] = t[i]
  <2>1. p + i \in 1 .. p + q /\ ~(p + i <= p) /\ (p + i) - p = i
    BY <1>1
  <2>. QED BY <1>2, <2>1
<1>. HIDE DEF w
<1>5. Joins(w, s, p, t, q)
  BY <1>2, <1>3, <1>4 DEF Joins
<1>. QED BY <1>1, <1>5 DEF w

LEMMA ZerosText ==
  ASSUME NEW n \in Nat
  PROVE  Zeros(n) \in Seq(Nat) /\ Len(Zeros(n)) = n /\ \A i \in 1 .. n : Zeros(n)[i] = 48
  BY DEF Zeros

(* All digits before the point, then zeros. *)
LEMMA WholeText10 ==
  ASSUME NEW ds, NEW k, DigitsOf(ds, k), k >= 1, NEW n \in Nat, k <= n
  PROVE  FloatText(ds \o Zeros(n - k) \o <<Dot, 48>>, ds, n - k)
<1>. DEFINE z == Zeros(n - k)
            end == <<Dot, 48>>
            d == n - k
            s == ds \o z
            u == s \o end
<1>1. /\ ds \in Seq(Nat) /\ k \in Nat /\ Len(ds) = k /\ ds[1] # 48
  BY EmptySeq DEF DigitsOf
<1>2. d \in Nat /\ k + d = n
  BY <1>1
<1>3. z \in Seq(Nat) /\ Len(z) = d /\ \A i \in 1 .. d : z[i] = 48
  BY <1>2, ZerosText
<1>4. end \in Seq(Nat) /\ Len(end) = 2 /\ end[1] = Dot /\ end[2] = 48
  BY DEF Dot
<1>. HIDE DEF z, end, d
<1>5. /\ s \in Seq(Nat) /\ Len(s) = k + d
      /\ \A i \in 1 .. k : s[i] = ds[i]
      /\ \A i \in 1 .. d : s[k + i] = z[i]
  <2>1. Joins(s, ds, k, z, d)
    BY <1>1, <1>3, Joined
  <2>. HIDE DEF s
  <2>. QED BY <2>1 DEF Joins
<1>. HIDE DEF s
<1>6. /\ u \in Seq(Nat) /\ Len(u) = n + 2
      /\ \A i \in 1 .. n : u[i] = s[i]
      /\ \A i \in 1 .. 2 : u[n + i] = end[i]
  <2>1. Len(s) = n
    BY <1>2, <1>5
  <2>2. Joins(u, s, n, end, 2)
    BY <1>4, <1>5, <2>1, Joined
  <2>. HIDE DEF u
  <2>. QED BY <2>2 DEF Joins
<1>. HIDE DEF u
<1>7. u[n + 1] = Dot /\ u[n + 2] = 48
  BY <1>4, <1>6
<1>8. ASSUME NEW i \in 1 .. n + 1 PROVE Digit10(u, n, i) = PaddedDigit(ds, k, 0, i)
  <2>1. CASE i <= k
    <3>1. i \in 1 .. k /\ i \in 1 .. n /\ i <= n /\ 0 < i /\ i <= 0 + k /\ i - 0 = i
      BY <1>1, <1>2, <2>1
    <3>2. u[i] = ds[i]
      BY <1>5, <1>6, <3>1
    <3>. QED BY <3>1, <3>2 DEF Digit10, PaddedDigit
  <2>2. CASE k < i /\ i <= n
    <3>. DEFINE j == i - k
    <3>1. j \in 1 .. d /\ k + j = i /\ i \in 1 .. n /\ ~(i <= 0 + k)
      BY <1>1, <1>2, <2>2
    <3>. HIDE DEF j
    <3>2. u[i] = 48
      <4>1. s[k + j] = z[j] /\ z[j] = 48
        BY <1>3, <1>5, <3>1
      <4>2. u[i] = s[i]
        BY <1>6, <3>1
      <4>. QED BY <3>1, <4>1, <4>2
    <3>. QED BY <2>2, <3>1, <3>2 DEF Digit10, PaddedDigit
  <2>3. CASE i = n + 1
    <3>1. ~(i <= n) /\ ~(i <= 0 + k) /\ i + 1 = n + 2
      BY <1>1, <1>2, <2>3
    <3>. QED BY <1>7, <3>1 DEF Digit10, PaddedDigit
  <2>. QED BY <1>1, <2>1, <2>2, <2>3
<1>9. u[1] # 48
  <2>1. 1 \in 1 .. k /\ 1 \in 1 .. n
    BY <1>1
  <2>. QED BY <1>1, <1>5, <1>6, <2>1
<1>. DEFINE m == n + 2
            trail == d + 1
<1>10. /\ m \in Nat /\ trail \in Nat /\ 0 < n /\ m >= n + 2 /\ 0 + k + trail = m - 1
       /\ d = trail - (m - n - 1) /\ m - 1 = n + 1 /\ d \in Int
  BY <1>1, <1>2
<1>11. \A i \in 1 .. m - 1 : Digit10(u, n, i) = PaddedDigit(ds, k, 0, i)
  BY <1>8, <1>10
<1>12. Len(u) = m
  BY <1>6
<1>. HIDE DEF m, trail
<1>13. FloatText(u, ds, d)
  <2>1. PointWritten(u, ds, k, n, m, 0, trail, d)
    BY <1>6, <1>7, <1>9, <1>10, <1>11, <1>12 DEF PointWritten
  <2>. QED BY <1>10, <2>1, PointText
<1>. QED BY <1>13 DEF u, s, z, end, d

(* The point between the digits. *)
LEMMA InnerText ==
  ASSUME NEW ds, NEW k, DigitsOf(ds, k), NEW n \in Nat, 0 < n, n < k
  PROVE  FloatText(SubSeq(ds, 1, n) \o <<Dot>> \o SubSeq(ds, n + 1, k), ds, n - k)
<1>. DEFINE p == SubSeq(ds, 1, n)
            dot == <<Dot>>
            q == SubSeq(ds, n + 1, k)
            s == p \o dot
            u == s \o q
            c == k - n
            b == n + 1
<1>1. ds \in Seq(Nat) /\ k \in Nat /\ Len(ds) = k /\ c \in Nat /\ b \in Nat /\ b >= 1
  BY DEF DigitsOf
<1>2. ds[1] # 48
  <2>1. ds # <<>>
    <3>1. Len(<<>>) = 0
      OBVIOUS
    <3>. QED BY <1>1, <3>1
  <2>. QED BY <2>1 DEF DigitsOf
<1>3. p \in Seq(Nat) /\ Len(p) = n /\ \A i \in 1 .. n : p[i] = ds[i]
  <2>1. /\ p \in Seq(Nat) /\ Len(p) = IF 1 <= n THEN n - 1 + 1 ELSE 0
        /\ \A i \in 1 .. n - 1 + 1 : p[i] = ds[1 + i - 1]
    BY <1>1, SubText
  <2>2. n - 1 + 1 = n /\ 1 <= n /\ \A i \in 1 .. n : 1 + i - 1 = i
    OBVIOUS
  <2>. HIDE DEF p
  <2>. QED BY <2>1, <2>2
<1>4. q \in Seq(Nat) /\ Len(q) = c /\ \A i \in 1 .. c : q[i] = ds[n + i]
  <2>. DEFINE r == SubSeq(ds, b, k)
  <2>. HIDE DEF b
  <2>1. /\ r \in Seq(Nat) /\ Len(r) = IF b <= k THEN k - b + 1 ELSE 0
        /\ \A i \in 1 .. k - b + 1 : r[i] = ds[b + i - 1]
    BY <1>1, SubText
  <2>2. b <= k /\ k - b + 1 = c /\ \A i \in 1 .. c : b + i - 1 = n + i
    BY <1>1 DEF b
  <2>. HIDE DEF r, c
  <2>3. r \in Seq(Nat) /\ Len(r) = c /\ \A i \in 1 .. c : r[i] = ds[n + i]
    BY <2>1, <2>2
  <2>. QED BY <2>3 DEF r, b
<1>5. dot \in Seq(Nat) /\ Len(dot) = 1 /\ dot[1] = Dot
  BY DEF Dot
<1>. HIDE DEF p, q, dot
<1>6. /\ s \in Seq(Nat) /\ Len(s) = b
      /\ \A i \in 1 .. n : s[i] = p[i]
      /\ \A i \in 1 .. 1 : s[n + i] = dot[i]
  <2>1. Joins(s, p, n, dot, 1)
    BY <1>3, <1>5, Joined
  <2>. HIDE DEF s
  <2>. QED BY <2>1 DEF Joins
<1>. HIDE DEF s
<1>7. /\ u \in Seq(Nat) /\ Len(u) = b + c
      /\ \A i \in 1 .. b : u[i] = s[i]
      /\ \A i \in 1 .. c : u[b + i] = q[i]
  <2>. HIDE DEF b, c
  <2>1. Joins(u, s, b, q, c)
    BY <1>4, <1>6, Joined
  <2>. HIDE DEF u
  <2>. QED BY <2>1 DEF Joins
<1>. HIDE DEF u
<1>8. u[n + 1] = Dot /\ \A i \in 1 .. n : u[i] = ds[i]
  <2>1. s[n + 1] = Dot
    BY <1>5, <1>6
  <2>2. \A i \in 1 .. n : i \in 1 .. b
    OBVIOUS
  <2>3. n + 1 \in 1 .. b
    OBVIOUS
  <2>. HIDE DEF b, c
  <2>. QED BY <1>3, <1>6, <1>7, <2>1, <2>2, <2>3
<1>9. \A i \in 1 .. c : u[n + i + 1] = ds[n + i]
  <2>1. \A i \in 1 .. c : n + i + 1 = b + i
    OBVIOUS
  <2>. HIDE DEF b, c
  <2>. QED BY <1>4, <1>7, <2>1
<1>10. ASSUME NEW i \in 1 .. k PROVE Digit10(u, n, i) = PaddedDigit(ds, k, 0, i)
  <2>0. 0 < i /\ i <= 0 + k /\ i - 0 = i
    BY <1>1
  <2>1. CASE i <= n
    <3>1. i \in 1 .. n
      BY <2>1
    <3>. QED BY <1>8, <2>0, <2>1, <3>1 DEF Digit10, PaddedDigit
  <2>2. CASE ~(i <= n)
    <3>. DEFINE j == i - n
    <3>1. j \in 1 .. c /\ n + j = i
      BY <1>1, <2>2
    <3>. HIDE DEF j
    <3>2. u[i + 1] = ds[i]
      BY <1>9, <3>1
    <3>. QED BY <2>0, <2>2, <3>2 DEF Digit10, PaddedDigit
  <2>. QED BY <2>1, <2>2
<1>11. u[1] # 48
  <2>1. 1 \in 1 .. n
    OBVIOUS
  <2>. QED BY <1>2, <1>8, <2>1
<1>. DEFINE m == k + 1
<1>12. /\ m \in Nat /\ 0 < n /\ m >= n + 2 /\ 0 + k + 0 = m - 1
       /\ n - k = 0 - (m - n - 1) /\ m - 1 = k /\ n - k \in Int /\ b + c = m
  BY <1>1
<1>13. Len(u) = m
  <2>. HIDE DEF m, b, c
  <2>. QED BY <1>7, <1>12
<1>14. \A i \in 1 .. m - 1 : Digit10(u, n, i) = PaddedDigit(ds, k, 0, i)
  BY <1>10, <1>12
<1>. HIDE DEF m
<1>15. FloatText(u, ds, n - k)
  <2>1. PointWritten(u, ds, k, n, m, 0, 0, n - k)
    BY <1>7, <1>8, <1>11, <1>12, <1>13, <1>14 DEF PointWritten
  <2>. QED BY <1>12, <2>1, PointText
<1>. QED BY <1>15 DEF u, s, p, q, dot

(* Zeros before all digits. *)
LEMMA SmallText ==
  ASSUME NEW ds, NEW k, DigitsOf(ds, k), k >= 1, NEW z \in Nat
  PROVE  FloatText(<<48, Dot>> \o Zeros(z) \o ds, ds, (-z) - k)
<1>. DEFINE start == <<48, Dot>>
            zeros == Zeros(z)
            s == start \o zeros
            u == s \o ds
            b == 2 + z
            m == b + k
            lead == 1 + z
            e == (-z) - k
<1>1. ds \in Seq(Nat) /\ k \in Nat /\ Len(ds) = k
  BY DEF DigitsOf
<1>2. start \in Seq(Nat) /\ Len(start) = 2 /\ start[1] = 48 /\ start[2] = Dot
  BY DEF Dot
<1>3. zeros \in Seq(Nat) /\ Len(zeros) = z /\ \A i \in 1 .. z : zeros[i] = 48
  BY ZerosText
<1>. HIDE DEF start, zeros
<1>4. /\ s \in Seq(Nat) /\ Len(s) = b
      /\ \A i \in 1 .. 2 : s[i] = start[i]
      /\ \A i \in 1 .. z : s[2 + i] = zeros[i]
  <2>1. Joins(s, start, 2, zeros, z)
    BY <1>2, <1>3, Joined
  <2>. HIDE DEF s
  <2>. QED BY <2>1 DEF Joins
<1>. HIDE DEF s
<1>5. b \in Nat /\ m \in Nat /\ lead \in Nat /\ e \in Int /\ lead + k + 0 = m - 1
      /\ e = 0 - (m - 1 - 1) /\ m >= 2 /\ m - 1 = lead + k /\ b = lead + 1
  BY <1>1
<1>6. /\ u \in Seq(Nat) /\ Len(u) = m
      /\ \A i \in 1 .. b : u[i] = s[i]
      /\ \A i \in 1 .. k : u[b + i] = ds[i]
  <2>. HIDE DEF b
  <2>1. Joins(u, s, b, ds, k)
    BY <1>1, <1>4, Joined
  <2>. HIDE DEF u, m
  <2>. QED BY <2>1 DEF Joins, m
<1>. HIDE DEF u
<1>7. u[1] = 48 /\ u[2] = Dot
  <2>1. 1 \in 1 .. b /\ 2 \in 1 .. b /\ 1 \in 1 .. 2 /\ 2 \in 1 .. 2
    OBVIOUS
  <2>. HIDE DEF b, m
  <2>. QED BY <1>2, <1>4, <1>6, <2>1
<1>8. ASSUME NEW i \in 1 .. m - 1 PROVE Digit10(u, 1, i) = PaddedDigit(ds, k, lead, i)
  <2>1. CASE i = 1
    <3>1. i <= 1 /\ ~(lead < i)
      BY <2>1
    <3>. HIDE DEF lead, m, b
    <3>. QED BY <1>7, <2>1, <3>1 DEF Digit10, PaddedDigit
  <2>2. CASE 1 < i /\ i <= lead
    <3>. DEFINE j == i - 1
    <3>1. j \in 1 .. z /\ 2 + j = i + 1 /\ i + 1 \in 1 .. b
      BY <2>2
    <3>2. ~(i <= 1) /\ ~(lead < i)
      BY <1>5, <2>2
    <3>. HIDE DEF j, lead, m, b
    <3>3. u[i + 1] = 48
      <4>1. s[2 + j] = zeros[j] /\ zeros[j] = 48
        BY <1>3, <1>4, <3>1
      <4>2. u[i + 1] = s[i + 1]
        BY <1>6, <3>1
      <4>. QED BY <3>1, <4>1, <4>2
    <3>. QED BY <3>2, <3>3 DEF Digit10, PaddedDigit
  <2>3. CASE lead < i
    <3>. DEFINE j == i - lead
    <3>1. j \in 1 .. k /\ b + j = i + 1 /\ ~(i <= 1) /\ i <= lead + k
      BY <1>1, <1>5, <2>3
    <3>. HIDE DEF lead, m, b, j
    <3>2. u[i + 1] = ds[j]
      BY <1>6, <3>1
    <3>. QED BY <2>3, <3>1, <3>2 DEF Digit10, PaddedDigit, j
  <2>4. i = 1 \/ (1 < i /\ i <= lead) \/ lead < i
    BY <1>5
  <2>. QED BY <2>1, <2>2, <2>3, <2>4
<1>9. 1 \in Nat /\ 0 \in Nat /\ 0 < 1 /\ m >= 1 + 2 /\ u[1 + 1] = Dot
  BY <1>1, <1>7
<1>10. PointWritten(u, ds, k, 1, m, lead, 0, e)
  <2>. HIDE DEF lead, m, b, e
  <2>. QED BY <1>5, <1>6, <1>7, <1>8, <1>9 DEF PointWritten
<1>. HIDE DEF m, e, lead, b
<1>11. FloatText(u, ds, e)
  BY <1>5, <1>10, PointText
<1>. QED BY <1>11 DEF u, s, start, zeros, e

LEMMA ZeroFloat == FloatText(<<48, Dot, 48>>, <<>>, 0)
<1>. DEFINE u == <<48, Dot, 48>>
            ds == <<>>
<1>1. u \in Seq(Nat) /\ Len(u) = 3 /\ u[1] = 48 /\ u[1 + 1] = Dot /\ u[3] = 48
  BY DEF Dot
<1>2. DigitsOf(ds, 0)
  <2>1. ds \in Seq(Nat) /\ Len(ds) = 0 /\ 1 .. 0 = {}
    OBVIOUS
  <2>. HIDE DEF ds
  <2>2. ds = <<>>
    BY DEF ds
  <2>. QED BY <2>1, <2>2 DEF DigitsOf
<1>. HIDE DEF u
<1>3. ASSUME NEW i \in 1 .. 2 PROVE Digit10(u, 1, i) = PaddedDigit(ds, 0, 0, i)
  <2>1. ~(0 < i /\ i <= 0 + 0) /\ (i = 1 \/ i = 2)
    OBVIOUS
  <2>2. CASE i = 1
    BY <1>1, <2>1, <2>2 DEF Digit10, PaddedDigit
  <2>3. CASE i = 2
    <3>1. ~(i <= 1) /\ i + 1 = 3
      BY <2>3
    <3>. QED BY <1>1, <2>1, <3>1 DEF Digit10, PaddedDigit
  <2>. QED BY <2>1, <2>2, <2>3
<1>4. /\ 1 \in Nat /\ 3 \in Nat /\ 0 < 1 /\ 3 >= 1 + 2 /\ 0 \in Nat /\ 2 \in Nat
      /\ 0 + 0 + 2 = 3 - 1 /\ 3 - 1 = 2 /\ 0 \in Int
  OBVIOUS
<1>5. ds = <<>>
  OBVIOUS
<1>. HIDE DEF ds
<1>6. PointWritten(u, ds, 0, 1, 3, 0, 2, 0)
  BY <1>1, <1>3, <1>4, <1>5 DEF PointWritten
<1>7. FloatText(u, ds, 0)
  BY <1>2, <1>4, <1>6, PointText
<1>. QED BY <1>7 DEF u, ds

(***************************************************************************)
(* The exponent.                                                           *)
(***************************************************************************)
LEMMA TwoDigits ==
  ASSUME NEW c \in 0 .. 9, NEW d \in 0 .. 9, NEW t, Len(t) = 2, t[1] = 48 + c, t[2] = 48 + d
  PROVE  DigitsValue(t) = 10 * c + d
<1>. DEFINE pre == [i \in 0 .. 2 |-> IF i = 0 THEN 0 ELSE IF i = 1 THEN c ELSE 10 * c + d]
<1>1. Len(t) = 2 /\ t[1] = 48 + c /\ t[2] = 48 + d
  OBVIOUS
<1>2. pre \in [0 .. 2 -> Nat] /\ pre[0] = 0 /\ pre[1] = c /\ pre[2] = 10 * c + d
  OBVIOUS
<1>. HIDE DEF pre
<1>3. 10 <= 2 ^ IntBits /\ 2 ^ IntBits \in Nat
  BY WidthAssumption
<1>. DEFINE full == 2 ^ IntBits
<1>. HIDE DEF full
<1>4. ASSUME NEW i \in 1 .. 2
      PROVE  pre[i - 1] <= full /\ pre[i] = 10 * pre[i - 1] + (t[i] - 48)
  <2>1. CASE i = 1
    <3>1. i - 1 = 0 /\ 0 <= full /\ c = 10 * 0 + (48 + c - 48)
      BY <1>3, <2>1 DEF full
    <3>. QED BY <1>1, <1>2, <2>1, <3>1
  <2>2. CASE i = 2
    <3>1. i - 1 = 1 /\ c <= full /\ 10 * c + d = 10 * c + (48 + d - 48)
      BY <1>3, <2>2 DEF full
    <3>. QED BY <1>1, <1>2, <2>2, <3>1
  <2>. QED BY <2>1, <2>2
<1>5. Values(t, 2, pre)
  BY <1>1, <1>2, <1>4 DEF Values, full
<1>6. DigitsValue(t) = pre[2]
  BY <1>5, ValueOfDigits
<1>. QED BY <1>2, <1>6

Three(t, b, c, d) == Len(t) = 3 /\ t[1] = 48 + b /\ t[2] = 48 + c /\ t[3] = 48 + d

LEMMA ThreeDigits ==
  ASSUME NEW b \in 0 .. 9, NEW c \in 0 .. 9, NEW d \in 0 .. 9, NEW t, Three(t, b, c, d)
  PROVE  DigitsValue(t) = 100 * b + 10 * c + d
<1>. DEFINE two == 10 * b + c
            three == 100 * b + 10 * c + d
            pre == [i \in 0 .. 3 |-> IF i = 0 THEN 0 ELSE IF i = 1 THEN b
                                     ELSE IF i = 2 THEN two ELSE three]
<1>1. Len(t) = 3 /\ t[1] = 48 + b /\ t[2] = 48 + c /\ t[3] = 48 + d
  BY DEF Three
<1>2. two \in Nat /\ three \in Nat /\ three = 10 * two + d /\ two = 10 * b + c /\ two <= 99
  OBVIOUS
<1>. HIDE DEF two, three
<1>3. /\ pre \in [0 .. 3 -> Nat] /\ pre[0] = 0 /\ pre[1] = b /\ pre[2] = two
      /\ pre[3] = three
  BY <1>2
<1>. HIDE DEF pre
<1>. DEFINE full == 2 ^ IntBits
<1>4. 100 <= full /\ full \in Nat
  BY WidthAssumption
<1>. HIDE DEF full
<1>5. ASSUME NEW i \in 1 .. 3
      PROVE  pre[i - 1] <= full /\ pre[i] = 10 * pre[i - 1] + (t[i] - 48)
  <2>1. CASE i = 1
    <3>1. i - 1 = 0 /\ 0 <= full /\ b = 10 * 0 + (48 + b - 48)
      BY <1>4, <2>1
    <3>. QED BY <1>1, <1>3, <2>1, <3>1
  <2>2. CASE i = 2
    <3>1. i - 1 = 1 /\ b <= full /\ two = 10 * b + (48 + c - 48)
      BY <1>2, <1>4, <2>2
    <3>. QED BY <1>1, <1>3, <2>2, <3>1
  <2>3. CASE i = 3
    <3>1. i - 1 = 2 /\ two <= full /\ three = 10 * two + (48 + d - 48)
      BY <1>2, <1>4, <2>3
    <3>. QED BY <1>1, <1>3, <2>3, <3>1
  <2>. QED BY <2>1, <2>2, <2>3
<1>6. Values(t, 3, pre)
  BY <1>1, <1>3, <1>5 DEF Values, full
<1>7. DigitsValue(t) = pre[3]
  BY <1>6, ValueOfDigits
<1>. QED BY <1>3, <1>7 DEF three

LEMMA DigitSequences ==
  ASSUME NEW x \in Digit, NEW y \in Digit, NEW z \in Digit
  PROVE  /\ <<x, y>> \in Seq(Nat) /\ Len(<<x, y>>) = 2
         /\ \A i \in 1 .. 2 : <<x, y>>[i] \in Digit
         /\ <<x, y, z>> \in Seq(Nat) /\ Len(<<x, y, z>>) = 3
         /\ \A i \in 1 .. 3 : <<x, y, z>>[i] \in Digit
<1>1. x \in Nat /\ y \in Nat /\ z \in Nat
  BY DEF Digit
<1>. QED BY <1>1

InExponent(t, k) ==
  t = IF k < 100 THEN <<Decimal(k \div 10), Decimal(k)>>
      ELSE <<48 + k \div 100, Decimal(k \div 10), Decimal(k)>>

LEMMA ExponentDigits ==
  ASSUME NEW k \in 0 .. 999, NEW t, InExponent(t, k)
  PROVE  /\ t \in Seq(Nat) /\ Len(t) \in {2, 3} /\ \A i \in 1 .. Len(t) : t[i] \in Digit
         /\ DigitsValue(t) = k
<1>. DEFINE b == k \div 100
            c == (k \div 10) % 10
            d == k % 10
            x == 48 + b
            y == 48 + c
            z == 48 + d
<1>1. /\ b \in 0 .. 9 /\ c \in 0 .. 9 /\ d \in 0 .. 9 /\ k = 100 * b + 10 * c + d
      /\ (k < 100 => k = 10 * c + d)
  OBVIOUS
<1>2. t = IF k < 100 THEN <<y, z>> ELSE <<x, y, z>>
  BY DEF InExponent, Decimal
<1>. HIDE DEF b, c, d
<1>3. x \in Digit /\ y \in Digit /\ z \in Digit
  BY <1>1 DEF Digit
<1>4. x = 48 + b /\ y = 48 + c /\ z = 48 + d
  OBVIOUS
<1>. HIDE DEF x, y, z
<1>5. CASE k < 100
  <2>1. t = <<y, z>>
    BY <1>2, <1>5
  <2>2. t \in Seq(Nat) /\ Len(t) = 2 /\ \A i \in 1 .. 2 : t[i] \in Digit
    BY <1>3, <2>1, DigitSequences
  <2>3. t[1] = 48 + c /\ t[2] = 48 + d
    BY <1>4, <2>1
  <2>4. DigitsValue(t) = k
    <3>1. c \in 0 .. 9 /\ d \in 0 .. 9 /\ Len(t) = 2
      BY <1>1, <2>2
    <3>2. DigitsValue(t) = 10 * c + d
      BY <2>3, <3>1, TwoDigits
    <3>. QED BY <1>1, <1>5, <3>2
  <2>. QED BY <2>2, <2>4
<1>6. CASE ~(k < 100)
  <2>1. t = <<x, y, z>>
    BY <1>2, <1>6
  <2>2. t \in Seq(Nat) /\ Len(t) = 3 /\ \A i \in 1 .. 3 : t[i] \in Digit
    BY <1>3, <2>1, DigitSequences
  <2>3. Three(t, b, c, d)
    BY <1>4, <2>1 DEF Three
  <2>4. DigitsValue(t) = k
    <3>1. b \in 0 .. 9 /\ c \in 0 .. 9 /\ d \in 0 .. 9
      BY <1>1
    <3>2. DigitsValue(t) = 100 * b + 10 * c + d
      BY <2>3, <3>1, ThreeDigits
    <3>. QED BY <1>1, <3>2
  <2>. QED BY <2>2, <2>4
<1>. QED BY <1>5, <1>6

Thousands == -999 .. 999

ExponentWritten(t, x) ==
  /\ t \in Seq(Nat) /\ Len(t) \in {3, 4} /\ t[1] \in {Plus, Minus}
  /\ \A i \in 2 .. Len(t) : t[i] \in Digit
  /\ Power(t) = x

LEMMA ExponentText ==
  ASSUME NEW x, x \in Thousands
  PROVE  ExponentWritten(append_exponent(x), x)
<1>. DEFINE k == IF x < 0 THEN -x ELSE x
            sign == IF x < 0 THEN Minus ELSE Plus
            digits == IF k < 100 THEN <<Decimal(k \div 10), Decimal(k)>>
                      ELSE <<48 + k \div 100, Decimal(k \div 10), Decimal(k)>>
            t == append_exponent(x)
            n == Len(digits)
<1>1. k \in 0 .. 999 /\ (x < 0 => -k = x) /\ (~(x < 0) => k = x)
  BY SMT DEF Thousands
<1>2. t = <<sign>> \o digits /\ InExponent(digits, k)
  BY DEF append_exponent, InExponent
<1>. HIDE DEF k, digits
<1>3. /\ digits \in Seq(Nat) /\ n \in {2, 3} /\ \A i \in 1 .. n : digits[i] \in Digit
      /\ DigitsValue(digits) = k
  BY <1>1, <1>2, ExponentDigits
<1>4. sign \in {Plus, Minus} /\ sign \in Nat /\ (sign = Minus <=> x < 0)
  BY DEF Plus, Minus
<1>. HIDE DEF digits, sign
<1>5. /\ t \in Seq(Nat) /\ Len(t) = n + 1 /\ t[1] = sign
      /\ \A i \in 1 .. n : t[i + 1] = digits[i]
      /\ Tail(t) = digits
  BY <1>2, <1>3, <1>4, TailOfSigned
<1>. HIDE DEF t, n
<1>6. ASSUME NEW i \in 2 .. Len(t) PROVE t[i] \in Digit
  <2>. DEFINE j == i - 1
  <2>1. j \in 1 .. n /\ j + 1 = i
    BY <1>3, <1>5
  <2>. HIDE DEF j
  <2>. QED BY <1>3, <1>5, <2>1
<1>7. t # <<>>
  <2>1. Len(<<>>) = 0
    OBVIOUS
  <2>. QED BY <1>3, <1>5, <2>1
<1>8. Power(t) = IF t[1] = Minus THEN -DigitsValue(Tail(t))
                 ELSE IF t[1] = Plus THEN DigitsValue(Tail(t)) ELSE DigitsValue(t)
  BY <1>7 DEF Power
<1>9. Power(t) = x
  BY <1>1, <1>3, <1>4, <1>5, <1>8
<1>10. Len(t) \in {3, 4}
  BY <1>3, <1>5
<1>11. ExponentWritten(t, x)
  BY <1>4, <1>5, <1>6, <1>9, <1>10 DEF ExponentWritten
<1>. QED BY <1>11 DEF t

(* The first digit, and the others after a point. *)
BeginsWith(s, ds, k, m) ==
  /\ s \in Seq(Nat) /\ Len(s) = m /\ s[1] = ds[1]
  /\ k # 1 => s[2] = Dot
  /\ \A i \in 2 .. k : s[i + 1] = ds[i]

LEMMA FirstAndRest ==
  ASSUME NEW ds, NEW k, DigitsOf(ds, k), k >= 1, NEW m, m = IF k = 1 THEN 1 ELSE k + 1,
         NEW s, s = SubSeq(ds, 1, 1) \o (IF k = 1 THEN <<>> ELSE <<Dot>> \o Tail(ds))
  PROVE  BeginsWith(s, ds, k, m)
<1>. USE DEF BeginsWith
<1>. DEFINE front == SubSeq(ds, 1, 1)
            rest == IF k = 1 THEN <<>> ELSE <<Dot>> \o Tail(ds)
            n == m - 1
<1>1. ds \in Seq(Nat) /\ k \in Nat /\ Len(ds) = k
  BY DEF DigitsOf
<1>2. front \in Seq(Nat) /\ Len(front) = 1 /\ front[1] = ds[1]
  <2>1. /\ front \in Seq(Nat) /\ Len(front) = IF 1 <= 1 THEN 1 - 1 + 1 ELSE 0
        /\ \A i \in 1 .. 1 - 1 + 1 : front[i] = ds[1 + i - 1]
    BY <1>1, SubText
  <2>2. 1 \in 1 .. 1 - 1 + 1 /\ 1 + 1 - 1 = 1 /\ 1 <= 1
    OBVIOUS
  <2>. HIDE DEF front
  <2>. QED BY <2>1, <2>2
<1>3. CASE k = 1
  <2>1. rest = <<>>
    BY <1>3
  <2>2. front \o <<>> = front
    BY <1>2, ConcatEmptySeq
  <2>. HIDE DEF front, rest
  <2>3. s = front
    BY <2>1, <2>2 DEF front, rest
  <2>. QED BY <1>2, <1>3, <2>3
<1>4. CASE k # 1
  <2>. DEFINE r == <<Dot>> \o Tail(ds)
              t == Tail(ds)
              c == k - 1
  <2>1. /\ t \in Seq(Nat) /\ Len(t) = c /\ c \in Nat
        /\ \A i \in 1 .. c : t[i] = ds[i + 1]
    <3>1. ds # <<>>
      <4>1. Len(<<>>) = 0
        OBVIOUS
      <4>. QED BY <1>1, <4>1
    <3>2. /\ t \in Seq(Nat) /\ Len(t) = Len(ds) - 1
          /\ \A i \in 1 .. Len(t) : t[i] = ds[i + 1]
      BY <1>1, <3>1, HeadTailProperties
    <3>3. Len(t) = c /\ c \in Nat
      BY <1>1, <3>2
    <3>. HIDE DEF t, c
    <3>. QED BY <3>2, <3>3
  <2>. HIDE DEF t
  <2>2. /\ r \in Seq(Nat) /\ Len(r) = c + 1 /\ r[1] = Dot
        /\ \A i \in 1 .. c : r[i + 1] = t[i]
    <3>1. Dot \in Nat
      BY DEF Dot
    <3>. DEFINE q == <<Dot>> \o t
    <3>2. /\ q \in Seq(Nat) /\ Len(q) = Len(t) + 1 /\ q[1] = Dot
          /\ \A i \in 1 .. Len(t) : q[i + 1] = t[i]
      BY <2>1, <3>1, TailOfSigned
    <3>3. q = r
      BY DEF t
    <3>. HIDE DEF q, r, c
    <3>. QED BY <2>1, <3>2, <3>3
  <2>3. s = front \o r
    BY <1>4
  <2>. HIDE DEF r, front
  <2>4. Joins(s, front, 1, r, c + 1)
    <3>. HIDE DEF c
    <3>. QED BY <1>2, <2>2, <2>3, Joined
  <2>5. /\ s \in Seq(Nat) /\ Len(s) = 1 + (c + 1)
        /\ \A i \in 1 .. 1 : s[i] = front[i]
        /\ \A i \in 1 .. c + 1 : s[1 + i] = r[i]
    BY <2>4 DEF Joins
  <2>6. 1 + (c + 1) = m
    BY <1>1, <1>4
  <2>7. s[1] = ds[1]
    BY <1>2, <2>5
  <2>8. s[2] = Dot
    <3>1. 1 \in 1 .. c + 1 /\ 1 + 1 = 2
      BY <2>1
    <3>. HIDE DEF c
    <3>. QED BY <2>2, <2>5, <3>1
  <2>9. ASSUME NEW i \in 2 .. k PROVE s[i + 1] = ds[i]
    <3>. DEFINE j == i - 1
    <3>1. j \in 1 .. c /\ j + 1 = i /\ i \in 1 .. c + 1 /\ 1 + i = i + 1
      BY <1>1
    <3>. HIDE DEF j, c
    <3>2. s[1 + i] = r[i]
      BY <2>5, <3>1
    <3>3. r[j + 1] = t[j] /\ t[j] = ds[j + 1]
      BY <2>1, <2>2, <3>1
    <3>. QED BY <3>1, <3>2, <3>3
  <2>. HIDE DEF c
  <2>. QED BY <2>5, <2>6, <2>7, <2>8, <2>9
<1>. QED BY <1>3, <1>4

LEMMA ScientificText ==
  ASSUME NEW ds, NEW k, DigitsOf(ds, k), k >= 1, NEW x, x \in Thousands
  PROVE  FloatText(SubSeq(ds, 1, 1) \o (IF k = 1 THEN <<>> ELSE <<Dot>> \o Tail(ds))
                     \o <<101>> \o append_exponent(x), ds, x + 1 - k)
<1>. DEFINE start == SubSeq(ds, 1, 1) \o (IF k = 1 THEN <<>> ELSE <<Dot>> \o Tail(ds))
            t == append_exponent(x)
            mark == <<101>>
            s == start \o mark
            u == s \o t
            m == IF k = 1 THEN 1 ELSE k + 1
            h == m + 1
            q == Len(t)
            e == x + 1 - k
<1>1. /\ ds \in Seq(Nat) /\ k \in Nat /\ Len(ds) = k
      /\ \A i \in 1 .. k : ds[i] \in Digit
  BY DEF DigitsOf
<1>2. ds # <<>> /\ ds[1] # 48
  <2>1. Len(<<>>) = 0
    OBVIOUS
  <2>2. ds # <<>>
    BY <1>1, <2>1
  <2>. QED BY <2>2 DEF DigitsOf
<1>3. /\ t \in Seq(Nat) /\ q \in {3, 4} /\ t[1] \in {Plus, Minus}
      /\ \A i \in 2 .. q : t[i] \in Digit
      /\ Power(t) = x
  <2>1. ExponentWritten(t, x)
    BY ExponentText
  <2>. HIDE DEF t
  <2>. QED BY <2>1 DEF ExponentWritten
<1>4. mark \in Seq(Nat) /\ Len(mark) = 1 /\ mark[1] = 101
  OBVIOUS
<1>5. /\ m \in Nat /\ h \in Nat /\ h = m + 1 /\ m >= 1 /\ e \in Int
      /\ (k = 1 => m = 1) /\ (k # 1 => m = k + 1) /\ x \in Int
  BY <1>1 DEF Thousands
<1>6. u = SubSeq(ds, 1, 1) \o (IF k = 1 THEN <<>> ELSE <<Dot>> \o Tail(ds))
            \o <<101>> \o append_exponent(x)
  OBVIOUS
<1>7. /\ start \in Seq(Nat) /\ Len(start) = m /\ start[1] = ds[1]
      /\ k # 1 => start[2] = Dot
      /\ \A i \in 2 .. k : start[i + 1] = ds[i]
  <2>1. BeginsWith(start, ds, k, m)
    BY FirstAndRest
  <2>. HIDE DEF start, m
  <2>. QED BY <2>1 DEF BeginsWith
<1>. HIDE DEF t, q, mark, start, m
<1>8. /\ s \in Seq(Nat) /\ Len(s) = h
      /\ \A i \in 1 .. m : s[i] = start[i]
      /\ \A i \in 1 .. 1 : s[m + i] = mark[i]
  <2>1. Joins(s, start, m, mark, 1)
    BY <1>4, <1>7, Joined
  <2>. HIDE DEF s
  <2>. QED BY <2>1 DEF Joins
<1>. HIDE DEF s
<1>9. /\ u \in Seq(Nat) /\ Len(u) = h + q
      /\ \A i \in 1 .. h : u[i] = s[i]
      /\ \A i \in 1 .. q : u[h + i] = t[i]
  <2>. HIDE DEF h
  <2>1. Joins(u, s, h, t, q)
    BY <1>3, <1>8, Joined DEF q
  <2>. HIDE DEF u
  <2>. QED BY <2>1 DEF Joins
<1>. HIDE DEF u
<1>10. u[m + 1] = 101 /\ \A i \in 1 .. m : u[i] = start[i]
  <2>1. \A i \in 1 .. m : i \in 1 .. h
    BY <1>5
  <2>2. h \in 1 .. h /\ s[m + 1] = 101
    BY <1>4, <1>5, <1>8
  <2>3. u[h] = s[h]
    BY <1>9, <2>2
  <2>. QED BY <1>8, <1>9, <2>1, <2>2, <2>3
<1>11. u[1] = ds[1] /\ (k # 1 => u[2] = Dot) /\ \A i \in 2 .. k : u[i + 1] = ds[i]
  <2>1. 1 \in 1 .. m /\ (k # 1 => 2 \in 1 .. m) /\ \A i \in 2 .. k : i + 1 \in 1 .. m
    BY <1>1, <1>5
  <2>. QED BY <1>7, <1>10, <2>1
<1>12. UnsignedText(u, 1, m)
  <2>1. \A i \in 1 .. 1 : u[i] \in Digit
    <3>1. 1 \in 1 .. k
      BY <1>1
    <3>. QED BY <1>1, <1>11, <3>1
  <2>2. m = 1 \/ (m >= 3 /\ u[1 + 1] = Dot /\ \A i \in 3 .. m : u[i] \in Digit)
    <3>1. CASE k = 1
      BY <1>5, <3>1
    <3>2. CASE k # 1
      <4>1. m >= 3 /\ u[1 + 1] = Dot
        BY <1>1, <1>5, <1>11, <3>2
      <4>2. ASSUME NEW i \in 3 .. m PROVE u[i] \in Digit
        <5>. DEFINE j == i - 1
        <5>1. j \in 2 .. k /\ j \in 1 .. k /\ j + 1 = i
          BY <1>1, <1>5, <3>2
        <5>. HIDE DEF j
        <5>. QED BY <1>1, <1>11, <5>1
      <4>. QED BY <4>1, <4>2
    <3>. QED BY <3>1, <3>2
  <2>3. Len(u) >= m + 3
    BY <1>3, <1>5, <1>9
  <2>4. u[m + 2] \in {Plus, Minus}
    <3>1. 1 \in 1 .. q /\ h + 1 = m + 2
      BY <1>3, <1>5
    <3>2. u[h + 1] = t[1]
      BY <1>9, <3>1
    <3>. QED BY <1>3, <3>1, <3>2
  <2>5. ASSUME NEW i \in m + 3 .. Len(u) PROVE u[i] \in Digit
    <3>. DEFINE j == i - h
    <3>1. j \in 2 .. q /\ j \in 1 .. q /\ h + j = i
      BY <1>3, <1>5, <1>9
    <3>. HIDE DEF j, h
    <3>. QED BY <1>3, <1>9, <3>1
  <2>6. 1 \in Nat /\ 0 < 1 /\ 1 + 2 = 3
    OBVIOUS
  <2>. QED BY <1>5, <1>9, <1>10, <2>1, <2>2, <2>3, <2>4, <2>5, <2>6 DEF UnsignedText
<1>13. SubSeq(u, m + 2, Len(u)) = t
  <2>. DEFINE b == m + 2
              c == Len(u)
              r == SubSeq(u, b, c)
  <2>1. /\ b \in Nat /\ b >= 1 /\ c \in Nat /\ b = h + 1 /\ c = h + q /\ b <= c
        /\ c - b + 1 = q /\ c <= Len(u)
    BY <1>3, <1>5, <1>9
  <2>. HIDE DEF b, c
  <2>0. u \in Seq(Nat) /\ b \in Nat /\ c \in Nat /\ b >= 1 /\ c <= Len(u)
    BY <1>9, <2>1
  <2>2. /\ r \in Seq(Nat) /\ Len(r) = IF b <= c THEN c - b + 1 ELSE 0
        /\ \A i \in 1 .. c - b + 1 : r[i] = u[b + i - 1]
    BY <2>0, SubText
  <2>. HIDE DEF r, c, h
  <2>3. Len(r) = q /\ \A i \in 1 .. q : r[i] = u[b + i - 1]
    BY <2>1, <2>2
  <2>4. ASSUME NEW i \in 1 .. q PROVE r[i] = t[i]
    <3>1. b + i - 1 = h + i
      BY <1>3, <1>5, <2>1
    <3>. QED BY <1>9, <2>3, <3>1
  <2>5. r = t
    BY <1>3, <2>2, <2>3, <2>4, SeqEqual DEF q
  <2>. QED BY <2>5 DEF r, b, c
<1>14. Places10(1, m) = k - 1
  BY <1>1, <1>5 DEF Places10
<1>. DEFINE V == Digits10(u, 1, m)
<1>15. V = [i \in 1 .. k |-> IF i <= 1 THEN u[i] ELSE u[i + 1]]
  <2>1. 1 + Places10(1, m) = k
    BY <1>1, <1>14
  <2>. QED BY <2>1 DEF Digits10
<1>. HIDE DEF V
<1>16. Padded(V, ds, 0, 0)
  <2>1. Len(V) = k /\ k = 0 + k + 0
    BY <1>1, <1>15
  <2>2. ASSUME NEW i \in 1 .. k
        PROVE  V[i] = IF 0 < i /\ i <= 0 + k THEN ds[i - 0] ELSE 48
    <3>1. 0 < i /\ i <= 0 + k /\ i - 0 = i
      BY <1>1
    <3>2. CASE i = 1
      BY <1>11, <1>15, <3>1, <3>2
    <3>3. CASE i # 1
      <4>1. i \in 2 .. k /\ ~(i <= 1)
        BY <1>1, <3>3
      <4>. QED BY <1>11, <1>15, <3>1, <4>1
    <3>. QED BY <3>2, <3>3
  <2>. QED BY <1>1, <2>1, <2>2 DEF Padded
<1>. DEFINE p == Power(SubSeq(u, m + 2, Len(u))) - Places10(1, m)
<1>17. p \in Int /\ p = e - 0
  <2>1. p = x - (k - 1)
    BY <1>3, <1>13, <1>14
  <2>. HIDE DEF p
  <2>. QED BY <1>1, <1>5, <2>1
<1>18. 1 < Len(u)
  BY <1>3, <1>5, <1>9
<1>. HIDE DEF p, e
<1>19. FloatText(u, ds, e)
  BY <1>2, <1>12, <1>16, <1>17, <1>18 DEF FloatText, V, p
<1>. QED BY <1>6, <1>19 DEF e

LEMMA FormatText ==
  ASSUME NEW ds, NEW k, DigitsOf(ds, k), k >= 1, NEW e \in Int, k + e - 1 \in Thousands
  PROVE  FloatText(format_buffer(ds, e), ds, e)
<1>. DEFINE n == k + e
            f == format_buffer(ds, e)
            A == ds \o Zeros(n - k) \o <<Dot, 48>>
            B == SubSeq(ds, 1, n) \o <<Dot>> \o SubSeq(ds, n + 1, k)
            C == <<48, Dot>> \o Zeros(-n) \o ds
            D == SubSeq(ds, 1, 1) \o (IF k = 1 THEN <<>> ELSE <<Dot>> \o Tail(ds))
                      \o <<101>> \o append_exponent(n - 1)
<1>0. Len(ds) = k /\ k \in Nat
  BY DEF DigitsOf
<1>1. f = CASE k <= n /\ n <= 15 -> A
            [] 0 < n /\ n < k /\ n <= 15 -> B
            [] -4 < n /\ n <= 0 -> C
            [] OTHER -> D
  BY <1>0 DEF format_buffer, kMinExp, kMaxExp
<1>2. n \in Int /\ n - k = e /\ n - 1 \in Thousands
  BY <1>0
<1>. HIDE DEF n, f, A, B, C, D
<1>3. CASE k <= n /\ n <= 15
  <2>1. ~(0 < n /\ n < k /\ n <= 15) /\ ~(-4 < n /\ n <= 0) /\ n \in Nat
    BY <1>0, <1>2, <1>3
  <2>2. f = A
    BY <1>1, <1>3, <2>1, Zenon
  <2>3. FloatText(ds \o Zeros(n - k) \o <<Dot, 48>>, ds, n - k)
    BY <1>3, <2>1, WholeText10
  <2>. QED BY <1>2, <2>2, <2>3 DEF A, f
<1>4. CASE 0 < n /\ n < k /\ n <= 15
  <2>1. ~(k <= n /\ n <= 15) /\ ~(-4 < n /\ n <= 0) /\ n \in Nat
    BY <1>0, <1>2, <1>4
  <2>2. f = B
    BY <1>1, <1>4, <2>1, Zenon
  <2>3. FloatText(SubSeq(ds, 1, n) \o <<Dot>> \o SubSeq(ds, n + 1, k), ds, n - k)
    BY <1>4, <2>1, InnerText
  <2>. QED BY <1>2, <2>2, <2>3 DEF B, f
<1>5. CASE -4 < n /\ n <= 0
  <2>1. ~(k <= n /\ n <= 15) /\ ~(0 < n /\ n < k /\ n <= 15)
    BY <1>0, <1>2, <1>5
  <2>2. f = C
    BY <1>1, <1>5, <2>1, Zenon
  <2>3. -n \in Nat /\ (-(-n)) - k = n - k
    BY <1>0, <1>2, <1>5
  <2>. DEFINE z == -n
  <2>4. FloatText(<<48, Dot>> \o Zeros(z) \o ds, ds, (-z) - k)
    <3>. HIDE DEF z
    <3>1. z \in Nat
      BY <2>3 DEF z
    <3>. QED BY <3>1, SmallText
  <2>. QED BY <1>2, <2>2, <2>3, <2>4 DEF C, f
<1>6. CASE ~(k <= n /\ n <= 15) /\ ~(0 < n /\ n < k /\ n <= 15) /\ ~(-4 < n /\ n <= 0)
  <2>1. f = D
    BY <1>1, <1>6, Zenon
  <2>2. FloatText(SubSeq(ds, 1, 1) \o (IF k = 1 THEN <<>> ELSE <<Dot>> \o Tail(ds))
                    \o <<101>> \o append_exponent(n - 1), ds, n - k)
    <3>. DEFINE x == n - 1
    <3>1. x \in Thousands /\ x + 1 - k = n - k
      BY <1>0, <1>2
    <3>. HIDE DEF x
    <3>2. FloatText(SubSeq(ds, 1, 1) \o (IF k = 1 THEN <<>> ELSE <<Dot>> \o Tail(ds))
                      \o <<101>> \o append_exponent(x), ds, x + 1 - k)
      BY <3>1, ScientificText
    <3>. QED BY <3>1, <3>2 DEF x
  <2>. QED BY <1>2, <2>1, <2>2 DEF D, f
<1>. QED BY <1>3, <1>4, <1>5, <1>6

(***************************************************************************)
(* A number is dumped, then what has been written is read.                 *)
(***************************************************************************)
FloatWrote(n, w) ==
  \E u : FloatText(u, n.digits, n.exponent) /\ Signed(w, n.signbit, u)

Numeral(a, m) ==
  NumberText(written, a, m) /\ FitsWidth(a) /\ (a = Len(written) <=> number.type # "float")

NumberBack ==
  number \in IntegerNumbers \cup FloatNumbers =>
    /\ dumped = "none"
    /\ written = <<>> => source = Nothing /\ Unread
    /\ written # <<>> =>
         /\ source = [text |-> written]
         /\ number \in FloatNumbers => FloatWrote(number, written)
         /\ Unread \/ \E a, m : Numeral(a, m) /\ ReadingNumber(a, m)

LEMMA ReadType ==
  ASSUME number \in IntegerNumbers, IntegerText(written)
  PROVE  NumberType(IntegerType, written) = IntegerType
<1>. DEFINE half == 2 ^ (IntBits - 1)
            full == 2 ^ IntBits
            magnitude == DigitsValue(IF written[1] = Minus THEN Tail(written) ELSE written)
            type == IntegerType
<1>1. /\ Magnitude < full /\ (negative => Magnitude <= half)
      /\ negative \in BOOLEAN /\ signed \in BOOLEAN
  BY Magnitudes DEF signed
<1>2. magnitude = Magnitude /\ (signed <=> negative)
  BY DEF IntegerText, Unsigned, signed
<1>3. type = IF signed THEN "value_integer" ELSE "value_unsigned"
  BY DEF IntegerType
<1>4. NumberType(type, written) =
        IF \/ type = "value_unsigned" /\ magnitude < full
           \/ type = "value_integer" /\ magnitude <= half
        THEN type ELSE "value_float"
  BY DEF NumberType
<1>. HIDE DEF magnitude, type, half, full
<1>5. CASE signed
  <2>1. type = "value_integer" /\ magnitude <= half
    BY <1>1, <1>2, <1>3, <1>5
  <2>. QED BY <1>4, <2>1 DEF type
<1>6. CASE ~signed
  <2>1. type = "value_unsigned" /\ magnitude < full
    BY <1>1, <1>2, <1>3, <1>6
  <2>. QED BY <1>4, <2>1 DEF type
<1>. QED BY <1>1, <1>5, <1>6

LEMMA IntegerNumeral ==
  ASSUME number \in IntegerNumbers, IntegerText(written)
  PROVE  Numeral(Len(written), Len(written))
<1>. DEFINE n == Len(written)
<1>1. /\ written \in Seq(Nat) /\ n \in Nat /\ n > spent /\ (signed <=> negative)
      /\ \A i \in spent + 1 .. n : written[i] \in Digit
      /\ written[spent + 1] = 48 => n = 1 /\ ~negative
  BY LenProperties DEF IntegerText, signed
<1>2. signs = spent /\ (~negative => spent = 0)
  BY <1>1 DEF signs, spent
<1>3. FitsWidth(n)
  BY ReadType DEF FitsWidth
<1>4. number.type # "float"
  BY Types
<1>. HIDE DEF n
<1>5. written[signs + 1] = 48 => n = signs + 1
  BY <1>1, <1>2
<1>6. NumberText(written, n, n)
  BY <1>1, <1>2, <1>5 DEF NumberText, n
<1>. QED BY <1>3, <1>4, <1>6 DEF Numeral, n

(* A sign before a text moves all its places on by one.                    *)
LEMMA SignedNumeral ==
  ASSUME NEW u, NEW a, NEW m, UnsignedText(u, a, m), written = <<Minus>> \o u
  PROVE  NumberText(written, a + 1, m + 1) /\ Len(written) = Len(u) + 1
<1>. DEFINE n == Len(u)
<1>1. /\ u \in Seq(Nat) /\ a \in Nat /\ m \in Nat /\ 0 < a
      /\ \A i \in 1 .. a : u[i] \in Digit
      /\ u[1] = 48 => a = 1
      /\ \/ m = a
         \/ m >= a + 2 /\ u[a + 1] = Dot /\ \A i \in a + 2 .. m : u[i] \in Digit
      /\ \/ n = m
         \/ /\ n >= m + 3 /\ u[m + 1] = 101 /\ u[m + 2] \in {Plus, Minus}
            /\ \A i \in m + 3 .. n : u[i] \in Digit
  BY DEF UnsignedText
<1>2. n \in Nat /\ a <= m /\ m <= n
  BY <1>1, TextFacts
<1>3. Minus \in Nat
  BY DEF Minus
<1>4. /\ written \in Seq(Nat) /\ Len(written) = n + 1 /\ written[1] = Minus
      /\ \A i \in 1 .. n : written[i + 1] = u[i]
  BY <1>1, <1>3, TailOfSigned
<1>5. signs = 1
  BY <1>4 DEF signs, signed
<1>. HIDE DEF n
<1>6. ASSUME NEW i \in Int, 2 <= i, i <= n + 1
      PROVE  written[i] = u[i - 1]
  <2>1. i - 1 \in 1 .. n /\ (i - 1) + 1 = i
    BY <1>2, <1>6
  <2>. QED BY <1>4, <2>1
<1>7. \A i \in 2 .. a + 1 : written[i] \in Digit
  <2>. SUFFICES ASSUME NEW i \in 2 .. a + 1 PROVE written[i] \in Digit
    OBVIOUS
  <2>1. i - 1 \in 1 .. a /\ i \in Int /\ 2 <= i /\ i <= n + 1
    BY <1>1, <1>2
  <2>. QED BY <1>1, <1>6, <2>1
<1>8. written[2] = 48 => a + 1 = 2
  <2>1. 1 \in 1 .. n /\ 1 + 1 = 2
    BY <1>1, <1>2
  <2>2. written[2] = u[1]
    BY <1>4, <2>1
  <2>. QED BY <1>1, <2>2
<1>9. \/ m + 1 = a + 1
      \/ /\ m + 1 >= (a + 1) + 2 /\ written[(a + 1) + 1] = Dot
         /\ \A i \in (a + 1) + 2 .. m + 1 : written[i] \in Digit
  <2>1. CASE m = a
    BY <2>1
  <2>2. CASE m >= a + 2 /\ u[a + 1] = Dot /\ \A i \in a + 2 .. m : u[i] \in Digit
    <3>1. written[(a + 1) + 1] = Dot
      <4>1. ((a + 1) + 1) - 1 = a + 1 /\ 2 <= (a + 1) + 1 /\ (a + 1) + 1 <= n + 1
            /\ (a + 1) + 1 \in Int
        BY <1>1, <1>2, <2>2
      <4>. QED BY <1>6, <2>2, <4>1
    <3>2. ASSUME NEW i \in (a + 1) + 2 .. m + 1 PROVE written[i] \in Digit
      <4>1. i - 1 \in a + 2 .. m /\ i \in Int /\ 2 <= i /\ i <= n + 1
        BY <1>1, <1>2
      <4>. QED BY <1>6, <2>2, <4>1
    <3>3. m + 1 >= (a + 1) + 2
      BY <1>1, <2>2
    <3>. QED BY <3>1, <3>2, <3>3
  <2>. QED BY <1>1, <2>1, <2>2
<1>10. \/ n + 1 = m + 1
       \/ /\ n + 1 >= (m + 1) + 3 /\ written[(m + 1) + 1] = 101
          /\ written[(m + 1) + 2] \in {Plus, Minus}
          /\ \A i \in (m + 1) + 3 .. n + 1 : written[i] \in Digit
  <2>1. CASE n = m
    BY <2>1
  <2>2. CASE /\ n >= m + 3 /\ u[m + 1] = 101 /\ u[m + 2] \in {Plus, Minus}
             /\ \A i \in m + 3 .. n : u[i] \in Digit
    <3>1. written[(m + 1) + 1] = u[m + 1]
      <4>1. ((m + 1) + 1) - 1 = m + 1 /\ 2 <= (m + 1) + 1 /\ (m + 1) + 1 <= n + 1
            /\ (m + 1) + 1 \in Int
        BY <1>1, <1>2, <2>2
      <4>. QED BY <1>6, <4>1
    <3>2. written[(m + 1) + 2] = u[m + 2]
      <4>1. ((m + 1) + 2) - 1 = m + 2 /\ 2 <= (m + 1) + 2 /\ (m + 1) + 2 <= n + 1
            /\ (m + 1) + 2 \in Int
        BY <1>1, <1>2, <2>2
      <4>. QED BY <1>6, <4>1
    <3>3. ASSUME NEW i \in (m + 1) + 3 .. n + 1 PROVE written[i] \in Digit
      <4>1. i - 1 \in m + 3 .. n /\ i \in Int /\ 2 <= i /\ i <= n + 1
        BY <1>1, <1>2
      <4>. QED BY <1>6, <2>2, <4>1
    <3>4. n + 1 >= (m + 1) + 3
      BY <1>1, <1>2, <2>2
    <3>. QED BY <2>2, <3>1, <3>2, <3>3, <3>4
  <2>. QED BY <1>1, <2>1, <2>2
<1>. DEFINE b == a + 1
            l == m + 1
            o == n + 1
<1>11. b \in Nat /\ l \in Nat /\ 1 < b /\ 1 + 1 = 2
  BY <1>1
<1>. HIDE DEF b, l, o
<1>12. NumberText(written, b, l)
  <2>1. \A i \in 1 + 1 .. b : written[i] \in Digit
    BY <1>7, <1>11 DEF b
  <2>2. written[1 + 1] = 48 => b = 1 + 1
    BY <1>8, <1>11 DEF b
  <2>3. \/ l = b
        \/ l >= b + 2 /\ written[b + 1] = Dot /\ \A i \in b + 2 .. l : written[i] \in Digit
    BY <1>9 DEF b, l
  <2>4. \/ Len(written) = l
        \/ /\ Len(written) >= l + 3 /\ written[l + 1] = 101
           /\ written[l + 2] \in {Plus, Minus}
           /\ \A i \in l + 3 .. Len(written) : written[i] \in Digit
    BY <1>4, <1>10 DEF l
  <2>. QED BY <1>4, <1>5, <1>11, <2>1, <2>2, <2>3, <2>4 DEF NumberText
<1>. QED BY <1>4, <1>12 DEF b, l, n

LEMMA FloatNumeral ==
  ASSUME number \in FloatNumbers, FloatWrote(number, written)
  PROVE  \E a, m : Numeral(a, m)
<1>1. PICK u : /\ FloatText(u, number.digits, number.exponent)
               /\ written = IF number.signbit THEN <<Minus>> \o u ELSE u
  BY DEF FloatWrote, Signed
<1>2. PICK a, m : UnsignedText(u, a, m) /\ a < Len(u)
  BY <1>1 DEF FloatText
<1>3. number.type = "float" /\ number.signbit \in BOOLEAN
  BY DEF FloatNumbers
<1>4. Len(u) \in Nat /\ a \in Nat /\ 0 < a
  BY <1>2, TextFacts
<1>5. CASE number.signbit
  <2>1. written = <<Minus>> \o u
    BY <1>1, <1>5
  <2>2. NumberText(written, a + 1, m + 1) /\ Len(written) = Len(u) + 1
    BY <1>2, <2>1, SignedNumeral
  <2>3. a + 1 # Len(written)
    BY <1>2, <1>4, <2>2
  <2>4. Numeral(a + 1, m + 1)
    BY <1>3, <2>2, <2>3 DEF Numeral, FitsWidth
  <2>. QED BY <2>4
<1>6. CASE ~number.signbit
  <2>1. written = u
    BY <1>1, <1>6
  <2>2. signs = 0
    <3>1. u[1] \in Digit
      <4>1. 1 \in 1 .. a
        BY <1>4
      <4>. QED BY <1>2, <4>1 DEF UnsignedText
    <3>. QED BY <2>1, <3>1 DEF signs, signed, Digit, Minus
  <2>3. NumberText(written, a, m)
    <3>1. 0 + 1 = 1
      OBVIOUS
    <3>. QED BY <1>2, <2>1, <2>2, <3>1 DEF NumberText, UnsignedText
  <2>4. a # Len(written)
    BY <1>2, <1>4, <2>1
  <2>5. Numeral(a, m)
    BY <1>3, <2>3, <2>4 DEF Numeral, FitsWidth
  <2>. QED BY <2>5
<1>. QED BY <1>3, <1>5, <1>6

LEMMA DumpFloatWrote ==
  ASSUME number \in FloatNumbers, DumpFloat
  PROVE  FloatWrote(number, written')
<1>. DEFINE ds == number.digits
            e == number.exponent
            u == IF ds = <<>> THEN <<48, Dot, 48>> ELSE format_buffer(ds, e)
<1>1. number.signbit \in BOOLEAN
  BY DEF FloatNumbers
<1>2. written' = (IF number.signbit THEN <<Minus>> ELSE <<>>) \o u
  BY DEF DumpFloat
<1>3. FloatText(u, ds, e)
  <2>1. CASE ds = <<>>
    <3>1. e = 0
      <4>1. \A digits \in DigitTexts : digits # <<>>
        BY DigitsAssumption
      <4>. QED BY <2>1, <4>1 DEF FloatNumbers
    <3>. QED BY <2>1, <3>1, ZeroFloat
  <2>2. CASE ds # <<>>
    <3>1. ds \in DigitTexts /\ e \in Exponents10
      BY <2>2 DEF FloatNumbers
    <3>. HIDE DEF ds, e
    <3>2. ds \in Seq(48 .. 57) /\ Len(ds) \in 1 .. 17 /\ ds[1] # 48
      BY <3>1, DigitsAssumption
    <3>3. e \in Int
      BY <3>1, DigitsAssumption
    <3>4. Len(ds) + e - 1 \in Thousands
      <4>1. \A digits \in DigitTexts, x \in Exponents10 : Len(digits) + x - 1 \in Thousands
        BY DigitsAssumption, Zenon DEF Thousands
      <4>. QED BY <3>1, <4>1, Zenon
    <3>5. DigitsOf(ds, Len(ds)) /\ Len(ds) >= 1
      <4>1. ds \in Seq(Nat)
        BY <3>2, SeqMonotonic
      <4>2. Len(ds) \in Nat /\ Len(ds) >= 1
        BY <3>2
      <4>3. \A i \in 1 .. Len(ds) : ds[i] \in Digit
        BY <3>2, ElementOfSeq DEF Digit
      <4>4. ds[1] # 48
        BY <3>2
      <4>. QED BY <4>1, <4>2, <4>3, <4>4 DEF DigitsOf
    <3>6. FloatText(format_buffer(ds, e), ds, e)
      BY <3>3, <3>4, <3>5, FormatText, Zenon
    <3>. QED BY <2>2, <3>6
  <2>. QED BY <2>1, <2>2
<1>4. u \in Seq(Nat)
  BY <1>3 DEF FloatText, UnsignedText
<1>. HIDE DEF u
<1>5. <<>> \o u = u
  BY <1>4, ConcatEmptySeq
<1>6. written' = IF number.signbit THEN <<Minus>> \o u ELSE u
  BY <1>1, <1>2, <1>5
<1>. QED BY <1>3, <1>6 DEF FloatWrote, Signed

LEMMA NumberBackStart ==
  ASSUME TextInit
  PROVE  NumberBack
<1>1. Unread
  BY DEF TextInit, LexerInit, Unread
<1>2. number.type = "none" => number \notin IntegerNumbers \cup FloatNumbers
  BY Types
<1>3. CASE NoNumber
  BY <1>2, <1>3 DEF NoNumber, NumberBack
<1>4. CASE source = Nothing /\ NoString /\ NumberInit
  BY <1>1, <1>4 DEF NoString, NumberInit, NumberBack
<1>. QED BY <1>3, <1>4 DEF TextInit

LEMMA StillReading ==
  ASSUME NEW a, NEW m, ReadingNumber(a, m),
         UNCHANGED <<at, input, next_unget, current, tokens, token_buffer, number_type, written>>
  PROVE  ReadingNumber(a, m)'
<1>1. UNCHANGED <<signed, signs, IntegerType, TheToken(a)>>
  BY DEF signed, signs, IntegerType, TheToken
<1>2. Unread => Unread'
  BY DEF Unread
<1>3. FirstPeeked => FirstPeeked'
  BY DEF FirstPeeked
<1>4. ASSUME NEW k, InNumber(k, a, m)
      PROVE  InNumber(k, a, m)'
  <2>1. Place(k, a, m)'
    BY <1>1, <1>4 DEF InNumber, Place
  <2>. QED BY <1>1, <1>4, <2>1 DEF InNumber
<1>5. NumberRead(a) => NumberRead(a)'
  BY <1>1 DEF NumberRead
<1>6. NumberDone(a) => NumberDone(a)'
  BY <1>1 DEF NumberDone, Mark
<1>. QED BY <1>2, <1>3, <1>4, <1>5, <1>6 DEF ReadingNumber

LEMMA StillNumeral ==
  ASSUME NEW a, NEW m, Numeral(a, m), UNCHANGED <<number, written>>
  PROVE  Numeral(a, m)'
<1>1. UNCHANGED <<signs, IntegerType>>
  BY DEF signed, signs, IntegerType
<1>2. NumberText(written, a, m)'
  BY <1>1 DEF Numeral, NumberText
<1>3. FitsWidth(a)'
  BY <1>1 DEF Numeral, FitsWidth
<1>. QED BY <1>2, <1>3 DEF Numeral

LEMMA WrittenNumeral ==
  ASSUME NumberInv, NumberBack, number \in IntegerNumbers \cup FloatNumbers, written # <<>>
  PROVE  \E a, m : Numeral(a, m) /\ ReadingNumber(a, m)
<1>1. /\ number \in FloatNumbers => FloatWrote(number, written)
      /\ Unread \/ \E a, m : Numeral(a, m) /\ ReadingNumber(a, m)
  BY DEF NumberBack
<1>2. CASE Unread
  <2>1. \E a, m : Numeral(a, m)
    BY <1>1, FloatNumeral, IntegerWritten, IntegerNumeral
  <2>. QED BY <1>2, <2>1 DEF ReadingNumber
<1>. QED BY <1>1, <1>2

LEMMA NumberBackStep ==
  ASSUME TextInv, NumberInv, NumberInv', NumberBack, [TextNext]_textVars
  PROVE  NumberBack'
<1>. DEFINE IsNumber == number \in IntegerNumbers \cup FloatNumbers
<1>1. CASE DumpString
  <2>1. dumped = "running" /\ number' = number
    BY <1>1 DEF DumpString, DumpNext, DumpByte, DumpEnd, numberVars
  <2>. QED BY <2>1 DEF NumberBack
<1>2. CASE DumpNumber
  <2>1. /\ source = Nothing /\ number' = number /\ NumberNext
        /\ UNCHANGED <<input, next_unget, at, tokens, dumped>>
        /\ IF written' # <<>> THEN source' = [text |-> written'] ELSE source' = source
    BY <1>2, NumberStep DEF DumpNumber, dumpVars, Give
  <2>2. ASSUME IsNumber
        PROVE  written = <<>>
    <3>. SUFFICES ASSUME written # <<>> PROVE FALSE
      OBVIOUS
    <3>1. source = [text |-> written]
      BY <2>2 DEF NumberBack
    <3>2. source.text = written /\ Nothing.text = <<>>
      BY <3>1 DEF Nothing
    <3>. QED BY <2>1, <3>2
  <2>3. ASSUME IsNumber
        PROVE  dumped' = "none" /\ Unread'
    BY <2>1, <2>2, <2>3 DEF NumberBack, Unread
  <2>4. ASSUME number \in FloatNumbers
        PROVE  FloatWrote(number', written')
    <3>1. number.type = "float" /\ buffer_ptr = Unset
      BY <2>4, Types DEF NumberInv
    <3>2. DumpFloat
      BY <2>1, <3>1 DEF NumberNext, DumpZero, DumpInteger, DumpPair, DumpLast
    <3>. QED BY <2>1, <2>4, <3>2, DumpFloatWrote
  <2>. QED BY <2>1, <2>3, <2>4 DEF NumberBack
<1>3. CASE ReadText
  <2>1. /\ source # Nothing /\ LexerNext /\ UNCHANGED <<number, written, dumped>>
    BY <1>3 DEF ReadText, dumpVars, numberVars
  <2>2. ASSUME IsNumber
        PROVE  /\ dumped' = "none" /\ written' # <<>> /\ source' = [text |-> written']
               /\ number \in FloatNumbers => FloatWrote(number', written')
               /\ \E a, m : Numeral(a, m)' /\ ReadingNumber(a, m)'
    <3>1. /\ dumped = "none" /\ written # <<>> /\ source = [text |-> written]
          /\ number \in FloatNumbers => FloatWrote(number, written)
      BY <2>1, <2>2 DEF NumberBack
    <3>2. PICK a, m : Numeral(a, m) /\ ReadingNumber(a, m)
      BY <2>2, <3>1, WrittenNumeral
    <3>3. ReadsNumber(a, m)
      BY <2>1, <3>1, <3>2 DEF ReadsNumber, Numeral, TextInv
    <3>4. ReadingNumber(a, m)'
      BY <3>2, <3>3, ReadsNumberStep
    <3>5. Numeral(a, m)'
      BY <2>1, <3>2, StillNumeral
    <3>6. source' = source
      BY <2>1, LexerSource
    <3>. QED BY <2>1, <3>1, <3>4, <3>5, <3>6
  <2>. QED BY <2>1, <2>2 DEF NumberBack
<1>4. CASE UNCHANGED textVars
  <2>1. UNCHANGED <<source, at, input, next_unget, current, tokens, token_buffer, number_type,
                    number, written, dumped>>
    BY <1>4 DEF textVars, vars, scratch, dumpVars, numberVars
  <2>2. Unread => Unread'
    BY <2>1 DEF Unread
  <2>3. ASSUME NEW a, NEW m, Numeral(a, m), ReadingNumber(a, m)
        PROVE  Numeral(a, m)' /\ ReadingNumber(a, m)'
    BY <2>1, <2>3, StillReading, StillNumeral
  <2>4. FloatWrote(number, written) => FloatWrote(number', written')
    BY <2>1
  <2>. QED BY <2>1, <2>2, <2>3, <2>4 DEF NumberBack
<1>. QED BY <1>1, <1>2, <1>3, <1>4 DEF TextNext

(* At the end of the input, all of a number that was dumped has been read. *)
LEMMA NumberAtEnd ==
  ASSUME NumberInv, NumberBack, at = "stopped", number.type # "none"
  PROVE  /\ number \in IntegerNumbers \cup FloatNumbers /\ written # <<>>
         /\ number \in FloatNumbers => FloatWrote(number, written)
         /\ Len(tokens) = 2 /\ tokens[2].type = "end_of_input" /\ TheNumber.text = written
         /\ TheNumber.type = IF number.type # "float" THEN IntegerType ELSE "value_float"
<1>1. number \in IntegerNumbers \cup FloatNumbers
  BY DEF NumberInv
<1>2. ~Unread
  BY DEF Unread
<1>3. written # <<>> /\ (number \in FloatNumbers => FloatWrote(number, written))
  BY <1>1, <1>2 DEF NumberBack
<1>4. PICK a, m : Numeral(a, m) /\ ReadingNumber(a, m)
  BY <1>1, <1>3, WrittenNumeral
<1>5. NumberDone(a)
  BY <1>2, <1>4 DEF ReadingNumber, FirstPeeked, InNumber, Place, NumberRead
<1>6. TheNumber = TheToken(a) /\ Len(tokens) = 2 /\ tokens[2] = Mark("end_of_input")
  BY <1>5 DEF NumberDone, TheNumber
<1>7. /\ TheNumber.type = (IF a = Len(written) THEN IntegerType ELSE "value_float")
      /\ TheNumber.text = written /\ tokens[2].type = "end_of_input"
  BY <1>6 DEF TheToken, Mark
<1>. QED BY <1>1, <1>3, <1>4, <1>6, <1>7 DEF Numeral

LEMMA IntegerIsRead ==
  ASSUME NumberInv, NumberBack
  PROVE  IntegerReadsBack
<1>. SUFFICES ASSUME at = "stopped", number.type \in {"integer", "unsigned"}
              PROVE  /\ Len(tokens) = 2 /\ tokens[2].type = "end_of_input"
                     /\ TheNumber.type = IF negative THEN "value_integer" ELSE "value_unsigned"
                     /\ (IF negative THEN -DigitsValue(Tail(TheNumber.text))
                         ELSE DigitsValue(TheNumber.text)) = number.value
  BY DEF IntegerReadsBack
<1>1. number.type # "none" /\ number.type # "float"
  OBVIOUS
<1>2. /\ number \in IntegerNumbers /\ written # <<>>
      /\ Len(tokens) = 2 /\ tokens[2].type = "end_of_input" /\ TheNumber.text = written
      /\ TheNumber.type = IntegerType
  BY <1>1, NumberAtEnd, Types
<1>3. IntegerText(written)
  BY <1>2, IntegerWritten
<1>4. /\ number.value \in Int /\ Magnitude \in Nat /\ negative \in BOOLEAN
      /\ Magnitude = IF negative THEN -number.value ELSE number.value
  BY <1>2, Magnitudes DEF Magnitude
<1>5. IntegerType = IF negative THEN "value_integer" ELSE "value_unsigned"
  BY <1>3 DEF IntegerText, IntegerType, signed
<1>6. CASE negative
  <2>1. DigitsValue(Tail(written)) = Magnitude
    BY <1>3, <1>6 DEF IntegerText, Unsigned
  <2>2. -Magnitude = number.value
    BY <1>4, <1>6
  <2>. QED BY <1>2, <1>5, <1>6, <2>1, <2>2
<1>7. CASE ~negative
  <2>1. DigitsValue(written) = Magnitude
    BY <1>3, <1>7 DEF IntegerText, Unsigned
  <2>2. Magnitude = number.value
    BY <1>4, <1>7
  <2>. QED BY <1>2, <1>5, <1>7, <2>1, <2>2
<1>. QED BY <1>4, <1>6, <1>7

LEMMA FloatIsRead ==
  ASSUME NumberInv, NumberBack
  PROVE  FloatReadsBack
<1>. SUFFICES ASSUME at = "stopped", number.type = "float"
              PROVE  /\ Len(tokens) = 2 /\ tokens[2].type = "end_of_input"
                     /\ TheNumber.type = "value_float"
                     /\ DecimalOf(TheNumber.text)
                          = Normal(number.signbit, number.digits, number.exponent)
  BY DEF FloatReadsBack
<1>1. /\ number \in FloatNumbers /\ FloatWrote(number, written)
      /\ Len(tokens) = 2 /\ tokens[2].type = "end_of_input" /\ TheNumber.text = written
      /\ TheNumber.type = "value_float"
  BY NumberAtEnd, Types
<1>2. PICK u : /\ FloatText(u, number.digits, number.exponent)
               /\ Signed(written, number.signbit, u)
  BY <1>1 DEF FloatWrote
<1>3. number.signbit \in BOOLEAN /\ number.digits \in Seq(Nat) /\ number.exponent \in Int
  <2>1. \A digits \in DigitTexts : digits \in Seq(Nat)
    BY DigitsAssumption, SeqMonotonic
  <2>2. <<>> \in Seq(Nat) /\ 0 \in Int /\ Exponents10 \subseteq Int
    BY DigitsAssumption
  <2>. QED BY <1>1, <2>1, <2>2 DEF FloatNumbers
<1>4. DecimalOf(written) = Normal(number.signbit, number.digits, number.exponent)
  BY <1>2, <1>3, Denotes
<1>. QED BY <1>1, <1>4

(* For every integer: the lexer reads what dump() has written of it as one *)
(* integer token with its value, and then the end of the input.            *)
THEOREM IntegersReadBack == TextSpec => []IntegerReadsBack
<1>1. TextInit => NumberInv /\ NumberBack
  BY NumberStart, NumberBackStart DEF TextInit
<1>2. NumberInv /\ [TextNext]_textVars => NumberInv'
  BY NumberKept
<1>3. TextInv /\ NumberInv /\ NumberInv' /\ NumberBack /\ [TextNext]_textVars => NumberBack'
  BY NumberBackStep
<1>4. NumberInv /\ NumberBack => IntegerReadsBack
  BY IntegerIsRead
<1>. QED BY <1>1, <1>2, <1>3, <1>4, TextInvariant, PTL DEF TextSpec

(* For every double whose digits and exponent grisu2 may give: the lexer   *)
(* reads what to_chars has written of it as one float token, whose digits, *)
(* point and exponent denote the same decimal number, and then the end.    *)
THEOREM FloatsReadBack == TextSpec => []FloatReadsBack
<1>1. TextInit => NumberInv /\ NumberBack
  BY NumberStart, NumberBackStart DEF TextInit
<1>2. NumberInv /\ [TextNext]_textVars => NumberInv'
  BY NumberKept
<1>3. TextInv /\ NumberInv /\ NumberInv' /\ NumberBack /\ [TextNext]_textVars => NumberBack'
  BY NumberBackStep
<1>4. NumberInv /\ NumberBack => FloatReadsBack
  BY FloatIsRead
<1>. QED BY <1>1, <1>2, <1>3, <1>4, TextInvariant, PTL DEF TextSpec
=============================================================================
