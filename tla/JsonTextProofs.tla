--------------------------- MODULE JsonTextProofs --------------------------
(***************************************************************************)
(* For every text and every size of the buffer from thirteen bytes on,     *)
(* dump_escaped stays within the buffer, what decode calls a code point is *)
(* a scalar value, and the lexer knows where it is.  Of the texts, dump()  *)
(* writes exactly those that are UTF-8 and throws on all others.           *)
(***************************************************************************)
EXTENDS JsonText, FiniteSetTheorems, SequenceTheorems, WellFoundedInduction, TLAPS

LEMMA ClassStates ==
  ASSUME NEW st \in 0 .. 8, NEW class \in 0 .. 11
  PROVE  Step(st, class) \in 0 .. 8
  BY DEF Step, UTF8_REJECT

LEMMA ClassRange ==
  ASSUME NEW b \in 0 .. 255
  PROVE  Class(b) \in 0 .. 11
  BY DEF Class

LEMMA EscapedShort ==
  ASSUME NEW cp \in Nat, NEW b \in 0 .. 255
  PROVE  Escaped(cp, b) \in Seq(Nat) /\ Len(Escaped(cp, b)) \in 0 .. 6
<1>1. CASE cp < 32 /\ cp \notin {8, 9, 10, 12, 13}
  <2>1. cp \div 16 + 1 \in 1 .. 16 /\ (cp % 16) + 1 \in 1 .. 16
    BY <1>1
  <2>2. Hexits[cp \div 16 + 1] \in Nat /\ Hexits[(cp % 16) + 1] \in Nat
    BY <2>1 DEF Hexits
  <2>. QED BY <1>1, <2>2 DEF Escaped
<1>2. CASE ~(cp < 32 /\ cp \notin {8, 9, 10, 12, 13})
  BY <1>2 DEF Escaped
<1>. QED BY <1>1, <1>2

(* decode: a step of the automaton keeps what its states say of the part   *)
(* that has been read.                                                     *)
LEMMA DecodeStep ==
  ASSUME state \in 0 .. 8, state # UTF8_REJECT, codepoint \in Nat,
         IsPart(state, codepoint), NEW b \in 0 .. 255
  PROVE  /\ Codepoint(b) \in Nat
         /\ IsPart(Step(state, Class(b)), Codepoint(b))
         /\ Step(state, Class(b)) = UTF8_ACCEPT /\ b >= 128 => Codepoint(b) >= 128
<1>1. CASE state = 0
  <2>1. CASE b < 128
    <3>1. Class(b) = 0 /\ Step(0, 0) = 0
      BY <2>1 DEF Class, Step
    <3>2. Codepoint(b) = b
      <4>1. Codepoint(b) = b % FirstBits[1]
        BY <1>1, <3>1 DEF Codepoint, UTF8_ACCEPT
      <4>. QED BY <4>1, <2>1 DEF FirstBits
    <3>3. IsScalar(b)
      BY <2>1 DEF IsScalar
    <3>4. IsPart(0, b)
      BY <3>3 DEF IsPart
    <3>. QED BY <1>1, <2>1, <3>1, <3>2, <3>4
  <2>2. CASE b \in 194 .. 223
    <3>1. Class(b) = 2 /\ Step(0, 2) = 2
      BY <2>2 DEF Class, Step
    <3>2. Codepoint(b) = b - 192
      <4>1. Codepoint(b) = b % FirstBits[3]
        BY <1>1, <3>1 DEF Codepoint, UTF8_ACCEPT
      <4>. QED BY <4>1, <2>2 DEF FirstBits
    <3>. QED BY <1>1, <2>2, <3>1, <3>2 DEF IsPart, UTF8_ACCEPT
  <2>3. CASE b = 224
    <3>1. Class(b) = 10 /\ Step(0, 10) = 4 /\ Codepoint(b) = 0
      BY <1>1, <2>3 DEF Class, Step, Codepoint, UTF8_ACCEPT
    <3>. QED BY <1>1, <3>1 DEF IsPart, UTF8_ACCEPT
  <2>4. CASE b = 237
    <3>1. Class(b) = 4 /\ Step(0, 4) = 5
      BY <2>4 DEF Class, Step
    <3>2. Codepoint(b) = 13
      <4>1. Codepoint(b) = b % FirstBits[5]
        BY <1>1, <3>1 DEF Codepoint, UTF8_ACCEPT
      <4>. QED BY <4>1, <2>4 DEF FirstBits
    <3>. QED BY <1>1, <3>1, <3>2 DEF IsPart, UTF8_ACCEPT
  <2>5. CASE b \in 225 .. 239 /\ b # 237
    <3>1. Class(b) = 3 /\ Step(0, 3) = 3
      BY <2>5 DEF Class, Step
    <3>2. Codepoint(b) = b - 224
      <4>1. Codepoint(b) = b % FirstBits[4]
        BY <1>1, <3>1 DEF Codepoint, UTF8_ACCEPT
      <4>. QED BY <4>1, <2>5 DEF FirstBits
    <3>. QED BY <1>1, <2>5, <3>1, <3>2 DEF IsPart, UTF8_ACCEPT
  <2>6. CASE b = 240
    <3>1. Class(b) = 11 /\ Step(0, 11) = 6 /\ Codepoint(b) = 0
      BY <1>1, <2>6 DEF Class, Step, Codepoint, UTF8_ACCEPT
    <3>. QED BY <1>1, <3>1 DEF IsPart, UTF8_ACCEPT
  <2>7. CASE b \in 241 .. 243
    <3>1. Class(b) = 6 /\ Step(0, 6) = 7
      BY <2>7 DEF Class, Step
    <3>2. Codepoint(b) = b - 240
      <4>1. Codepoint(b) = b % FirstBits[7]
        BY <1>1, <3>1 DEF Codepoint, UTF8_ACCEPT
      <4>. QED BY <4>1, <2>7 DEF FirstBits
    <3>. QED BY <1>1, <2>7, <3>1, <3>2 DEF IsPart, UTF8_ACCEPT
  <2>8. CASE b = 244
    <3>1. Class(b) = 5 /\ Step(0, 5) = 8
      BY <2>8 DEF Class, Step
    <3>2. Codepoint(b) = 4
      <4>1. Codepoint(b) = b % FirstBits[6]
        BY <1>1, <3>1 DEF Codepoint, UTF8_ACCEPT
      <4>. QED BY <4>1, <2>8 DEF FirstBits
    <3>. QED BY <1>1, <3>1, <3>2 DEF IsPart, UTF8_ACCEPT
  <2>9. CASE b \in 128 .. 193 \/ b \in 245 .. 255
    <3>1. Class(b) \in {1, 7, 8, 9}
      BY <2>9 DEF Class
    <3>2. Step(state, Class(b)) = UTF8_REJECT
      BY <1>1, <3>1 DEF Step
    <3>3. Codepoint(b) \in Nat
      <4>1. Class(b) + 1 \in 1 .. 10
        BY <3>1
      <4>2. CASE Class(b) > 8
        BY <1>1, <4>2 DEF Codepoint, UTF8_ACCEPT
      <4>3. CASE Class(b) <= 8
        <5>1. FirstBits[Class(b) + 1] \in {128, 2, 1}
          BY <3>1, <4>3 DEF FirstBits
        <5>2. Codepoint(b) = b % FirstBits[Class(b) + 1]
          BY <1>1, <3>1, <4>3 DEF Codepoint, UTF8_ACCEPT
        <5>. QED BY <5>1, <5>2
      <4>. QED BY <3>1, <4>2, <4>3
    <3>. QED BY <3>2, <3>3 DEF IsPart, UTF8_REJECT, UTF8_ACCEPT
  <2>. QED BY <2>1, <2>2, <2>3, <2>4, <2>5, <2>6, <2>7, <2>8, <2>9
<1>2. CASE state # 0
  <2>1. Codepoint(b) = codepoint * 64 + (b % 64)
    BY <1>2 DEF Codepoint, UTF8_ACCEPT
  <2>2. CASE b \in 128 .. 191
    <3>1. b % 64 = b - 128
      BY <2>2
    <3>2. Codepoint(b) = codepoint * 64 + b - 128
      BY <2>1, <3>1
    <3> HIDE DEF Codepoint
    <3>3. CASE state = 2
      <4>1. Class(b) \in {1, 7, 9}
        BY <2>2 DEF Class
      <4>2. Step(state, Class(b)) = 0
        BY <3>3, <4>1 DEF Step
      <4>3. (2 <= codepoint /\ codepoint < 864) \/ (896 <= codepoint /\ codepoint < 17408)
        BY <3>3 DEF IsPart
      <4>4. IsScalar(Codepoint(b)) /\ Codepoint(b) >= 128
        <5>1. b - 128 \in 0 .. 63 /\ Codepoint(b) = codepoint * 64 + (b - 128)
          BY <2>2, <3>2
        <5>2. CASE 2 <= codepoint /\ codepoint < 864
          <6>1. Codepoint(b) \in Nat /\ 128 <= Codepoint(b) /\ Codepoint(b) < 55296
            BY <5>1, <5>2
          <6>. QED BY <6>1 DEF IsScalar
        <5>3. CASE 896 <= codepoint /\ codepoint < 17408
          <6>1. Codepoint(b) \in Nat /\ 57344 <= Codepoint(b) /\ Codepoint(b) < 1114112
            BY <5>1, <5>3
          <6>. QED BY <6>1 DEF IsScalar
        <5>. QED BY <4>3, <5>2, <5>3
      <4>5. IsPart(0, Codepoint(b)) /\ Codepoint(b) \in Nat
        BY <4>4 DEF IsPart, IsScalar
      <4>. QED BY <4>2, <4>4, <4>5
    <3>4. CASE state = 3
      <4>1. Class(b) \in {1, 7, 9}
        BY <2>2 DEF Class
      <4>2. Step(state, Class(b)) = 2
        BY <3>4, <4>1 DEF Step
      <4>3. (1 <= codepoint /\ codepoint < 13) \/ (14 <= codepoint /\ codepoint < 272)
        BY <3>4 DEF IsPart
      <4>4. b - 128 \in 0 .. 63 /\ Codepoint(b) = codepoint * 64 + (b - 128)
        BY <2>2, <3>2
      <4>5. Codepoint(b) \in Nat /\ ((2 <= Codepoint(b) /\ Codepoint(b) < 864) \/ (896 <= Codepoint(b) /\ Codepoint(b) < 17408))
        <5>1. CASE 1 <= codepoint /\ codepoint < 13
          BY <4>4, <5>1
        <5>2. CASE 14 <= codepoint /\ codepoint < 272
          BY <4>4, <5>2
        <5>. QED BY <4>3, <5>1, <5>2
      <4>6. IsPart(2, Codepoint(b)) /\ Codepoint(b) \in Nat
        BY <4>5 DEF IsPart
      <4>. QED BY <4>2, <4>6 DEF UTF8_ACCEPT
    <3>5. CASE state = 4
      BY <2>2, <3>2, <3>5 DEF Class, Step, IsPart, UTF8_ACCEPT, UTF8_REJECT
    <3>6. CASE state = 5
      BY <2>2, <3>2, <3>6 DEF Class, Step, IsPart, UTF8_ACCEPT, UTF8_REJECT
    <3>7. CASE state = 6
      BY <2>2, <3>2, <3>7 DEF Class, Step, IsPart, UTF8_ACCEPT, UTF8_REJECT
    <3>8. CASE state = 7
      BY <2>2, <3>2, <3>8 DEF Class, Step, IsPart, UTF8_ACCEPT, UTF8_REJECT
    <3>9. CASE state = 8
      BY <2>2, <3>2, <3>9 DEF Class, Step, IsPart, UTF8_ACCEPT, UTF8_REJECT
    <3>. QED BY <1>2, <3>3, <3>4, <3>5, <3>6, <3>7, <3>8, <3>9 DEF UTF8_REJECT
  <2>3. CASE b \notin 128 .. 191
    <3>1. Class(b) \notin {1, 7, 9}
      BY <2>3 DEF Class
    <3>2. Step(state, Class(b)) = UTF8_REJECT
      BY <1>2, <3>1 DEF Step
    <3>3. Codepoint(b) \in Nat
      BY <2>1
    <3>. QED BY <3>2, <3>3 DEF IsPart, UTF8_REJECT, UTF8_ACCEPT
  <2>. QED BY <2>2, <2>3
<1>. QED BY <1>1, <1>2

LEMMA WaitingRange ==
  ASSUME NEW st \in 0 .. 8
  PROVE  /\ Waiting[st] \in 0 .. 3
         /\ Waiting[0] = 0
  BY DEF Waiting

(* Every step to a state within a character adds one byte that waits.      *)
LEMMA WaitingStep ==
  ASSUME NEW st \in 0 .. 8, NEW class \in 0 .. 11, st # UTF8_REJECT,
         Step(st, class) # UTF8_ACCEPT, Step(st, class) # UTF8_REJECT
  PROVE  Waiting[st] + 1 <= Waiting[Step(st, class)]
<1>1. CASE st = 0
  BY <1>1 DEF Step, Waiting, UTF8_ACCEPT, UTF8_REJECT
<1>2. CASE st # 0
  BY <1>2 DEF Step, Waiting, UTF8_ACCEPT, UTF8_REJECT
<1>. QED BY <1>1, <1>2

(* After a complete character thirteen bytes are free again.               *)
LEMMA FlushFree ==
  ASSUME NEW buffer \in Seq(Nat), output \in Seq(Nat), Flush(buffer)
  PROVE  /\ string_buffer' \in Seq(Nat) /\ output' \in Seq(Nat)
         /\ Len(string_buffer') + 13 <= BufferSize
<1>1. Len(<<>>) = 0 /\ <<>> \in Seq(Nat) /\ Len(buffer) \in Nat
  OBVIOUS
<1>2. CASE BufferSize - Len(buffer) < 13
  <2>1. output' = output \o buffer /\ string_buffer' = <<>>
    BY <1>2 DEF Flush
  <2>2. output \o buffer \in Seq(Nat)
    OBVIOUS
  <2>3. Len(string_buffer') = 0
    BY <2>1
  <2>. QED BY <1>1, <2>1, <2>2, <2>3, BufferAssumption
<1>3. CASE ~(BufferSize - Len(buffer) < 13)
  BY <1>1, <1>3, BufferAssumption DEF Flush
<1>. QED BY <1>2, <1>3

(* A code point adds at most seven bytes, the NUL of snprintf included.    *)
LEMMA MostFits ==
  ASSUME NEW filled \in Nat, NEW waiting \in 0 .. 3, NEW more \in 0 .. 6, NEW high \in Nat,
         high <= BufferSize, filled + 13 <= BufferSize + waiting
  PROVE  LET now == Highest(high, filled + more + (IF more = 6 THEN 1 ELSE 0))
         IN  now \in Nat /\ now <= BufferSize
  BY BufferAssumption DEF Highest

(* A byte held back takes the place that one more may wait in.             *)
LEMMA OneMoreWaits ==
  ASSUME NEW filled \in Nat, NEW before \in 0 .. 3, NEW after \in 0 .. 3,
         filled + 13 <= BufferSize + before, before + 1 <= after
  PROVE  filled + 1 + 13 <= BufferSize + after
  BY BufferAssumption

LEMMA DumpInitInv == DumpInit => DumpInv
<1>. SUFFICES ASSUME DumpInit PROVE DumpInv
  OBVIOUS
<1>1. IsPart(state, codepoint) /\ IsScalar(codepoint) /\ AsciiByByte
  BY DEF DumpInit, IsPart, IsScalar, AsciiByByte, UTF8_ACCEPT
<1>2. Len(string_buffer) + 13 <= BufferSize + Waiting[state]
  BY BufferAssumption, WaitingRange DEF DumpInit, UTF8_ACCEPT
<1>. QED BY <1>1, <1>2, BufferAssumption
        DEF DumpInit, DumpInv, DecodesScalars, UTF8_ACCEPT, UTF8_REJECT

LEMMA DumpByteInv == DumpInv /\ DumpByte => DumpInv'
<1>. SUFFICES ASSUME DumpInv, dumped = "running", NEW b \in TextBytes,
                     text' = Append(text, b), state' = Step(state, Class(b)),
                     codepoint' = Codepoint(b),
                     \/ /\ state' = UTF8_ACCEPT
                        /\ Flush(string_buffer \o Escaped(codepoint', b))
                        /\ most' = Highest(most, Filled(codepoint', b))
                        /\ UNCHANGED dumped
                     \/ /\ state' = UTF8_REJECT
                        /\ dumped' = "thrown" /\ UNCHANGED <<string_buffer, most, output>>
                     \/ /\ state' \notin {UTF8_ACCEPT, UTF8_REJECT}
                        /\ string_buffer' = Append(string_buffer, b)
                        /\ most' = Highest(most, Len(string_buffer) + 1)
                        /\ UNCHANGED <<output, dumped>>
              PROVE  DumpInv'
  BY DEF DumpByte
<1>1. b \in 0 .. 255 /\ Class(b) \in 0 .. 11
  BY TextAssumption, ClassRange
<1>2. state \in 0 .. 8 /\ state # UTF8_REJECT /\ codepoint \in Nat /\ IsPart(state, codepoint)
  BY DEF DumpInv
<1>3. text' \in Seq(0 .. 255) /\ state' \in 0 .. 8
  <2>1. Append(text, b) \in Seq(0 .. 255)
    BY <1>1 DEF DumpInv
  <2>2. Step(state, Class(b)) \in 0 .. 8
    BY <1>1, <1>2, ClassStates
  <2>. QED BY <2>1, <2>2
<1>4. /\ codepoint' \in Nat /\ IsPart(state', codepoint')
      /\ state' = UTF8_ACCEPT /\ b >= 128 => codepoint' >= 128
  <2>1. /\ Codepoint(b) \in Nat /\ IsPart(Step(state, Class(b)), Codepoint(b))
        /\ Step(state, Class(b)) = UTF8_ACCEPT /\ b >= 128 => Codepoint(b) >= 128
    BY <1>1, <1>2, DecodeStep
  <2>. QED BY <2>1
<1>5. DecodesScalars'
  <2>1. Len(text') > 0 /\ text'[Len(text')] = b
    BY <1>1 DEF DumpInv
  <2>2. state' = UTF8_ACCEPT => IsScalar(codepoint')
    BY <1>4 DEF IsPart, UTF8_ACCEPT
  <2>3. state' = UTF8_ACCEPT => AsciiByByte'
    BY <1>4, <2>1 DEF AsciiByByte
  <2>. QED BY <2>2, <2>3 DEF DecodesScalars, IsScalar
<1>6. /\ string_buffer \in Seq(Nat) /\ output \in Seq(Nat) /\ most \in Nat
      /\ most <= BufferSize /\ BufferSize \in Nat
      /\ Len(string_buffer) + 13 <= BufferSize + Waiting[state]
      /\ Waiting[state] \in 0 .. 3
  BY <1>2, BufferAssumption, WaitingRange DEF DumpInv
<1>7. /\ string_buffer' \in Seq(Nat) /\ output' \in Seq(Nat) /\ most' \in Nat
      /\ most' <= BufferSize /\ dumped' \in {"running", "done", "thrown"}
      /\ dumped' = "running" => /\ state' # UTF8_REJECT
                                /\ Len(string_buffer') + 13 <= BufferSize + Waiting[state']
  <2>1. CASE /\ state' = UTF8_ACCEPT
             /\ Flush(string_buffer \o Escaped(codepoint', b))
             /\ most' = Highest(most, Filled(codepoint', b))
             /\ UNCHANGED dumped
    <3>. DEFINE more == Escaped(codepoint', b)
    <3>1. more \in Seq(Nat) /\ Len(more) \in 0 .. 6
      BY <1>1, <1>4, EscapedShort
    <3>. HIDE DEF more
    <3>2. string_buffer \o more \in Seq(Nat)
      BY <1>6, <3>1
    <3>3. string_buffer' \in Seq(Nat) /\ output' \in Seq(Nat) /\ Len(string_buffer') + 13 <= BufferSize
      BY <1>6, <2>1, <3>2, FlushFree DEF more
    <3>4. most' \in Nat /\ most' <= BufferSize
      <4>1. most' = Highest(most, Len(string_buffer) + Len(more) + (IF Len(more) = 6 THEN 1 ELSE 0))
        BY <2>1 DEF Filled, more
      <4>2. Len(string_buffer) \in Nat
        BY <1>6
      <4>. QED BY <1>6, <3>1, <4>1, <4>2, MostFits
    <3>5. Waiting[state'] = 0 /\ state' # UTF8_REJECT
      BY <2>1, WaitingRange DEF UTF8_ACCEPT, UTF8_REJECT
    <3>6. dumped' = "running"
      BY <2>1
    <3>7. Len(string_buffer') + 13 <= BufferSize + Waiting[state']
      BY <1>6, <3>3, <3>5
    <3>. QED BY <3>3, <3>4, <3>5, <3>6, <3>7
  <2>2. CASE state' = UTF8_REJECT /\ dumped' = "thrown" /\ UNCHANGED <<string_buffer, most, output>>
    BY <1>6, <2>2
  <2>3. CASE /\ state' \notin {UTF8_ACCEPT, UTF8_REJECT}
             /\ string_buffer' = Append(string_buffer, b)
             /\ most' = Highest(most, Len(string_buffer) + 1)
             /\ UNCHANGED <<output, dumped>>
    <3>1. Waiting[state] + 1 <= Waiting[state'] /\ Waiting[state'] \in 0 .. 3
      BY <1>1, <1>2, <1>3, <2>3, WaitingStep, WaitingRange
    <3>2. b \in Nat /\ string_buffer' \in Seq(Nat) /\ Len(string_buffer') = Len(string_buffer) + 1
      BY <1>1, <1>6, <2>3
    <3>3. most' \in Nat /\ most' <= BufferSize
      BY <1>6, <2>3 DEF Highest
    <3>4. Len(string_buffer') + 13 <= BufferSize + Waiting[state']
      <4>1. Len(string_buffer) \in Nat
        BY <1>6
      <4>2. Len(string_buffer) + 1 + 13 <= BufferSize + Waiting[state']
        BY <1>6, <3>1, <4>1, OneMoreWaits
      <4>3. Len(string_buffer') = Len(string_buffer) + 1
        BY <3>2
      <4>. QED BY <4>2, <4>3
    <3>5. output' \in Seq(Nat) /\ dumped' = "running" /\ state' # UTF8_REJECT
      BY <1>6, <2>3
    <3>. QED BY <3>2, <3>3, <3>4, <3>5
  <2>. QED BY <2>1, <2>2, <2>3
<1>. QED BY <1>3, <1>4, <1>5, <1>7 DEF DumpInv

LEMMA DumpEndInv == DumpInv /\ DumpEnd => DumpInv'
<1>. SUFFICES ASSUME DumpInv, DumpEnd PROVE DumpInv'
  OBVIOUS
<1>1. UNCHANGED <<text, state, codepoint, string_buffer, most>>
  BY DEF DumpEnd
<1>2. output' \in Seq(Nat) /\ dumped' \in {"done", "thrown"}
  <2>1. output \in Seq(Nat) /\ output \o string_buffer \in Seq(Nat)
    BY DEF DumpInv
  <2>. QED BY <2>1 DEF DumpEnd
<1>3. IsPart(state, codepoint)' /\ DecodesScalars'
  BY <1>1 DEF DumpInv, IsPart, IsScalar, DecodesScalars, AsciiByByte
<1>. QED BY <1>1, <1>2, <1>3 DEF DumpInv

(***************************************************************************)
(* The lexer's position.                                                   *)
(***************************************************************************)
LEMMA LinesFinite ==
  ASSUME NEW S, NEW s \in Seq(S)
  PROVE  LinesIn(s) \in Nat
<1>1. IsFiniteSet(1 .. Len(s))
  BY FS_Interval
<1>2. {i \in DOMAIN s : s[i] = NewLine} \subseteq 1 .. Len(s)
  OBVIOUS
<1>3. IsFiniteSet({i \in DOMAIN s : s[i] = NewLine})
  BY <1>1, <1>2, FS_Subset
<1>. QED BY <1>3, FS_CardinalityType DEF LinesIn

LEMMA LinesAppend ==
  ASSUME NEW S, NEW s \in Seq(S), NEW c \in S
  PROVE  LinesIn(Append(s, c)) = LinesIn(s) + (IF c = NewLine THEN 1 ELSE 0)
<1>. DEFINE t == Append(s, c)
            old == {i \in DOMAIN s : s[i] = NewLine}
            new == {i \in DOMAIN t : t[i] = NewLine}
            n == Len(s) + 1
<1>1. /\ Len(s) \in Nat /\ DOMAIN s = 1 .. Len(s) /\ DOMAIN t = 1 .. n
      /\ t[n] = c /\ \A i \in 1 .. Len(s) : t[i] = s[i]
  OBVIOUS
<1>. HIDE DEF t
<1>2. new = IF c = NewLine THEN old \cup {n} ELSE old
  BY <1>1
<1>3. IsFiniteSet(old) /\ n \notin old
  <2>1. IsFiniteSet(1 .. Len(s)) /\ old \subseteq 1 .. Len(s)
    BY <1>1, FS_Interval
  <2>. QED BY <1>1, <2>1, FS_Subset
<1>4. Cardinality(old \cup {n}) = Cardinality(old) + 1 /\ Cardinality(old) \in Nat
  BY <1>3, FS_AddElement, FS_CardinalityType
<1>5. LinesIn(s) = Cardinality(old) /\ LinesIn(t) = Cardinality(new)
  BY DEF LinesIn
<1>. HIDE DEF old, new
<1>. QED BY <1>2, <1>4, <1>5 DEF t

(* A line begins after the last end of line. *)
LEMMA ColumnAppend ==
  ASSUME NEW S, NEW s \in Seq(S), NEW c \in S
  PROVE  ColumnOf(Append(s, c)) = IF c = NewLine THEN 0 ELSE ColumnOf(s) + 1
<1>. DEFINE t == Append(s, c)
            old == {i \in DOMAIN s : \A j \in i .. Len(s) : s[j] # NewLine}
            new == {i \in DOMAIN t : \A j \in i .. Len(t) : t[j] # NewLine}
            n == Len(s) + 1
<1>1. /\ Len(s) \in Nat /\ DOMAIN s = 1 .. Len(s) /\ DOMAIN t = 1 .. n /\ Len(t) = n
      /\ t[n] = c /\ \A i \in 1 .. Len(s) : t[i] = s[i]
  OBVIOUS
<1>. HIDE DEF t
<1>2. ColumnOf(s) = Cardinality(old) /\ ColumnOf(t) = Cardinality(new)
  BY DEF ColumnOf
<1>3. CASE c = NewLine
  <2>1. \A i \in DOMAIN t : n \in i .. Len(t)
    BY <1>1
  <2>2. new = {}
    BY <1>1, <1>3, <2>1
  <2>. QED BY <1>2, <1>3, <2>2, FS_EmptySet DEF t
<1>4. CASE c # NewLine
  <2>1. new = old \cup {n} /\ n \notin old
    BY <1>1, <1>4
  <2>2. IsFiniteSet(old)
    <3>1. IsFiniteSet(1 .. Len(s)) /\ old \subseteq 1 .. Len(s)
      BY <1>1, FS_Interval
    <3>. QED BY <3>1, FS_Subset
  <2>. HIDE DEF old, new
  <2>3. Cardinality(old \cup {n}) = Cardinality(old) + 1
    BY <2>1, <2>2, FS_AddElement
  <2>. QED BY <1>2, <1>4, <2>1, <2>3 DEF t
<1>. QED BY <1>3, <1>4

(* All that a step of the lexer does to what it has read. *)
LEMMA LexerReads ==
  ASSUME LexerNext
  PROVE  UNCHANGED <<input, current, next_unget, position>> \/ \E c : Get(c) \/ GetUnget(c)
<1>1. CASE Scan
  BY <1>1 DEF Scan
<1>2. CASE skip_bom
  BY <1>2, Zenon DEF skip_bom
<1>3. CASE skip_whitespace \/ Dispatch \/ scan_literal
  BY <1>3, Zenon DEF skip_whitespace, Dispatch, scan_literal
<1>4. CASE scan_number
  BY <1>4, Zenon DEF scan_number
<1>5. CASE scan_string \/ next_byte_in_range \/ Escape \/ EscapeHex \/ EscapeLow
  BY <1>5, Zenon DEF scan_string, next_byte_in_range, Escape, EscapeHex, EscapeLow
<1>. QED BY <1>1, <1>2, <1>3, <1>4, <1>5 DEF LexerNext

LEMMA Reading ==
  ASSUME LexerInv, NEW c, Read(c)
  PROVE  /\ input' \in Seq(Range(input')) /\ input' # <<>> /\ Last(input') = c
         /\ Front(input') = Consumed /\ input' = Append(Consumed, c)
         /\ Consumed \in Seq(Range(input')) /\ c \in Range(input')
<1>1. input \in Seq(Range(input)) /\ Len(input) \in Nat
  BY DEF LexerInv
<1>2. CASE next_unget
  <2>1. input' = input /\ input # <<>> /\ c = input[Len(input)]
    BY <1>2 DEF LexerInv, Read, NextBytes, Last
  <2>2. Consumed = SubSeq(input, 1, Len(input) - 1)
    BY <1>2 DEF Consumed, Front
  <2>3. Consumed \in Seq(Range(input)) /\ input = Append(Consumed, c)
    BY <1>1, <2>1, <2>2
  <2>4. c \in Range(input)
    BY <1>1, <2>1, <2>3 DEF Range
  <2>. QED BY <1>1, <2>1, <2>2, <2>3, <2>4 DEF Last, Front
<1>3. CASE ~next_unget
  <2>1. input' = Append(input, c) /\ Consumed = input
    BY <1>3 DEF Read, Consumed
  <2>2. \A x : x \in Range(input') <=> x \in Range(input) \/ x = c
    BY <1>1, <2>1 DEF Range
  <2>3. input \in Seq(Range(input'))
    BY <1>1, <2>2
  <2>4. input' \in Seq(Range(input')) /\ c \in Range(input')
    BY <2>1, <2>2, <2>3
  <2>. QED BY <1>1, <2>1, <2>3, <2>4 DEF Last, Front
<1>. QED BY <1>2, <1>3

LEMMA GetExact ==
  ASSUME LexerInv, NEW c, Get(c)
  PROVE  LexerInv'
<1>1. /\ Read(c) /\ next_unget' = FALSE /\ position' = After(position, c)
      /\ position \in [chars_read_total : Nat, chars_read_current_line : Nat, lines_read : Nat]
      /\ position.chars_read_total = Len(Consumed) /\ position.lines_read = LinesIn(Consumed)
      /\ position.chars_read_current_line =
           IF next_unget /\ current = NewLine THEN 0 ELSE ColumnOf(Consumed)
  BY DEF LexerInv, PositionExact, Get
<1>2. /\ input' \in Seq(Range(input')) /\ input' = Append(Consumed, c)
      /\ Consumed \in Seq(Range(input')) /\ c \in Range(input')
  BY <1>1, Reading
<1>3. Consumed' = input'
  BY <1>1 DEF Consumed
<1>4. Len(Consumed') = Len(Consumed) + 1 /\ Len(Consumed) \in Nat
  BY <1>2, <1>3
<1>5. LinesIn(Consumed') = LinesIn(Consumed) + (IF c = NewLine THEN 1 ELSE 0)
  BY <1>2, <1>3, LinesAppend
<1>6. position'.chars_read_current_line = ColumnOf(Consumed')
  <2>1. ColumnOf(Consumed') = IF c = NewLine THEN 0 ELSE ColumnOf(Consumed) + 1
    BY <1>2, <1>3, ColumnAppend
  <2>2. next_unget /\ current = NewLine => c = NewLine
    BY <1>1 DEF LexerInv, Read, NextBytes
  <2>3. position'.chars_read_current_line =
          IF c = NewLine THEN 0 ELSE position.chars_read_current_line + 1
    BY <1>1 DEF After
  <2>. QED BY <1>1, <2>1, <2>2, <2>3
<1>7. PositionExact'
  BY <1>1, <1>4, <1>5, <1>6 DEF PositionExact, After
<1>8. position' \in [chars_read_total : Nat, chars_read_current_line : Nat, lines_read : Nat]
  BY <1>1 DEF After
<1>. QED BY <1>1, <1>2, <1>7, <1>8 DEF LexerInv

(* What unget takes back is what get has just counted, but for the column  *)
(* in front of an end of line.                                             *)
LEMMA BeforeAfter ==
  ASSUME NEW c,
         NEW p \in [chars_read_total : Nat, chars_read_current_line : Nat, lines_read : Nat]
  PROVE  /\ Before(After(p, c)).chars_read_total = p.chars_read_total
         /\ Before(After(p, c)).lines_read = p.lines_read
         /\ Before(After(p, c)).chars_read_current_line =
              IF c = NewLine THEN 0 ELSE p.chars_read_current_line
         /\ Before(After(p, c))
              \in [chars_read_total : Nat, chars_read_current_line : Nat, lines_read : Nat]
BY DEF Before, After

LEMMA GetUngetExact ==
  ASSUME LexerInv, NEW c, GetUnget(c)
  PROVE  LexerInv'
<1>1. /\ Read(c) /\ next_unget' = TRUE /\ position' = Before(After(position, c))
      /\ position \in [chars_read_total : Nat, chars_read_current_line : Nat, lines_read : Nat]
      /\ position.chars_read_total = Len(Consumed) /\ position.lines_read = LinesIn(Consumed)
      /\ position.chars_read_current_line =
           IF next_unget /\ current = NewLine THEN 0 ELSE ColumnOf(Consumed)
  BY DEF LexerInv, PositionExact, GetUnget
<1>2. /\ input' \in Seq(Range(input')) /\ input' # <<>> /\ Last(input') = c
      /\ Front(input') = Consumed
  BY <1>1, Reading
<1>3. Consumed' = Consumed /\ current' = c
  BY <1>1, <1>2 DEF Consumed, Read
<1>4. /\ position'.chars_read_total = position.chars_read_total
      /\ position'.lines_read = position.lines_read
      /\ position'.chars_read_current_line =
           IF c = NewLine THEN 0 ELSE position.chars_read_current_line
      /\ position' \in [chars_read_total : Nat, chars_read_current_line : Nat, lines_read : Nat]
  BY <1>1, BeforeAfter
<1>5. next_unget /\ current = NewLine => c = NewLine
  BY <1>1 DEF LexerInv, Read, NextBytes
<1>6. PositionExact'
  BY <1>1, <1>3, <1>4, <1>5 DEF PositionExact
<1>. QED BY <1>1, <1>2, <1>3, <1>4, <1>6 DEF LexerInv

LEMMA LexerStart == ASSUME LexerInit PROVE LexerInv
<1>1. input = <<>> /\ next_unget = FALSE /\ Consumed = <<>>
  BY DEF LexerInit, Consumed
<1>2. position = [chars_read_total |-> 0, chars_read_current_line |-> 0, lines_read |-> 0]
  BY DEF LexerInit
<1>3. LinesIn(<<>>) = 0 /\ ColumnOf(<<>>) = 0
  BY FS_EmptySet DEF LinesIn, ColumnOf
<1>4. <<>> \in Seq(Range(<<>>)) /\ Len(<<>>) = 0
  OBVIOUS
<1>. QED BY <1>1, <1>2, <1>3, <1>4 DEF LexerInv, PositionExact

(***************************************************************************)
(* Texts that come from outside, or from dump().                           *)
(***************************************************************************)
LEMMA NoDump == ASSUME NoString PROVE DumpInv
<1>1. IsPart(state, codepoint) /\ IsScalar(codepoint) /\ AsciiByByte
  BY DEF NoString, IsPart, IsScalar, AsciiByByte, UTF8_ACCEPT
<1>. QED BY <1>1, BufferAssumption DEF NoString, DumpInv, DecodesScalars, UTF8_ACCEPT

LEMMA DumpStep ==
  ASSUME DumpInv, [DumpNext]_dumpVars
  PROVE  DumpInv'
<1>1. CASE DumpNext
  BY <1>1, DumpByteInv, DumpEndInv DEF DumpNext
<1>2. CASE UNCHANGED dumpVars
  BY <1>2 DEF dumpVars, DumpInv, IsPart, IsScalar, DecodesScalars, AsciiByByte
<1>. QED BY <1>1, <1>2

LEMMA LexerStep ==
  ASSUME LexerInv, LexerNext \/ UNCHANGED <<input, current, next_unget, position>>
  PROVE  LexerInv'
<1>1. CASE UNCHANGED <<input, current, next_unget, position>>
  BY <1>1 DEF LexerInv, PositionExact, Consumed
<1>2. CASE \E c : Get(c) \/ GetUnget(c)
  BY <1>2, GetExact, GetUngetExact
<1>. QED BY <1>1, <1>2, LexerReads

(* dump_escaped: what its states say of the bytes that wait in the buffer  *)
(* and of the part of a code point that has been read.                     *)
THEOREM DumpInvariant == DumpSpec => []DumpInv
<1>1. DumpInit => DumpInv
  BY DumpInitInv
<1>2. DumpInv /\ [DumpNext]_dumpVars => DumpInv'
  BY DumpStep
<1>. QED BY <1>1, <1>2, PTL DEF DumpSpec

(* What is written and what is read keep to themselves: for every source   *)
(* of texts, the invariants of both hold at every step.                    *)
THEOREM TextInvariant == TextSpec => []TextInv
<1>1. TextInit => TextInv
  BY LexerStart, NoDump, DumpInitInv DEF TextInit, TextInv
<1>2. TextInv /\ [TextNext]_textVars => TextInv'
  <2>. SUFFICES ASSUME TextInv, [TextNext]_textVars PROVE TextInv'
    OBVIOUS
  <2>1. [DumpNext]_dumpVars
    BY DEF TextNext, DumpString, DumpNumber, ReadText, textVars
  <2>2. LexerNext \/ UNCHANGED <<input, current, next_unget, position>>
    BY DEF TextNext, DumpString, DumpNumber, ReadText, textVars, vars
  <2>. QED BY <2>1, <2>2, DumpStep, LexerStep DEF TextInv
<1>. QED BY <1>1, <1>2, PTL DEF TextSpec

(* json.hpp:3035: the position that the parser's messages give, by line    *)
(* and column, is that of the byte read last, for every text, wherever     *)
(* bytes were ungot; in front of an end of line that was put back, and     *)
(* nowhere else, the column is 0.                                          *)
THEOREM PositionsAreExact == TextSpec => []PositionExact
<1>1. TextInv => PositionExact
  BY DEF TextInv, LexerInv
<1>. QED BY <1>1, TextInvariant, PTL

(* json.hpp:18477: the thirteen bytes kept free suffice for whatever is    *)
(* written next, for every text and every size of the buffer.              *)
THEOREM BufferNeverOverrun == TextSpec => []BufferFits
<1>1. TextInv => BufferFits
  BY DEF TextInv, DumpInv, BufferFits
<1>. QED BY <1>1, TextInvariant, PTL

(* json.hpp:18900: a code point is a scalar value whenever decode accepts. *)
THEOREM DecodesOnlyScalars == TextSpec => []DecodesScalars
<1>1. TextInv => DecodesScalars
  BY DEF TextInv, DumpInv
<1>. QED BY <1>1, TextInvariant, PTL

Bytes == 0 .. 255

(***************************************************************************)
(* The characters of UTF-8 by their bytes (RFC 3629, section 4).           *)
(***************************************************************************)
SecondOk(a, b) ==
  /\ b \in 128 .. 191
  /\ a = 224 => b >= 160
  /\ a = 237 => b <= 159
  /\ a = 240 => b >= 144
  /\ a = 244 => b <= 143

Width(a) == IF a < 128 THEN 1 ELSE IF a < 224 THEN 2 ELSE IF a < 240 THEN 3 ELSE 4

FirstOk(a) == a < 128 \/ a \in 194 .. 244

LaterOk(b) == b \in 128 .. 191

WellFormed(w) ==
  /\ w # <<>> /\ Len(w) = Width(w[1]) /\ FirstOk(w[1])
  /\ Len(w) >= 2 => SecondOk(w[1], w[2])
  /\ Len(w) >= 3 => LaterOk(w[3])
  /\ Len(w) = 4 => LaterOk(w[4])

LEMMA CharacterByBytes ==
  ASSUME NEW w \in Seq(Bytes), Len(w) \in 1 .. 4
  PROVE  IsUtf8(w) <=> WellFormed(w)
<1>1. \A i \in 1 .. Len(w) : w[i] \in 0 .. 255
  BY ElementOfSeq DEF Bytes
<1>2. w # <<>>
  OBVIOUS
<1>3. CASE Len(w) = 1
  <2>1. w[1] \in 0 .. 255
    BY <1>1, <1>3
  <2>2. PICK a \in 0 .. 255 : w[1] = a
    BY <2>1
  <2>3. Carried(w) = IF a < 128
                     THEN a ELSE -1
    <3>1. Carried(w) = IF w[1] < 128
                       THEN w[1] ELSE -1
      BY <1>3, <2>1, SMT DEF Carried
    <3>. QED BY <2>2, <3>1, SMT
  <2>4. Shortest(w) = 0
    BY <1>3, SMT DEF Shortest
  <2>5. IsUtf8(w) <=> IsScalar(Carried(w)) /\ Carried(w) >= 0
    BY <1>2, <2>4, SMT DEF IsUtf8
  <2>6. WellFormed(w) <=> a < 128
    BY <1>2, <1>3, <2>2, SMT DEF WellFormed, Width, FirstOk, LaterOk
  <2>. QED BY <2>3, <2>5, <2>6, SMT DEF IsScalar
<1>4. CASE Len(w) = 2
  <2>1. w[1] \in 0 .. 255 /\ w[2] \in 0 .. 255
    BY <1>1, <1>4
  <2>2. PICK a \in 0 .. 255, b \in 0 .. 255 : w[1] = a /\ w[2] = b
    BY <2>1
  <2>3. Carried(w) = IF b \in 128 .. 191 /\ a \in 192 .. 223
                     THEN (a - 192) * 64 + (b - 128) ELSE -1
    <3>1. Carried(w) = IF w[2] \in 128 .. 191 /\ w[1] \in 192 .. 223
                       THEN (w[1] - 192) * 64 + (w[2] - 128) ELSE -1
      BY <1>4, <2>1, SMT DEF Carried
    <3>. QED BY <2>2, <3>1, SMT
  <2>4. Shortest(w) = 128
    BY <1>4, SMT DEF Shortest
  <2>5. IsUtf8(w) <=> IsScalar(Carried(w)) /\ Carried(w) >= 128
    BY <1>2, <2>4, SMT DEF IsUtf8
  <2>6. WellFormed(w) <=> a \in 194 .. 223 /\ SecondOk(a, b)
    BY <1>2, <1>4, <2>2, SMT DEF WellFormed, Width, FirstOk, LaterOk, SecondOk
  <2>. QED BY <2>3, <2>5, <2>6, SMT DEF IsScalar, SecondOk
<1>5. CASE Len(w) = 3
  <2>1. w[1] \in 0 .. 255 /\ w[2] \in 0 .. 255 /\ w[3] \in 0 .. 255
    BY <1>1, <1>5
  <2>2. PICK a \in 0 .. 255, b \in 0 .. 255, c \in 0 .. 255 : w[1] = a /\ w[2] = b /\ w[3] = c
    BY <2>1
  <2>3. Carried(w) = IF b \in 128 .. 191 /\ c \in 128 .. 191 /\ a \in 224 .. 239
                     THEN (a - 224) * 4096 + (b - 128) * 64 + (c - 128) ELSE -1
    <3>1. Carried(w) = IF w[2] \in 128 .. 191 /\ w[3] \in 128 .. 191 /\ w[1] \in 224 .. 239
                       THEN (w[1] - 224) * 4096 + (w[2] - 128) * 64 + (w[3] - 128) ELSE -1
      BY <1>5, <2>1, SMT DEF Carried
    <3>. QED BY <2>2, <3>1, SMT
  <2>4. Shortest(w) = 2048
    BY <1>5, SMT DEF Shortest
  <2>5. IsUtf8(w) <=> IsScalar(Carried(w)) /\ Carried(w) >= 2048
    BY <1>2, <2>4, SMT DEF IsUtf8
  <2>7. WellFormed(w) <=> a \in 224 .. 239 /\ SecondOk(a, b) /\ c \in 128 .. 191
    BY <1>2, <1>5, <2>2, SMT DEF WellFormed, Width, FirstOk, LaterOk, SecondOk
  <2>8. CASE a = 224
    BY <2>3, <2>5, <2>7, <2>8, SMT DEF IsScalar, SecondOk
  <2>9. CASE a = 237
    BY <2>3, <2>5, <2>7, <2>9, SMT DEF IsScalar, SecondOk
  <2>10. CASE a \in 225 .. 236 \/ a \in 238 .. 239
    BY <2>3, <2>5, <2>7, <2>10, SMT DEF IsScalar, SecondOk
  <2>11. CASE a < 224 \/ a > 239
    BY <2>3, <2>5, <2>7, <2>11, SMT DEF IsScalar, SecondOk
  <2>. QED BY <2>8, <2>9, <2>10, <2>11
<1>6. CASE Len(w) = 4
  <2>1. w[1] \in 0 .. 255 /\ w[2] \in 0 .. 255 /\ w[3] \in 0 .. 255 /\ w[4] \in 0 .. 255
    BY <1>1, <1>6
  <2>2. PICK a \in 0 .. 255, b \in 0 .. 255, c \in 0 .. 255, d \in 0 .. 255 : w[1] = a /\ w[2] = b /\ w[3] = c /\ w[4] = d
    BY <2>1
  <2>3. Carried(w) = IF b \in 128 .. 191 /\ c \in 128 .. 191 /\ d \in 128 .. 191 /\ a \in 240 .. 247
                     THEN (a - 240) * 262144 + (b - 128) * 4096 + (c - 128) * 64 + (d - 128) ELSE -1
    <3>1. Carried(w) = IF w[2] \in 128 .. 191 /\ w[3] \in 128 .. 191 /\ w[4] \in 128 .. 191 /\ w[1] \in 240 .. 247
                       THEN (w[1] - 240) * 262144 + (w[2] - 128) * 4096 + (w[3] - 128) * 64 + (w[4] - 128) ELSE -1
      BY <1>6, <2>1, SMT DEF Carried
    <3>. QED BY <2>2, <3>1, SMT
  <2>4. Shortest(w) = 65536
    BY <1>6, SMT DEF Shortest
  <2>5. IsUtf8(w) <=> IsScalar(Carried(w)) /\ Carried(w) >= 65536
    BY <1>2, <2>4, SMT DEF IsUtf8
  <2>7. WellFormed(w) <=> a \in 240 .. 244 /\ SecondOk(a, b) /\ c \in 128 .. 191 /\ d \in 128 .. 191
    BY <1>2, <1>6, <2>2, SMT DEF WellFormed, Width, FirstOk, LaterOk, SecondOk
  <2>8. CASE a = 240
    BY <2>3, <2>5, <2>7, <2>8, SMT DEF IsScalar, SecondOk
  <2>9. CASE a \in 241 .. 243
    BY <2>3, <2>5, <2>7, <2>9, SMT DEF IsScalar, SecondOk
  <2>10. CASE a = 244
    BY <2>3, <2>5, <2>7, <2>10, SMT DEF IsScalar, SecondOk
  <2>11. CASE a < 240 \/ a > 244
    BY <2>3, <2>5, <2>7, <2>11, SMT DEF IsScalar, SecondOk
  <2>. QED BY <2>8, <2>9, <2>10, <2>11
<1>. QED BY <1>3, <1>4, <1>5, <1>6

(***************************************************************************)
(* A character of a text, by its place: n bytes after the first k.         *)
(***************************************************************************)
CharacterAt(s, k, n) ==
  /\ n = Width(s[k + 1]) /\ FirstOk(s[k + 1])
  /\ n >= 2 => SecondOk(s[k + 1], s[k + 2])
  /\ n >= 3 => LaterOk(s[k + 3])
  /\ n = 4 => LaterOk(s[k + 4])

LEMMA PieceBytes ==
  ASSUME NEW s \in Seq(Bytes), NEW k \in Nat, NEW n \in 1 .. 4, k + n <= Len(s)
  PROVE  /\ SubSeq(s, k + 1, k + n) \in Seq(Bytes) /\ Len(SubSeq(s, k + 1, k + n)) = n
         /\ \A i \in 1 .. n : SubSeq(s, k + 1, k + n)[i] = s[k + i]
<1>1. \A i \in k + 1 .. k + n : s[i] \in Bytes
  BY ElementOfSeq
<1>2. k + 1 \in Int /\ k + n \in Int /\ k + 1 <= k + n
  OBVIOUS
<1>3. /\ SubSeq(s, k + 1, k + n) \in Seq(Bytes)
      /\ Len(SubSeq(s, k + 1, k + n)) = IF k + 1 <= k + n THEN k + n - (k + 1) + 1 ELSE 0
      /\ \A i \in 1 .. (k + n) - (k + 1) + 1 : SubSeq(s, k + 1, k + n)[i] = s[k + 1 + i - 1]
  <2>. DEFINE a == k + 1  z == k + n
  <2>1. a \in Int /\ z \in Int /\ \A i \in a .. z : s[i] \in Bytes
    BY <1>1, <1>2
  <2>. HIDE DEF a, z
  <2>2. /\ SubSeq(s, a, z) \in Seq(Bytes)
        /\ Len(SubSeq(s, a, z)) = IF a <= z THEN z - a + 1 ELSE 0
        /\ \A i \in 1 .. z - a + 1 : SubSeq(s, a, z)[i] = s[a + i - 1]
    BY <2>1, SubSeqProperties
  <2>. QED BY <2>2 DEF a, z
<1>. DEFINE w == SubSeq(s, k + 1, k + n)
<1>. HIDE DEF w
<1>4. w \in Seq(Bytes)
  BY <1>3 DEF w
<1>5. Len(w) = IF k + 1 <= k + n THEN k + n - (k + 1) + 1 ELSE 0
  BY <1>3 DEF w
<1>6. Len(w) = n
  BY <1>2, <1>5
<1>7. \A i \in 1 .. (k + n) - (k + 1) + 1 : w[i] = s[k + 1 + i - 1]
  BY <1>3 DEF w
<1>8. ASSUME NEW i \in 1 .. n
      PROVE  w[i] = s[k + i]
  <2>1. i \in 1 .. (k + n) - (k + 1) + 1 /\ k + 1 + i - 1 = k + i
    OBVIOUS
  <2>. QED BY <1>7, <2>1
<1>. QED BY <1>4, <1>6, <1>8 DEF w

LEMMA CharacterByPlace ==
  ASSUME NEW s \in Seq(Bytes), NEW k \in Nat, NEW n \in 1 .. 4, k + n <= Len(s)
  PROVE  IsUtf8(SubSeq(s, k + 1, k + n)) <=> CharacterAt(s, k, n)
<1>. DEFINE w == SubSeq(s, k + 1, k + n)
<1>1. w \in Seq(Bytes) /\ Len(w) = n /\ \A i \in 1 .. n : w[i] = s[k + i]
  BY PieceBytes
<1>. HIDE DEF w
<1>2. IsUtf8(w) <=> WellFormed(w)
  BY <1>1, CharacterByBytes
<1>3. w # <<>> /\ w[1] = s[k + 1] /\ (n >= 2 => w[2] = s[k + 2])
      /\ (n >= 3 => w[3] = s[k + 3]) /\ (n = 4 => w[4] = s[k + 4])
  BY <1>1
<1>4. WellFormed(w) <=> CharacterAt(s, k, n)
  <2>1. CASE n = 1
    BY <1>1, <1>3, <2>1, SMT DEF WellFormed, CharacterAt
  <2>2. CASE n = 2
    BY <1>1, <1>3, <2>2, SMT DEF WellFormed, CharacterAt
  <2>3. CASE n = 3
    BY <1>1, <1>3, <2>3, SMT DEF WellFormed, CharacterAt
  <2>4. CASE n = 4
    BY <1>1, <1>3, <2>4, SMT DEF WellFormed, CharacterAt
  <2>. QED BY <2>1, <2>2, <2>3, <2>4
<1>. QED BY <1>2, <1>4 DEF w

Extends(t, s) == Len(t) >= Len(s) /\ \A i \in 1 .. Len(s) : t[i] = s[i]

LEMMA SameCharacter ==
  ASSUME NEW s \in Seq(Bytes), NEW t \in Seq(Bytes), Extends(t, s),
         NEW k \in Nat, NEW n \in 1 .. 4, k + n <= Len(s)
  PROVE  CharacterAt(s, k, n) <=> CharacterAt(t, k, n)
<1>1. \A i \in 1 .. n : k + i \in 1 .. Len(s)
  OBVIOUS
<1>2. \A i \in 1 .. n : t[k + i] = s[k + i]
  BY <1>1 DEF Extends
<1>3. t[k + 1] = s[k + 1] /\ (n >= 2 => t[k + 2] = s[k + 2])
      /\ (n >= 3 => t[k + 3] = s[k + 3]) /\ (n = 4 => t[k + 4] = s[k + 4])
  BY <1>2
<1>. QED BY <1>3, Zenon DEF CharacterAt

(***************************************************************************)
(* A text that is UTF-8 up to k: pieces that are characters lead there.    *)
(***************************************************************************)
ReadTo(s, k) ==
  \E cuts \in SUBSET (0 .. k) :
    /\ 0 \in cuts
    /\ \A i \in cuts \ {k} : \E n \in 1 .. 4 : i + n \in cuts /\ CharacterAt(s, i, n)

(* And k is a place that no way of cutting it, or a longer text, may miss. *)
Unavoidable(s, k) ==
  \A t \in Seq(Bytes) : Extends(t, s) => \A cuts \in Cuts(t) : k \in cuts

LEMMA WholeText ==
  ASSUME NEW s \in Seq(Bytes), ReadTo(s, Len(s))
  PROVE  IsUtf8Text(s)
<1>1. PICK cuts \in SUBSET (0 .. Len(s)) :
        /\ 0 \in cuts
        /\ \A i \in cuts \ {Len(s)} : \E n \in 1 .. 4 : i + n \in cuts /\ CharacterAt(s, i, n)
  BY DEF ReadTo
<1>2. ASSUME NEW i \in cuts \ {Len(s)}
      PROVE  \E n \in 1 .. 4 : i + n \in cuts /\ IsUtf8(SubSeq(s, i + 1, i + n))
  <2>1. PICK n \in 1 .. 4 : i + n \in cuts /\ CharacterAt(s, i, n)
    BY <1>1
  <2>2. Len(s) \in Nat /\ i \in Nat /\ i + n <= Len(s)
    BY <1>1, <2>1, LenProperties
  <2>. QED BY <2>1, <2>2, CharacterByPlace
<1>3. cuts \in Cuts(s)
  BY <1>1, <1>2 DEF Cuts
<1>. QED BY <1>3 DEF IsUtf8Text

LEMMA OneMore ==
  ASSUME NEW s \in Seq(Bytes), NEW t \in Seq(Bytes), Extends(t, s),
         NEW k \in 0 .. Len(s), ReadTo(s, k),
         NEW n \in 1 .. 4, k + n = Len(t), CharacterAt(t, k, n)
  PROVE  ReadTo(t, Len(t))
<1>1. PICK cuts \in SUBSET (0 .. k) :
        /\ 0 \in cuts
        /\ \A i \in cuts \ {k} : \E m \in 1 .. 4 : i + m \in cuts /\ CharacterAt(s, i, m)
  BY DEF ReadTo
<1>. DEFINE more == cuts \cup {k + n}
<1>2. Len(s) \in Nat /\ Len(t) \in Nat
  BY LenProperties
<1>3. more \in SUBSET (0 .. Len(t)) /\ 0 \in more
  BY <1>1, <1>2
<1>4. ASSUME NEW i \in more \ {Len(t)}
      PROVE  \E m \in 1 .. 4 : i + m \in more /\ CharacterAt(t, i, m)
  <2>1. CASE i = k
    BY <2>1
  <2>2. CASE i # k
    <3>1. i \in cuts \ {k}
      BY <2>2
    <3>2. PICK m \in 1 .. 4 : i + m \in cuts /\ CharacterAt(s, i, m)
      BY <1>1, <3>1
    <3>3. i \in Nat /\ i + m <= Len(s)
      BY <1>1, <1>2, <3>1, <3>2
    <3>4. CharacterAt(t, i, m)
      BY <3>2, <3>3, SameCharacter
    <3>. QED BY <3>2, <3>4
  <2>. QED BY <2>1, <2>2
<1>. QED BY <1>3, <1>4 DEF ReadTo

(* From a cut, a text goes on with a character, whose width its first byte *)
(* gives: so there is only one next cut.                                   *)
LEMMA NextCut ==
  ASSUME NEW s \in Seq(Bytes), NEW cuts \in Cuts(s), NEW k \in cuts, k # Len(s)
  PROVE  /\ k \in Nat /\ Len(s) \in Nat
         /\ \E n \in 1 .. 4 : k + n \in cuts /\ k + n <= Len(s) /\ CharacterAt(s, k, n)
<1>1. cuts \in SUBSET (0 .. Len(s)) /\ Len(s) \in Nat
  BY LenProperties DEF Cuts
<1>2. PICK n \in 1 .. 4 : k + n \in cuts /\ IsUtf8(SubSeq(s, k + 1, k + n))
  BY DEF Cuts
<1>3. k \in Nat /\ k + n <= Len(s)
  BY <1>1, <1>2
<1>. QED BY <1>1, <1>2, <1>3, CharacterByPlace

LEMMA NextUnavoidable ==
  ASSUME NEW s \in Seq(Bytes), NEW t \in Seq(Bytes), Extends(t, s),
         NEW k \in 0 .. Len(s), Unavoidable(s, k),
         NEW n \in 1 .. 4, k + n = Len(t), CharacterAt(t, k, n)
  PROVE  Unavoidable(t, Len(t))
<1>. SUFFICES ASSUME NEW u \in Seq(Bytes), Extends(u, t), NEW cuts \in Cuts(u)
              PROVE  Len(t) \in cuts
  BY DEF Unavoidable
<1>1. Len(s) \in Nat /\ Len(t) \in Nat /\ Len(u) \in Nat
  BY LenProperties
<1>2. Extends(u, s)
  BY <1>1 DEF Extends
<1>3. k \in cuts /\ k # Len(u)
  BY <1>1, <1>2 DEF Unavoidable, Extends
<1>4. PICK m \in 1 .. 4 : k + m \in cuts /\ CharacterAt(u, k, m)
  BY <1>3, NextCut
<1>5. CharacterAt(u, k, n)
  BY <1>1, SameCharacter
<1>6. m = n
  BY <1>4, <1>5 DEF CharacterAt
<1>. QED BY <1>4, <1>6

(***************************************************************************)
(* decode against this.  The state that a first byte leads to, and what    *)
(* each later state asks for.                                              *)
(***************************************************************************)
First(a) ==
  IF a < 128 THEN 0 ELSE IF a < 224 THEN 2 ELSE IF a = 224 THEN 4 ELSE IF a = 237 THEN 5
  ELSE IF a < 240 THEN 3 ELSE IF a = 240 THEN 6 ELSE IF a = 244 THEN 8 ELSE 7

Missing(st) == IF st = 2 THEN 1 ELSE IF st \in {3, 4, 5} THEN 2 ELSE 3

(* After k, the text ends with the beginning of a character. *)
PartialAt(st, s, k) ==
  IF st = 0 THEN k = Len(s)
  ELSE /\ k < Len(s) /\ FirstOk(s[k + 1])
       /\ Len(s) - k = Width(s[k + 1]) - Missing(st)
       /\ IF Len(s) = k + 1 THEN st = First(s[k + 1]) ELSE st \in {2, 3}
       /\ Len(s) > k + 1 => SecondOk(s[k + 1], s[k + 2])
       /\ Len(s) > k + 2 => LaterOk(s[k + 3])

LEMMA FirstStep ==
  ASSUME NEW b \in 0 .. 255
  PROVE  Step(0, Class(b)) = IF FirstOk(b) THEN First(b) ELSE 1
<1>1. CASE b < 128
  <2>1. Class(b) = 0
    BY <1>1 DEF Class
  <2>2. Step(0, 0) = 0
    BY DEF Step
  <2>. QED BY <1>1, <2>1, <2>2 DEF FirstOk, First
<1>2. CASE b \in 194 .. 223
  <2>1. Class(b) = 2
    BY <1>2 DEF Class
  <2>2. Step(0, 2) = 2
    BY DEF Step
  <2>. QED BY <1>2, <2>1, <2>2 DEF FirstOk, First
<1>3. CASE b = 224
  <2>1. Class(b) = 10
    BY <1>3 DEF Class
  <2>2. Step(0, 10) = 4
    BY DEF Step
  <2>. QED BY <1>3, <2>1, <2>2 DEF FirstOk, First
<1>4. CASE b = 237
  <2>1. Class(b) = 4
    BY <1>4 DEF Class
  <2>2. Step(0, 4) = 5
    BY DEF Step
  <2>. QED BY <1>4, <2>1, <2>2 DEF FirstOk, First
<1>5. CASE b \in 225 .. 236 \/ b \in {238, 239}
  <2>1. Class(b) = 3
    BY <1>5 DEF Class
  <2>2. Step(0, 3) = 3
    BY DEF Step
  <2>. QED BY <1>5, <2>1, <2>2 DEF FirstOk, First
<1>6. CASE b = 240
  <2>1. Class(b) = 11
    BY <1>6 DEF Class
  <2>2. Step(0, 11) = 6
    BY DEF Step
  <2>. QED BY <1>6, <2>1, <2>2 DEF FirstOk, First
<1>7. CASE b = 244
  <2>1. Class(b) = 5
    BY <1>7 DEF Class
  <2>2. Step(0, 5) = 8
    BY DEF Step
  <2>. QED BY <1>7, <2>1, <2>2 DEF FirstOk, First
<1>8. CASE b \in 241 .. 243
  <2>1. Class(b) = 6
    BY <1>8 DEF Class
  <2>2. Step(0, 6) = 7
    BY DEF Step
  <2>. QED BY <1>8, <2>1, <2>2 DEF FirstOk, First
<1>9. CASE b \in 128 .. 193 \/ b > 244
  <2>1. Class(b) \in {1, 7, 8, 9}
    BY <1>9 DEF Class
  <2>2. Step(0, Class(b)) = 1
    BY <2>1 DEF Step, UTF8_REJECT
  <2>. QED BY <1>9, <2>2 DEF FirstOk
<1>. QED BY <1>1, <1>2, <1>3, <1>4, <1>5, <1>6, <1>7, <1>8, <1>9

AfterSecond(a, b) ==
  IF ~SecondOk(a, b) THEN 1 ELSE IF a < 224 THEN 0 ELSE IF a < 240 THEN 2 ELSE 3

LEMMA SecondStep ==
  ASSUME NEW a \in 194 .. 244, NEW b \in 0 .. 255
  PROVE  Step(First(a), Class(b)) = AfterSecond(a, b)
<1>. USE DEF AfterSecond
<1>1. First(a) \in {2, 3, 4, 5, 6, 7, 8}
  BY DEF First
<1>2. Class(b) = 1 <=> b \in 128 .. 143
  BY DEF Class
<1>3. Class(b) = 9 <=> b \in 144 .. 159
  BY DEF Class
<1>4. Class(b) = 7 <=> b \in 160 .. 191
  BY DEF Class
<1>5. CASE a < 224
  BY <1>2, <1>3, <1>4, <1>5 DEF First, Step, SecondOk, UTF8_REJECT
<1>6. CASE a = 224
  BY <1>2, <1>3, <1>4, <1>6 DEF First, Step, SecondOk, UTF8_REJECT
<1>7. CASE a = 237
  BY <1>2, <1>3, <1>4, <1>7 DEF First, Step, SecondOk, UTF8_REJECT
<1>8. CASE a \in 225 .. 236 \/ a \in {238, 239}
  BY <1>2, <1>3, <1>4, <1>8 DEF First, Step, SecondOk, UTF8_REJECT
<1>9. CASE a = 240
  BY <1>2, <1>3, <1>4, <1>9 DEF First, Step, SecondOk, UTF8_REJECT
<1>10. CASE a \in 241 .. 243
  BY <1>2, <1>3, <1>4, <1>10 DEF First, Step, SecondOk, UTF8_REJECT
<1>11. CASE a = 244
  BY <1>2, <1>3, <1>4, <1>11 DEF First, Step, SecondOk, UTF8_REJECT
<1>. QED BY <1>5, <1>6, <1>7, <1>8, <1>9, <1>10, <1>11

LEMMA LaterStep ==
  ASSUME NEW b \in 0 .. 255
  PROVE  /\ Step(2, Class(b)) = IF LaterOk(b) THEN 0 ELSE 1
         /\ Step(3, Class(b)) = IF LaterOk(b) THEN 2 ELSE 1
<1>1. Class(b) \in {1, 7, 9} <=> b \in 128 .. 191
  BY DEF Class
<1>. QED BY <1>1 DEF Step, LaterOk, UTF8_REJECT

Decodes(s, k, st, b, t, n, next) ==
  /\ s \in Seq(Bytes) /\ k \in 0 .. Len(s) /\ st \in 0 .. 8 /\ st # 1
  /\ PartialAt(st, s, k) /\ b \in 0 .. 255
  /\ t = Append(s, b) /\ n = Len(t) - k /\ next = Step(st, Class(b))

(* After k, the n-th byte is one that no character has there. *)
Misplaced(t, k, n) ==
  \/ n = 1 /\ ~FirstOk(t[k + 1])
  \/ n = 2 /\ Width(t[k + 1]) >= 2 /\ ~SecondOk(t[k + 1], t[k + 2])
  \/ n = 3 /\ Width(t[k + 1]) >= 3 /\ ~LaterOk(t[k + 3])
  \/ n = 4 /\ Width(t[k + 1]) >= 4 /\ ~LaterOk(t[k + 4])

LEMMA DecodeCharacter ==
  ASSUME NEW s, NEW k, NEW st, NEW b, NEW t, NEW n, NEW next, Decodes(s, k, st, b, t, n, next)
  PROVE  /\ n \in 1 .. 4
         /\ next = 0 => CharacterAt(t, k, n)
         /\ next = 1 => Misplaced(t, k, n)
         /\ next \notin {0, 1} => PartialAt(next, t, k)
<1>. /\ s \in Seq(Bytes) /\ k \in 0 .. Len(s) /\ st \in 0 .. 8 /\ st # 1
     /\ PartialAt(st, s, k) /\ b \in 0 .. 255
     /\ t = Append(s, b) /\ n = Len(t) - k /\ next = Step(st, Class(b))
  BY DEF Decodes
<1>1. /\ t \in Seq(Bytes) /\ Len(s) \in Nat /\ Len(t) = Len(s) + 1
      /\ t[Len(s) + 1] = b /\ \A i \in 1 .. Len(s) : t[i] = s[i]
  BY AppendProperties, LenProperties DEF Bytes
<1>2. n = Len(s) - k + 1 /\ n \in Nat
  BY <1>1
<1>3. CASE st = 0
  <2>1. n = 1 /\ t[k + 1] = b /\ k + 1 = Len(t)
    BY <1>1, <1>2, <1>3 DEF PartialAt
  <2>2. next = IF FirstOk(b) THEN First(b) ELSE 1
    BY <1>3, FirstStep
  <2>3. CASE b < 128
    <3>1. next = 0 /\ FirstOk(b) /\ Width(b) = 1
      BY <2>2, <2>3 DEF FirstOk, First, Width
    <3>. QED BY <2>1, <3>1 DEF CharacterAt
  <2>4. CASE b \in 194 .. 244
    <3>1. next = First(b) /\ FirstOk(b) /\ next \in {2, 3, 4, 5, 6, 7, 8}
      BY <2>2, <2>4 DEF FirstOk, First
    <3>2. Width(b) - Missing(First(b)) = 1
      BY <2>4 DEF Width, Missing, First
    <3>3. k \in Nat /\ Len(t) - k = 1 /\ ~(Len(t) > k + 1) /\ ~(Len(t) > k + 2) /\ k < Len(t)
      BY <1>1, <2>1
    <3>4. next # 0 /\ next # 1 /\ Len(t) = k + 1
      BY <3>1, <2>1
    <3>5. PartialAt(next, t, k)
      BY <2>1, <3>1, <3>2, <3>3, <3>4 DEF PartialAt
    <3>. QED BY <2>1, <3>4, <3>5
  <2>5. CASE ~FirstOk(b)
    BY <2>1, <2>2, <2>5 DEF Misplaced
  <2>. QED BY <2>3, <2>4, <2>5 DEF FirstOk
<1>4. CASE st # 0
  <2>. DEFINE a == s[k + 1]
  <2>1. /\ k < Len(s) /\ FirstOk(a) /\ Len(s) - k = Width(a) - Missing(st)
        /\ Len(s) = k + 1 => st = First(a)
        /\ Len(s) > k + 1 => st \in {2, 3} /\ SecondOk(a, s[k + 2])
        /\ Len(s) > k + 2 => LaterOk(s[k + 3])
    BY <1>1, <1>4 DEF PartialAt
  <2>2. a \in 0 .. 255 /\ t[k + 1] = a
    <3>1. k + 1 \in 1 .. Len(s)
      BY <1>1, <2>1
    <3>. QED BY <1>1, <3>1, ElementOfSeq DEF Bytes
  <2>. HIDE DEF a
  <2>3. Width(a) \in 1 .. 4 /\ Missing(st) \in 1 .. 3
    BY DEF Width, Missing
  <2>4. Len(s) - k >= 1 /\ Width(a) >= 2 /\ a \in 194 .. 244
    <3>1. Len(s) - k >= 1
      BY <1>1, <2>1
    <3>2. Width(a) >= 2
      BY <1>1, <2>1, <2>3, <3>1
    <3>. QED BY <2>1, <2>2, <3>1, <3>2 DEF Width, FirstOk
  <2>5. CASE Len(s) = k + 1
    <3>1. n = 2 /\ t[k + 2] = b /\ Len(t) = k + 2
      BY <1>1, <1>2, <2>5
    <3>2. next = IF ~SecondOk(a, b) THEN 1 ELSE IF a < 224 THEN 0 ELSE IF a < 240 THEN 2 ELSE 3
      <4>1. Step(First(a), Class(b)) = AfterSecond(a, b)
        BY <2>4, SecondStep
      <4>. QED BY <2>1, <2>5, <4>1 DEF AfterSecond
    <3>3. CASE next = 0
      <4>1. SecondOk(a, b) /\ Width(a) = 2
        BY <2>4, <3>2, <3>3 DEF Width
      <4>. QED BY <2>1, <2>2, <3>1, <3>3, <4>1 DEF CharacterAt
    <3>4. CASE next = 1
      <4>1. ~SecondOk(a, b)
        BY <2>4, <3>2, <3>4
      <4>. QED BY <2>2, <2>4, <3>1, <3>4, <4>1 DEF Misplaced
    <3>5. CASE next \notin {0, 1}
      <4>1. SecondOk(a, b) /\ next \in {2, 3} /\ Width(a) - Missing(next) = 2
        BY <2>4, <3>2, <3>5 DEF Width, Missing
      <4>2. k < Len(t) /\ Len(t) - k = 2 /\ Len(t) # k + 1 /\ ~(Len(t) > k + 2)
        BY <3>1
      <4>. QED BY <2>1, <2>2, <3>1, <3>5, <4>1, <4>2 DEF PartialAt
    <3>. QED BY <3>1, <3>3, <3>4, <3>5
  <2>6. CASE Len(s) > k + 1
    <3>1. st \in {2, 3} /\ SecondOk(a, s[k + 2]) /\ t[k + 2] = s[k + 2] /\ Len(s) - k >= 2
      BY <1>1, <2>1, <2>6
    <3>2. Missing(st) = (IF st = 2 THEN 1 ELSE 2) /\ Width(a) <= 4
      BY <2>3, <3>1 DEF Missing
    <3>3. next = IF LaterOk(b) THEN (IF st = 2 THEN 0 ELSE 2) ELSE 1
      BY <3>1, LaterStep
    <3>4. CASE Len(s) = k + 2
      <4>1. n = 3 /\ t[k + 3] = b /\ Len(t) = k + 3
        BY <1>1, <1>2, <3>4
      <4>2. CASE next = 0
        <5>1. LaterOk(b) /\ Width(a) = 3
          BY <1>1, <2>1, <2>3, <3>1, <3>2, <3>3, <3>4, <4>2
        <5>. QED BY <2>1, <2>2, <3>1, <4>1, <4>2, <5>1 DEF CharacterAt
      <4>3. CASE next = 1
        <5>1. ~LaterOk(b)
          BY <3>1, <3>3, <4>3
        <5>2. Width(a) >= 3
          BY <1>1, <2>1, <2>3, <3>1, <3>2, <3>4
        <5>. QED BY <2>2, <4>1, <4>3, <5>1, <5>2 DEF Misplaced
      <4>4. CASE next \notin {0, 1}
        <5>1. LaterOk(b) /\ next = 2 /\ st = 3
          BY <3>1, <3>3, <4>4
        <5>2. Width(a) = 4 /\ Width(a) - Missing(2) = 3
          BY <1>1, <2>1, <2>3, <3>2, <3>4, <5>1 DEF Missing
        <5>3. k < Len(t) /\ Len(t) - k = 3 /\ Len(t) # k + 1
          BY <4>1
        <5>. QED BY <2>1, <2>2, <3>1, <4>1, <5>1, <5>2, <5>3 DEF PartialAt
      <4>. QED BY <4>1, <4>2, <4>3, <4>4
    <3>5. CASE Len(s) > k + 2
      <4>1. st = 2 /\ Len(s) = k + 3 /\ Width(a) = 4
        BY <1>1, <2>1, <2>3, <3>1, <3>2, <3>5
      <4>2. n = 4 /\ t[k + 4] = b /\ t[k + 3] = s[k + 3] /\ LaterOk(s[k + 3])
        BY <1>1, <1>2, <2>1, <3>5, <4>1
      <4>3. next = IF LaterOk(b) THEN 0 ELSE 1
        BY <3>3, <4>1
      <4>4. CASE next = 0
        BY <2>1, <2>2, <3>1, <4>1, <4>2, <4>3, <4>4 DEF CharacterAt
      <4>5. CASE next = 1
        BY <2>2, <4>1, <4>2, <4>3, <4>5 DEF Misplaced
      <4>. QED BY <4>2, <4>3, <4>4, <4>5
    <3>. QED BY <1>1, <2>6, <3>4, <3>5
  <2>. QED BY <1>1, <2>1, <2>5, <2>6
<1>. QED BY <1>3, <1>4

(***************************************************************************)
(* While a text is dumped, the bytes that have been read are characters up *)
(* to some place, which no way of cutting the text can miss, and from      *)
(* there the part of a character that the state of decode stands for.      *)
(***************************************************************************)
ReadSoFar ==
  \E k \in 0 .. Len(text) :
    ReadTo(text, k) /\ PartialAt(state, text, k) /\ Unavoidable(text, k)

(* A byte that is rejected: whatever may come after it, it is not UTF-8.   *)
RejectsForGood ==
  dumped = "thrown" /\ state = UTF8_REJECT =>
    \A t \in Seq(Bytes) : ~IsUtf8Text(text \o t)

Utf8Inv == DumpsUtf8 /\ RejectsForGood /\ (dumped = "running" => ReadSoFar)

LEMMA NothingRead ==
  ASSUME text = <<>>, state = UTF8_ACCEPT
  PROVE  ReadSoFar
<1>1. Len(text) = 0 /\ 0 \in 0 .. Len(text)
  OBVIOUS
<1>2. ReadTo(text, 0)
  <2>. {0} \in SUBSET (0 .. 0)
    OBVIOUS
  <2>. QED BY DEF ReadTo
<1>3. PartialAt(state, text, 0)
  BY <1>1 DEF PartialAt, UTF8_ACCEPT
<1>4. Unavoidable(text, 0)
  BY DEF Unavoidable, Cuts
<1>. QED BY <1>1, <1>2, <1>3, <1>4 DEF ReadSoFar

(* If what follows the last cut that must be made is not a character, the  *)
(* text is not UTF-8.                                                      *)
LEMMA NoCharacter ==
  ASSUME NEW s \in Seq(Bytes), NEW t \in Seq(Bytes), Extends(t, s),
         NEW k \in 0 .. Len(s), Unavoidable(s, k), k < Len(t),
         \A n \in 1 .. 4 : k + n <= Len(t) => ~CharacterAt(t, k, n)
  PROVE  ~IsUtf8Text(t)
<1>. SUFFICES ASSUME NEW cuts \in Cuts(t) PROVE FALSE
  BY DEF IsUtf8Text
<1>1. k \in cuts /\ k # Len(t)
  BY LenProperties DEF Unavoidable
<1>. QED BY <1>1, NextCut

LEMMA NoneAfter ==
  ASSUME NEW t \in Seq(Bytes), NEW k \in Nat, NEW n \in 1 .. 4, k + n <= Len(t),
         Misplaced(t, k, n), NEW u \in Seq(Bytes), Extends(u, t), NEW m \in 1 .. 4
  PROVE  ~CharacterAt(u, k, m)
<1>1. \A i \in 1 .. n : k + i \in 1 .. Len(t)
  BY LenProperties
<1>2. \A i \in 1 .. n : u[k + i] = t[k + i]
  BY <1>1 DEF Extends
<1>3. u[k + 1] = t[k + 1] /\ u[k + n] = t[k + n]
  BY <1>2
<1>. SUFFICES ASSUME CharacterAt(u, k, m) PROVE FALSE
  OBVIOUS
<1>4. /\ m = Width(t[k + 1]) /\ FirstOk(t[k + 1])
      /\ m >= 2 => SecondOk(t[k + 1], u[k + 2])
      /\ m >= 3 => LaterOk(u[k + 3])
      /\ m = 4 => LaterOk(u[k + 4])
  BY <1>3 DEF CharacterAt
<1>5. CASE n = 1
  BY <1>4, <1>5 DEF Misplaced
<1>6. CASE n = 2
  BY <1>3, <1>4, <1>6 DEF Misplaced
<1>7. CASE n = 3
  BY <1>3, <1>4, <1>7 DEF Misplaced
<1>8. CASE n = 4
  BY <1>3, <1>4, <1>8 DEF Misplaced
<1>. QED BY <1>5, <1>6, <1>7, <1>8

(* What a rejected byte means to the two properties. *)
LEMMA NoContinuation ==
  ASSUME NEW s \in Seq(Bytes), \A u \in Seq(Bytes) : Extends(u, s) => ~IsUtf8Text(u)
  PROVE  /\ \A t \in Seq(Bytes) : ~IsUtf8Text(s \o t)
         /\ ~BeginsText(s)
<1>1. ASSUME NEW t \in Seq(Bytes)
      PROVE  s \o t \in Seq(Bytes) /\ Extends(s \o t, s)
  BY ConcatProperties, LenProperties DEF Extends
<1>2. Continuations \subseteq Seq(Bytes)
  <2>. SUFFICES ASSUME NEW t \in Continuations PROVE t \in Seq(Bytes)
    OBVIOUS
  <2>1. PICK n \in 0 .. 3 : t \in [1 .. n -> {128}] \cup [1 .. n -> {191}]
    BY DEF Continuations
  <2>2. t \in [1 .. n -> Bytes] /\ n \in Nat
    BY <2>1 DEF Bytes
  <2>. QED BY <2>2
<1>3. \A t \in Seq(Bytes) : ~IsUtf8Text(s \o t)
  BY <1>1
<1>. QED BY <1>2, <1>3 DEF BeginsText

LEMMA Width4 ==
  ASSUME NEW st \in 0 .. 8, NEW s \in Seq(Bytes), NEW k \in 0 .. Len(s), PartialAt(st, s, k),
         NEW n \in 1 .. 4, NEW t \in Seq(Bytes), Extends(t, s), CharacterAt(t, k, n), st # 0
  PROVE  k + n > Len(s)
<1>1. k < Len(s) /\ Len(s) - k = Width(s[k + 1]) - Missing(st) /\ Len(s) \in Nat
  BY LenProperties DEF PartialAt
<1>2. k + 1 \in 1 .. Len(s)
  BY <1>1
<1>3. t[k + 1] = s[k + 1]
  BY <1>2 DEF Extends
<1>4. n = Width(s[k + 1])
  BY <1>3 DEF CharacterAt
<1>5. Missing(st) >= 1 /\ Missing(st) \in Nat
  BY DEF Missing
<1>. QED BY <1>1, <1>4, <1>5

LEMMA DumpByteUtf8 ==
  ASSUME DumpInv, Utf8Inv, DumpByte
  PROVE  Utf8Inv'
<1>1. PICK b \in TextBytes :
        /\ dumped = "running" /\ text' = Append(text, b) /\ state' = Step(state, Class(b))
        /\ \/ state' = UTF8_ACCEPT /\ UNCHANGED dumped
           \/ state' = UTF8_REJECT /\ dumped' = "thrown"
           \/ state' \notin {UTF8_ACCEPT, UTF8_REJECT} /\ UNCHANGED dumped
  BY DEF DumpByte
<1>2. /\ text \in Seq(Bytes) /\ state \in 0 .. 8 /\ state # 1 /\ b \in 0 .. 255
  BY <1>1, TextAssumption DEF DumpInv, Bytes, UTF8_REJECT
<1>3. text' \in Seq(Bytes) /\ Len(text') = Len(text) + 1 /\ Extends(text', text) /\ Len(text) \in Nat
  BY <1>1, <1>2, AppendProperties, LenProperties DEF Extends, Bytes
<1>4. PICK k \in 0 .. Len(text) :
        ReadTo(text, k) /\ PartialAt(state, text, k) /\ Unavoidable(text, k)
  BY <1>1 DEF Utf8Inv, ReadSoFar
<1>. DEFINE n == Len(text') - k
<1>5. /\ n \in 1 .. 4
      /\ state' = 0 => CharacterAt(text', k, n)
      /\ state' = 1 => Misplaced(text', k, n)
      /\ state' \notin {0, 1} => PartialAt(state', text', k)
  <2>1. Decodes(text, k, state, b, text', n, state')
    BY <1>1, <1>2, <1>4 DEF Decodes
  <2>. HIDE DEF n
  <2>. QED BY <2>1, DecodeCharacter
<1>6. k + n = Len(text') /\ k < Len(text') /\ k \in 0 .. Len(text')
  BY <1>3
<1>. HIDE DEF n
<1>7. CASE state' = UTF8_ACCEPT /\ UNCHANGED dumped
  <2>1. CharacterAt(text', k, n)
    BY <1>5, <1>7 DEF UTF8_ACCEPT
  <2>2. ReadTo(text', Len(text'))
    BY <1>2, <1>3, <1>4, <1>5, <1>6, <2>1, OneMore
  <2>3. Unavoidable(text', Len(text'))
    BY <1>2, <1>3, <1>4, <1>5, <1>6, <2>1, NextUnavoidable
  <2>4. PartialAt(state', text', Len(text'))
    BY <1>7 DEF PartialAt, UTF8_ACCEPT
  <2>5. ReadSoFar'
    BY <1>3, <2>2, <2>3, <2>4 DEF ReadSoFar
  <2>. QED BY <1>1, <1>7, <2>5 DEF Utf8Inv, DumpsUtf8, RejectsForGood
<1>8. CASE state' = UTF8_REJECT /\ dumped' = "thrown"
  <2>1. Misplaced(text', k, n)
    BY <1>5, <1>8 DEF UTF8_REJECT
  <2>2. ASSUME NEW u \in Seq(Bytes), Extends(u, text')
        PROVE  ~IsUtf8Text(u)
    <3>1. Extends(u, text) /\ k < Len(u)
      BY <1>3, <1>6, <2>2, LenProperties DEF Extends
    <3>2. k \in Nat /\ k + n <= Len(text')
      BY <1>3, <1>6
    <3>3. \A m \in 1 .. 4 : ~CharacterAt(u, k, m)
      BY <1>3, <1>5, <2>1, <2>2, <3>2, NoneAfter
    <3>. QED BY <1>2, <1>4, <3>1, <3>3, NoCharacter
  <2>3. ~BeginsText(text') /\ \A t \in Seq(Bytes) : ~IsUtf8Text(text' \o t)
    BY <1>3, <2>2, NoContinuation
  <2>. QED BY <1>8, <2>3 DEF Utf8Inv, DumpsUtf8, RejectsForGood
<1>9. CASE state' \notin {UTF8_ACCEPT, UTF8_REJECT} /\ UNCHANGED dumped
  <2>1. PartialAt(state', text', k)
    BY <1>5, <1>9 DEF UTF8_ACCEPT, UTF8_REJECT
  <2>2. Unavoidable(text', k)
    <3>. SUFFICES ASSUME NEW u \in Seq(Bytes), Extends(u, text')
                  PROVE  \A cuts \in Cuts(u) : k \in cuts
      BY DEF Unavoidable
    <3>1. Extends(u, text)
      BY <1>3, LenProperties DEF Extends
    <3>. QED BY <1>4, <3>1 DEF Unavoidable
  <2>3. ReadTo(text', k)
    <3>1. PICK cuts \in SUBSET (0 .. k) :
            /\ 0 \in cuts
            /\ \A i \in cuts \ {k} : \E m \in 1 .. 4 : i + m \in cuts /\ CharacterAt(text, i, m)
      BY <1>4 DEF ReadTo
    <3>2. ASSUME NEW i \in cuts \ {k}
          PROVE  \E m \in 1 .. 4 : i + m \in cuts /\ CharacterAt(text', i, m)
      <4>1. PICK m \in 1 .. 4 : i + m \in cuts /\ CharacterAt(text, i, m)
        BY <3>1
      <4>2. i \in Nat /\ i + m <= Len(text)
        BY <1>3, <3>1, <4>1
      <4>. QED BY <1>2, <1>3, <4>1, <4>2, SameCharacter
    <3>. QED BY <3>1, <3>2 DEF ReadTo
  <2>4. ReadSoFar'
    BY <1>6, <2>1, <2>2, <2>3 DEF ReadSoFar
  <2>. QED BY <1>1, <1>9, <2>4 DEF Utf8Inv, DumpsUtf8, RejectsForGood
<1>. QED BY <1>1, <1>7, <1>8, <1>9

LEMMA DumpEndUtf8 ==
  ASSUME DumpInv, Utf8Inv, DumpEnd
  PROVE  Utf8Inv'
<1>1. /\ dumped = "running" /\ text' = text
      /\ \/ state = UTF8_ACCEPT /\ dumped' = "done"
         \/ state # UTF8_ACCEPT /\ dumped' = "thrown"
      /\ state' = state /\ state # UTF8_REJECT
  BY DEF DumpEnd, DumpInv
<1>2. text \in Seq(Bytes) /\ state \in 0 .. 8 /\ Len(text) \in Nat /\ Extends(text, text)
  BY LenProperties DEF DumpInv, Bytes, Extends
<1>3. PICK k \in 0 .. Len(text) :
        ReadTo(text, k) /\ PartialAt(state, text, k) /\ Unavoidable(text, k)
  BY <1>1 DEF Utf8Inv, ReadSoFar
<1>4. CASE state = UTF8_ACCEPT /\ dumped' = "done"
  <2>1. k = Len(text)
    BY <1>3, <1>4 DEF PartialAt, UTF8_ACCEPT
  <2>2. IsUtf8Text(text)
    BY <1>2, <1>3, <2>1, WholeText
  <2>. QED BY <1>1, <1>4, <2>2 DEF Utf8Inv, DumpsUtf8, RejectsForGood
<1>5. CASE state # UTF8_ACCEPT /\ dumped' = "thrown"
  <2>1. k < Len(text) /\ state # 0
    BY <1>3, <1>5 DEF PartialAt, UTF8_ACCEPT
  <2>2. \A n \in 1 .. 4 : k + n <= Len(text) => ~CharacterAt(text, k, n)
    BY <1>2, <1>3, <2>1, Width4
  <2>3. ~IsUtf8Text(text)
    BY <1>2, <1>3, <2>1, <2>2, NoCharacter
  <2>. QED BY <1>1, <1>5, <2>3 DEF Utf8Inv, DumpsUtf8, RejectsForGood
<1>. QED BY <1>1, <1>4, <1>5

(* For every text of bytes: dump() throws if and only if it is not UTF-8,  *)
(* as RFC 3629 defines it.  It throws at the end of the text, which is then *)
(* not UTF-8, or at a byte after which nothing makes the text UTF-8.       *)
THEOREM DumpsExactlyUtf8 == TextSpec => [](DumpsUtf8 /\ RejectsForGood)
<1>1. TextInit => Utf8Inv
  <2>. SUFFICES ASSUME TextInit PROVE Utf8Inv
    OBVIOUS
  <2>1. text = <<>> /\ state = UTF8_ACCEPT /\ dumped \in {"none", "running"}
    BY DEF TextInit, DumpInit, NoString
  <2>. QED BY <2>1, NothingRead DEF Utf8Inv, DumpsUtf8, RejectsForGood
<1>2. TextInv /\ Utf8Inv /\ [TextNext]_textVars => Utf8Inv'
  <2>. SUFFICES ASSUME TextInv, Utf8Inv, [TextNext]_textVars PROVE Utf8Inv'
    OBVIOUS
  <2>1. DumpNext \/ UNCHANGED dumpVars
    BY DEF TextNext, DumpString, DumpNumber, ReadText, textVars
  <2>2. CASE DumpNext
    BY <2>2, DumpByteUtf8, DumpEndUtf8 DEF DumpNext, TextInv
  <2>3. CASE UNCHANGED dumpVars
    BY <2>3 DEF dumpVars, Utf8Inv, DumpsUtf8, RejectsForGood, ReadSoFar
  <2>. QED BY <2>1, <2>2, <2>3
<1>3. Utf8Inv => DumpsUtf8 /\ RejectsForGood
  BY DEF Utf8Inv
<1>. QED BY <1>1, <1>2, <1>3, TextInvariant, PTL DEF TextSpec

(***************************************************************************)
(* count_digits.                                                           *)
(***************************************************************************)
LEMMA LeastNatural ==
  ASSUME NEW S \in SUBSET Nat, S # {}
  PROVE  \E m \in S : \A n \in S : m <= n
<1>1. IsWellFoundedOn(OpToRel(<, Nat), Nat)
  BY NatLessThanWellFounded, Zenon
<1>2. PICK m \in S : \A n \in S : <<n, m>> \notin OpToRel(<, Nat)
  BY <1>1, WFMin, Zenon
<1>3. \A n \in S : ~ (n < m)
  BY <1>2 DEF OpToRel
<1>. QED BY <1>3

(* The loop of count_digits for x, when counts has what comes after it.    *)
Count(counts, x) ==
  IF x < 10 THEN 1 ELSE IF x < 100 THEN 2 ELSE IF x < 1000 THEN 3
  ELSE IF x < 10000 THEN 4 ELSE 4 + counts[x \div 10000]

CountsTo(n, counts) ==
  counts \in [0 .. n -> Nat] /\ \A x \in 0 .. n : counts[x] = Count(counts, x)

LEMMA Shift ==
  ASSUME NEW x \in Nat, ~(x < 10000)
  PROVE  x \div 10000 \in Nat /\ x \div 10000 < x
  OBVIOUS

LEMMA CountNear ==
  ASSUME NEW f, NEW g, NEW x \in Nat, x < 10000
  PROVE  Count(f, x) = Count(g, x) /\ Count(f, x) \in 1 .. 4
  BY DEF Count

LEMMA CountFar ==
  ASSUME NEW f, NEW x \in Nat, ~(x < 10000)
  PROVE  Count(f, x) = 4 + f[x \div 10000]
<1>1. ~(x < 10) /\ ~(x < 100) /\ ~(x < 1000)
  OBVIOUS
<1>. QED BY <1>1, SMT DEF Count

LEMMA CountsExist ==
  ASSUME NEW n \in Nat
  PROVE  \E counts : CountsTo(n, counts)
<1>. DEFINE Bad == {k \in Nat : ~\E counts : CountsTo(k, counts)}
<1>1. SUFFICES ASSUME Bad # {} PROVE FALSE
  OBVIOUS
<1>2. PICK m \in Bad : \A k \in Bad : m <= k
  <2>1. Bad \in SUBSET Nat
    OBVIOUS
  <2>. HIDE DEF Bad
  <2>. QED BY <1>1, <2>1, LeastNatural
<1>3. m \in Nat /\ ~\E counts : CountsTo(m, counts)
  OBVIOUS
<1>4. m # 0
  <2>1. CountsTo(0, [x \in 0 .. 0 |-> 1])
    BY DEF CountsTo, Count
  <2>. QED BY <1>3, <2>1
<1>5. m - 1 \in Nat /\ m - 1 \notin Bad
  BY <1>2, <1>3, <1>4
<1>6. PICK h : CountsTo(m - 1, h)
  BY <1>5
<1>. DEFINE g == [x \in 0 .. m |-> IF x < m THEN h[x] ELSE Count(h, m)]
<1>7. \A x \in 0 .. m - 1 : h[x] \in Nat /\ h[x] = Count(h, x)
  BY <1>6 DEF CountsTo
<1>8. ASSUME NEW x \in 0 .. m
      PROVE  Count(g, x) = Count(h, x) /\ (~(x < 10000) => h[x \div 10000] \in Nat)
  <2>1. CASE x < 10000
    BY <1>3, <2>1, CountNear
  <2>2. CASE ~(x < 10000)
    <3>. DEFINE j == x \div 10000
    <3>1. x \in Nat /\ x <= m
      BY <1>3
    <3>2. j \in Nat /\ j < x
      BY <2>2, <3>1, Shift
    <3>. HIDE DEF j
    <3>3. j \in 0 .. m - 1
      BY <1>3, <3>1, <3>2
    <3>4. g[j] = h[j] /\ h[j] \in Nat
      BY <1>3, <1>7, <3>3
    <3>. HIDE DEF g
    <3>5. Count(g, x) = 4 + g[j] /\ Count(h, x) = 4 + h[j]
      BY <2>2, <3>1, CountFar DEF j
    <3>6. Count(g, x) = Count(h, x)
      BY <3>4, <3>5
    <3>7. h[x \div 10000] \in Nat
      BY <3>4 DEF j
    <3>. QED BY <3>6, <3>7
  <2>. QED BY <2>1, <2>2
<1>9. Count(h, m) \in Nat
  <2>. HIDE DEF g, Bad
  <2>1. CASE m < 10000
    BY <1>3, <2>1, CountNear
  <2>2. CASE ~(m < 10000)
    <3>1. Count(h, m) = 4 + h[m \div 10000]
      BY <1>3, <2>2, CountFar
    <3>2. h[m \div 10000] \in Nat
      <4>1. m \in 0 .. m
        BY <1>3
      <4>2. ~(m < 10000) => h[m \div 10000] \in Nat
        BY <1>8, <4>1
      <4>. QED BY <2>2, <4>2
    <3>. QED BY <3>1, <3>2
  <2>. QED BY <2>1, <2>2
<1>10. CountsTo(m, g)
  <2>1. g \in [0 .. m -> Nat]
    BY <1>3, <1>7, <1>9
  <2>2. ASSUME NEW x \in 0 .. m PROVE g[x] = Count(h, x)
    <3>1. CASE x < m
      BY <1>3, <1>7, <3>1
    <3>2. CASE x = m
      BY <1>3, <3>2
    <3>. QED BY <1>3, <3>1, <3>2
  <2>. HIDE DEF g
  <2>. QED BY <1>8, <2>1, <2>2 DEF CountsTo
<1>. HIDE DEF g, Bad
<1>. QED BY <1>3, <1>10

LEMMA CountsAgree ==
  ASSUME NEW n \in Nat, NEW m \in Nat, NEW g, CountsTo(n, g), NEW h, CountsTo(m, h),
         NEW x \in Nat, x <= n, x <= m
  PROVE  g[x] = h[x]
<1>. DEFINE Bad == {k \in Nat : k <= n /\ k <= m /\ g[k] # h[k]}
<1>1. SUFFICES ASSUME Bad # {} PROVE FALSE
  OBVIOUS
<1>2. PICK k \in Bad : \A j \in Bad : k <= j
  <2>1. Bad \in SUBSET Nat
    OBVIOUS
  <2>. HIDE DEF Bad
  <2>. QED BY <1>1, <2>1, LeastNatural
<1>3. k \in Nat /\ k <= n /\ k <= m /\ g[k] # h[k]
  OBVIOUS
<1>4. g[k] = Count(g, k) /\ h[k] = Count(h, k)
  BY <1>3 DEF CountsTo
<1>5. Count(g, k) = Count(h, k)
  <2>1. CASE k < 10000
    BY <2>1 DEF Count
  <2>2. CASE ~(k < 10000)
    <3>. DEFINE j == k \div 10000
    <3>1. j \in Nat /\ j < k
      BY <1>3, <2>2, Shift
    <3>. HIDE DEF j
    <3>2. g[j] = h[j]
      <4>1. j \notin Bad
        <5>1. ~(k <= j)
          BY <1>3, <3>1
        <5>. HIDE DEF Bad
        <5>. QED BY <1>2, <5>1
      <4>. QED BY <1>3, <3>1, <4>1
    <3>. QED BY <2>2, <3>2 DEF Count, j
  <2>. QED BY <2>1, <2>2
<1>. HIDE DEF Bad
<1>. QED BY <1>3, <1>4, <1>5

LEMMA CountDigits ==
  /\ count_digits \in [Nat -> Nat]
  /\ \A x \in Nat : count_digits[x] = Count(count_digits, x)
<1>. DEFINE H(n) == CHOOSE counts : CountsTo(n, counts)
            g == [x \in Nat |-> H(x)[x]]
            F(f) == [x \in Nat |-> Count(f, x)]
<1>1. \A n \in Nat : CountsTo(n, H(n))
  BY CountsExist
<1>. HIDE DEF H
<1>2. \A x \in Nat : g[x] \in Nat
  <2>1. ASSUME NEW x \in Nat PROVE H(x)[x] \in Nat
    BY <1>1 DEF CountsTo
  <2>. QED BY <2>1
<1>3. ASSUME NEW x \in Nat PROVE g[x] = Count(g, x)
  <2>1. g[x] = Count(H(x), x)
    BY <1>1 DEF CountsTo
  <2>2. CASE x < 10000
    BY <2>1, <2>2 DEF Count
  <2>3. CASE ~(x < 10000)
    <3>. DEFINE j == x \div 10000
    <3>1. j \in Nat /\ j < x
      BY <2>3, Shift
    <3>. HIDE DEF j
    <3>2. H(x)[j] = H(j)[j]
      BY <1>1, <3>1, CountsAgree
    <3>3. g[j] = H(x)[j]
      BY <3>1, <3>2
    <3>. HIDE DEF g
    <3>. QED BY <2>1, <2>3, <3>3 DEF Count, j
  <2>. QED BY <2>2, <2>3
<1>4. g = F(g)
  <2>1. g = [x \in Nat |-> g[x]]
    OBVIOUS
  <2>. HIDE DEF g
  <2>. QED BY <1>3, <2>1, Zenon
<1>5. count_digits = CHOOSE f : f = F(f)
  BY DEF count_digits, Count
<1>. HIDE DEF F, g
<1>6. count_digits = F(count_digits)
  BY <1>4, <1>5
<1>7. /\ DOMAIN count_digits = Nat
      /\ \A x \in Nat : count_digits[x] = Count(count_digits, x)
  BY <1>6, Zenon DEF F
<1>8. \A x \in Nat : count_digits[x] \in Nat
  <2>. DEFINE Bad == {x \in Nat : count_digits[x] \notin Nat}
  <2>1. SUFFICES ASSUME Bad # {} PROVE FALSE
    OBVIOUS
  <2>2. PICK m \in Bad : \A k \in Bad : m <= k
    <3>1. Bad \in SUBSET Nat
      OBVIOUS
    <3>. HIDE DEF Bad
    <3>. QED BY <2>1, <3>1, LeastNatural
  <2>3. m \in Nat /\ count_digits[m] \notin Nat /\ count_digits[m] = Count(count_digits, m)
    BY <1>7
  <2>4. CASE m < 10000
    BY <2>3, <2>4 DEF Count
  <2>5. CASE ~(m < 10000)
    <3>. DEFINE j == m \div 10000
    <3>1. j \in Nat /\ j < m
      BY <2>3, <2>5, Shift
    <3>. HIDE DEF j
    <3>2. count_digits[j] \in Nat
      <4>1. ~(m <= j)
        BY <2>3, <3>1
      <4>2. j \notin Bad
        <5>. HIDE DEF Bad
        <5>. QED BY <2>2, <4>1
      <4>. QED BY <3>1, <4>2
    <3>. QED BY <2>3, <2>5, <3>2 DEF Count, j
  <2>. QED BY <2>4, <2>5
<1>9. count_digits = [x \in Nat |-> Count(count_digits, x)]
  BY <1>6 DEF F
<1>. QED BY <1>7, <1>8, <1>9

LEMMA CountSmall ==
  ASSUME NEW x \in Nat, x < 10000
  PROVE  /\ count_digits[x] \in 1 .. 4
         /\ count_digits[x] = IF x < 10 THEN 1 ELSE IF x < 100 THEN 2 ELSE IF x < 1000 THEN 3 ELSE 4
<1>1. count_digits[x] = Count(count_digits, x)
  BY CountDigits
<1>. QED BY <1>1 DEF Count

LEMMA CountLarge ==
  ASSUME NEW x \in Nat, ~(x < 10000)
  PROVE  /\ count_digits[x \div 10000] \in Nat
         /\ count_digits[x] = 4 + count_digits[x \div 10000]
<1>1. count_digits[x] = Count(count_digits, x) /\ x \div 10000 \in Nat
  BY CountDigits, Shift
<1>2. count_digits[x \div 10000] \in Nat
  BY <1>1, CountDigits
<1>. QED BY <1>1, <1>2, CountFar

LEMMA CountPositive ==
  ASSUME NEW x \in Nat
  PROVE  count_digits[x] \in Nat /\ count_digits[x] >= 1
  BY CountSmall, CountLarge

LEMMA Quotients ==
  ASSUME NEW x \in Nat, x >= 100
  PROVE  /\ x \div 100 \in Nat /\ x \div 100 >= 1 /\ x \div 100 < x
         /\ (x \div 100) \div 100 = x \div 10000
         /\ x < 1000 => x \div 100 < 10
         /\ x >= 1000 /\ x < 10000 => x \div 100 >= 10 /\ x \div 100 < 100
         /\ x >= 10000 => x \div 100 >= 100
  OBVIOUS

(* Two digits are written for each division by a hundred. *)
LEMMA CountPair ==
  ASSUME NEW x \in Nat, x >= 100
  PROVE  count_digits[x] = 2 + count_digits[x \div 100]
<1>. DEFINE Bad == {k \in Nat : k >= 100 /\ count_digits[k] # 2 + count_digits[k \div 100]}
<1>1. SUFFICES ASSUME Bad # {} PROVE FALSE
  OBVIOUS
<1>2. PICK m \in Bad : \A k \in Bad : m <= k
  <2>1. Bad \in SUBSET Nat
    OBVIOUS
  <2>. HIDE DEF Bad
  <2>. QED BY <1>1, <2>1, LeastNatural
<1>. DEFINE q == m \div 100
<1>3. m \in Nat /\ m >= 100 /\ count_digits[m] # 2 + count_digits[q]
  OBVIOUS
<1>4. /\ q \in Nat /\ q >= 1 /\ q < m /\ q \div 100 = m \div 10000
      /\ m < 1000 => q < 10
      /\ m >= 1000 /\ m < 10000 => q >= 10 /\ q < 100
      /\ m >= 10000 => q >= 100
  BY <1>3, Quotients
<1>5. q \notin Bad
  <2>1. ~(m <= q)
    BY <1>3, <1>4
  <2>. HIDE DEF Bad, q
  <2>. QED BY <1>2, <2>1
<1>6. q >= 100 => count_digits[q] = 2 + count_digits[m \div 10000]
  BY <1>4, <1>5
<1>. HIDE DEF Bad, q
<1>7. CASE m < 1000
  <2>1. count_digits[m] = 3 /\ count_digits[q] = 1
    BY <1>3, <1>4, <1>7, CountSmall
  <2>. QED BY <1>3, <2>1
<1>8. CASE m >= 1000 /\ m < 10000
  <2>1. count_digits[m] = 4 /\ count_digits[q] = 2
    BY <1>3, <1>4, <1>8, CountSmall
  <2>. QED BY <1>3, <2>1
<1>9. CASE m >= 10000
  <2>1. count_digits[m] = 4 + count_digits[m \div 10000] /\ count_digits[m \div 10000] \in Nat
    <3>1. ~(m < 10000)
      BY <1>3, <1>9
    <3>. QED BY <1>3, <3>1, CountLarge
  <2>2. count_digits[q] = 2 + count_digits[m \div 10000]
    BY <1>4, <1>6, <1>9
  <2>. QED BY <1>3, <2>1, <2>2
<1>. QED BY <1>3, <1>7, <1>8, <1>9

LEMMA CountMonotonic ==
  ASSUME NEW x \in Nat, NEW y \in Nat, x <= y
  PROVE  count_digits[x] <= count_digits[y]
<1>. DEFINE Bad == {k \in Nat : \E j \in Nat : j <= k /\ ~(count_digits[j] <= count_digits[k])}
<1>1. SUFFICES ASSUME Bad # {} PROVE FALSE
  OBVIOUS
<1>2. PICK m \in Bad : \A k \in Bad : m <= k
  <2>1. Bad \in SUBSET Nat
    OBVIOUS
  <2>. HIDE DEF Bad
  <2>. QED BY <1>1, <2>1, LeastNatural
<1>3. m \in Nat
  OBVIOUS
<1>4. PICK j \in Nat : j <= m /\ ~(count_digits[j] <= count_digits[m])
  OBVIOUS
<1>5. CASE m < 10000
  <2>. HIDE DEF Bad
  <2>1. j < 10000
    BY <1>3, <1>4, <1>5
  <2>. QED BY <1>3, <1>4, <1>5, <2>1, CountSmall
<1>6. CASE ~(m < 10000)
  <2>. DEFINE q == m \div 10000
  <2>1. /\ q \in Nat /\ q < m /\ count_digits[q] \in Nat
        /\ count_digits[m] = 4 + count_digits[q]
    BY <1>3, <1>6, CountLarge, Shift
  <2>2. CASE j < 10000
    <3>1. count_digits[j] \in 1 .. 4
      BY <2>2, CountSmall
    <3>. HIDE DEF Bad, q
    <3>. QED BY <1>4, <2>1, <3>1
  <2>3. CASE ~(j < 10000)
    <3>. DEFINE r == j \div 10000
    <3>1. /\ r \in Nat /\ count_digits[r] \in Nat
          /\ count_digits[j] = 4 + count_digits[r]
      BY <2>3, CountLarge, Shift
    <3>2. r <= q
      <4>. HIDE DEF Bad
      <4>. QED BY <1>3, <1>4
    <3>3. ~(m <= q)
      BY <1>3, <2>1
    <3>4. q \notin Bad
      <4>. HIDE DEF Bad, q, r
      <4>. QED BY <1>2, <3>3
    <3>. HIDE DEF q, r
    <3>5. count_digits[r] <= count_digits[q]
      BY <2>1, <3>1, <3>2, <3>4
    <3>. HIDE DEF Bad
    <3>. QED BY <1>4, <2>1, <3>1, <3>5
  <2>. QED BY <2>2, <2>3
<1>. QED BY <1>5, <1>6

(***************************************************************************)
(* dump_integer: pre[i] is the number whose digits are those before i.     *)
(***************************************************************************)
Magnitude == IF negative THEN -number.value ELSE number.value
Total == spent + count_digits[Magnitude]

Digits(cells, pre, p) ==
  /\ p \in spent .. Total
  /\ pre \in [p .. Total -> 0 .. Magnitude] /\ pre[Total] = Magnitude
  /\ \A i \in p .. Total - 1 :
       cells[i] \in Digit /\ pre[i + 1] = 10 * pre[i] + (cells[i] - 48)

Cells ==
  /\ number_buffer \in [0 .. NumberBuffer - 1 -> Digit \cup {Unset, Minus}]
  /\ negative => number_buffer[0] = Minus
  /\ \A i \in spent .. buffer_ptr - 1 : number_buffer[i] = Unset

NotBegun ==
  /\ buffer_ptr = Unset /\ written = <<>>
  /\ number_buffer = [i \in 0 .. NumberBuffer - 1 |-> Unset]

ZeroWritten == number.value = 0 /\ buffer_ptr = Unset /\ written = <<48>>

Placing ==
  /\ Cells /\ written = <<>> /\ number.value # 0
  /\ abs_value \in Nat /\ abs_value >= 1
  /\ buffer_ptr = spent + count_digits[abs_value]
  /\ \E pre : Digits(number_buffer, pre, buffer_ptr) /\ pre[buffer_ptr] = abs_value

Placed ==
  /\ Cells /\ number.value # 0 /\ buffer_ptr = spent
  /\ number_buffer[spent] # 48
  /\ written = [i \in 1 .. Total |-> number_buffer[i - 1]]
  /\ \E pre : Digits(number_buffer, pre, spent) /\ pre[spent] = 0

NumberInv ==
  \/ number = [type |-> "none"] /\ buffer_ptr = Unset /\ written = <<>>
  \/ number \in FloatNumbers /\ buffer_ptr = Unset /\ Len(written) <= NumberBuffer
  \/ number \in IntegerNumbers /\ (NotBegun \/ ZeroWritten \/ Placing \/ Placed)

LEMMA Types ==
  /\ number \in FloatNumbers => number.type = "float"
  /\ number \in IntegerNumbers => number.type \in {"integer", "unsigned"}
  BY DEF FloatNumbers, IntegerNumbers

LEMMA SmallRemainder ==
  ASSUME NEW a \in Nat, NEW n \in Nat, a < n
  PROVE  a % n = a
  OBVIOUS

LEMMA Magnitudes ==
  ASSUME number \in IntegerNumbers
  PROVE  /\ number.value \in Int /\ Magnitude \in Nat /\ Magnitude < 2 ^ IntBits
         /\ negative \in BOOLEAN /\ (number.value # 0 => Magnitude >= 1)
         /\ number.value = 0 => ~negative
         /\ negative => /\ number.type = "integer" /\ Magnitude <= 2 ^ (IntBits - 1)
                        /\ remove_sign(number.value) = Magnitude
         /\ ~negative => Magnitude = number.value
         /\ spent \in {0, 1} /\ (negative <=> spent = 1)
         /\ Total \in Nat /\ spent < Total /\ Total < NumberBuffer - 1
         /\ NumberBuffer \in Nat
<1>. DEFINE half == 2 ^ (IntBits - 1)
            full == 2 ^ IntBits
            x == number.value
<1>1. half \in Nat /\ half >= 1 /\ full = 2 * half
  BY WidthAssumption
<1>2. /\ x \in Int /\ x < full /\ -half <= x
      /\ number.type \in {"integer", "unsigned"}
      /\ number.type = "unsigned" => x >= 0
  <2>1. CASE \E v \in IntegerValues : number = [type |-> "integer", value |-> v]
    <3>1. PICK v \in IntegerValues : number = [type |-> "integer", value |-> v]
      BY <2>1
    <3>2. v \in -half .. half - 1 /\ x = v /\ number.type = "integer"
      BY <3>1, IntegersAssumption
    <3>. HIDE DEF half, full
    <3>. QED BY <1>1, <3>2
  <2>2. CASE \E v \in UnsignedValues : number = [type |-> "unsigned", value |-> v]
    <3>1. PICK v \in UnsignedValues : number = [type |-> "unsigned", value |-> v]
      BY <2>2
    <3>2. v \in 0 .. full - 1 /\ x = v /\ number.type = "unsigned"
      BY <3>1, IntegersAssumption
    <3>. HIDE DEF half, full
    <3>. QED BY <1>1, <3>2
  <2>. QED BY <2>1, <2>2 DEF IntegerNumbers
<1>3. negative \in BOOLEAN /\ (negative => x < 0) /\ (~negative => x >= 0)
      /\ (negative => number.type = "integer")
  BY <1>2 DEF negative
<1>4. negative => remove_sign(x) = -x
  <2>. SUFFICES ASSUME negative PROVE remove_sign(x) = -x
    OBVIOUS
  <2>. HIDE DEF half, full, x
  <2>1. -(x + 1) \in Nat /\ -(x + 1) < full /\ full \in Nat
    BY <1>1, <1>2, <1>3
  <2>2. (-(x + 1)) % full = -(x + 1)
    BY <2>1, SmallRemainder
  <2>3. remove_sign(x) = ((-(x + 1)) % full) + 1
    BY DEF remove_sign, full
  <2>. QED BY <1>2, <2>2, <2>3
<1>. HIDE DEF half, full, x
<1>5. /\ Magnitude = IF negative THEN -x ELSE x
      /\ spent = IF negative THEN 1 ELSE 0
  BY DEF Magnitude, spent, x
<1>6. Magnitude \in Nat /\ Magnitude < full /\ (x # 0 => Magnitude >= 1)
      /\ (negative => Magnitude <= half /\ Magnitude = -x) /\ (~negative => Magnitude = x)
  BY <1>1, <1>2, <1>3, <1>5
<1>7. spent \in {0, 1} /\ (negative <=> spent = 1)
  BY <1>3, <1>5
<1>8. /\ count_digits[Magnitude] \in Nat /\ count_digits[Magnitude] >= 1
      /\ count_digits[full - 1] \in Nat /\ count_digits[Magnitude] <= count_digits[full - 1]
  <2>1. full - 1 \in Nat /\ Magnitude <= full - 1
    BY <1>1, <1>6
  <2>. QED BY <1>6, <2>1, CountPositive, CountMonotonic
<1>9. NumberBuffer \in Nat /\ 1 + count_digits[full - 1] < NumberBuffer - 1
  BY NumberBufferAssumption DEF full
<1>10. Total = spent + count_digits[Magnitude]
  BY DEF Total
<1>11. Total \in Nat /\ spent < Total /\ Total < NumberBuffer - 1
  BY <1>7, <1>8, <1>9, <1>10
<1>. QED BY <1>1, <1>2, <1>3, <1>4, <1>6, <1>7, <1>9, <1>11 DEF half, full, x

LEMMA Remainders ==
  ASSUME NEW a \in Nat
  PROVE  /\ a % 100 \in 0 .. 99 /\ (a % 100) \div 10 \in 0 .. 9 /\ (a % 100) % 10 \in 0 .. 9
         /\ a \div 100 \in Nat /\ a \div 100 <= a /\ a \div 10 \in Nat /\ a \div 10 <= a
         /\ 10 * (a \div 10) + ((a % 100) % 10) = a
         /\ 10 * (a \div 100) + ((a % 100) \div 10) = a \div 10
  OBVIOUS

(* What a digit more, or two, make of the digits placed so far. *)
LEMMA PairDigits ==
  ASSUME number \in IntegerNumbers, number' = number, Cells,
         NEW pre, Digits(number_buffer, pre, buffer_ptr), NEW a \in Nat, pre[buffer_ptr] = a,
         spent <= buffer_ptr - 2, Pair(a % 100)
  PROVE  /\ Cells' /\ buffer_ptr' = buffer_ptr - 2
         /\ number_buffer'[buffer_ptr - 2] = 48 + ((a % 100) \div 10)
         /\ \E after : /\ Digits(number_buffer', after, buffer_ptr - 2)
                       /\ after[buffer_ptr - 2] = a \div 100
<1>. DEFINE p == buffer_ptr
            b == number_buffer
            d1 == (a % 100) \div 10
            d2 == (a % 100) % 10
            c == [b EXCEPT ![p - 2] = 48 + d1, ![p - 1] = 48 + d2]
            after == [i \in p - 2 .. Total |->
                        IF i = p - 2 THEN a \div 100 ELSE IF i = p - 1 THEN a \div 10 ELSE pre[i]]
<1>1. /\ d1 \in 0 .. 9 /\ d2 \in 0 .. 9
      /\ a \div 100 \in Nat /\ a \div 100 <= a /\ a \div 10 \in Nat /\ a \div 10 <= a
      /\ 10 * (a \div 10) + d2 = a /\ 10 * (a \div 100) + d1 = a \div 10
  BY Remainders
<1>2. /\ spent \in {0, 1} /\ Total \in Nat /\ Magnitude \in Nat /\ Total < NumberBuffer - 1
      /\ NumberBuffer \in Nat /\ (negative => spent = 1)
  BY Magnitudes
<1>3. /\ p \in spent .. Total /\ pre \in [p .. Total -> 0 .. Magnitude] /\ pre[Total] = Magnitude
      /\ \A i \in p .. Total - 1 : b[i] \in Digit /\ pre[i + 1] = 10 * pre[i] + (b[i] - 48)
  BY DEF Digits
<1>4. p \in Nat /\ p - 2 \in Nat /\ p - 1 \in Nat /\ p <= Total /\ spent <= p - 2 /\ p - 1 < NumberBuffer - 1
  BY <1>2, <1>3
<1>5. /\ number_buffer' = c /\ buffer_ptr' = p - 2
  BY DEF Pair
<1>6. /\ b \in [0 .. NumberBuffer - 1 -> Digit \cup {Unset, Minus}]
      /\ negative => b[0] = Minus
      /\ \A i \in spent .. p - 1 : b[i] = Unset
  BY DEF Cells
<1>7. a \in 0 .. Magnitude
  <2>1. p \in p .. Total
    BY <1>2, <1>4
  <2>. QED BY <1>3, <2>1
<1>. HIDE DEF p, b, d1, d2
<1>8. /\ DOMAIN c = 0 .. NumberBuffer - 1
      /\ c[p - 2] = 48 + d1 /\ c[p - 1] = 48 + d2
      /\ \A i \in 0 .. NumberBuffer - 1 : i # p - 2 /\ i # p - 1 => c[i] = b[i]
  BY <1>2, <1>4, <1>6
<1>9. c = [i \in 0 .. NumberBuffer - 1 |-> c[i]]
  BY <1>6
<1>. HIDE DEF c
<1>10. 48 + d1 \in Digit /\ 48 + d2 \in Digit
  BY <1>1 DEF Digit
<1>11. c \in [0 .. NumberBuffer - 1 -> Digit \cup {Unset, Minus}]
  <2>1. ASSUME NEW i \in 0 .. NumberBuffer - 1
        PROVE  c[i] \in Digit \cup {Unset, Minus}
    <3>1. CASE i = p - 2
      BY <1>8, <1>10, <3>1
    <3>2. CASE i = p - 1
      BY <1>8, <1>10, <3>2
    <3>3. CASE i # p - 2 /\ i # p - 1
      BY <1>6, <1>8, <3>3
    <3>. QED BY <3>1, <3>2, <3>3
  <2>. QED BY <1>9, <2>1
<1>12. negative => c[0] = Minus
  <2>. SUFFICES ASSUME negative PROVE c[0] = Minus
    OBVIOUS
  <2>1. 0 # p - 2 /\ 0 # p - 1 /\ 0 \in 0 .. NumberBuffer - 1
    BY <1>2, <1>4
  <2>. QED BY <1>6, <1>8, <2>1
<1>13. \A i \in spent .. p - 3 : c[i] = Unset
  BY <1>2, <1>4, <1>6, <1>8
<1>14. Cells'
  <2>1. (p - 2) - 1 = p - 3
    BY <1>4
  <2>2. negative' = negative /\ spent' = spent
    BY DEF negative, spent
  <2>. QED BY <1>5, <1>11, <1>12, <1>13, <2>1, <2>2 DEF Cells
<1>15. after \in [p - 2 .. Total -> 0 .. Magnitude]
  <2>1. ASSUME NEW i \in p - 2 .. Total
        PROVE  (IF i = p - 2 THEN a \div 100 ELSE IF i = p - 1 THEN a \div 10 ELSE pre[i])
                 \in 0 .. Magnitude
    <3>1. CASE i = p - 2 \/ i = p - 1
      <4>1. a \div 100 \in 0 .. Magnitude /\ a \div 10 \in 0 .. Magnitude
        BY <1>1, <1>2, <1>7
      <4>. QED BY <3>1, <4>1
    <3>2. CASE i # p - 2 /\ i # p - 1
      <4>1. i \in p .. Total
        BY <1>2, <1>4, <3>2
      <4>. QED BY <1>3, <3>2, <4>1
    <3>. QED BY <3>1, <3>2
  <2>. QED BY <2>1
<1>16. /\ after[p - 2] = a \div 100 /\ after[p - 1] = a \div 10
       /\ \A i \in p .. Total : after[i] = pre[i]
  BY <1>2, <1>4
<1>. HIDE DEF after
<1>17. after[Total] = Magnitude
  <2>1. Total \in p .. Total
    BY <1>2, <1>4
  <2>. QED BY <1>3, <1>16, <2>1
<1>18. ASSUME NEW i \in p - 2 .. Total - 1
       PROVE  c[i] \in Digit /\ after[i + 1] = 10 * after[i] + (c[i] - 48)
  <2>1. CASE i = p - 2
    <3>1. after[i + 1] = a \div 10 /\ after[i] = a \div 100 /\ c[i] = 48 + d1
      <4>1. i + 1 = p - 1
        BY <1>4, <2>1
      <4>. QED BY <1>8, <1>16, <2>1, <4>1
    <3>. QED BY <1>1, <1>10, <3>1
  <2>2. CASE i = p - 1
    <3>1. after[i + 1] = a /\ after[i] = a \div 10 /\ c[i] = 48 + d2
      <4>1. i + 1 = p /\ p \in p .. Total
        BY <1>2, <1>4, <2>2
      <4>2. after[p] = a
        BY <1>16, <4>1 DEF p
      <4>. QED BY <1>8, <1>16, <2>2, <4>1, <4>2
    <3>. QED BY <1>1, <1>10, <3>1
  <2>3. CASE i # p - 2 /\ i # p - 1
    <3>1. i \in p .. Total - 1 /\ i \in p .. Total /\ i + 1 \in p .. Total
          /\ i \in 0 .. NumberBuffer - 1
      BY <1>2, <1>4, <2>3
    <3>2. after[i] = pre[i] /\ after[i + 1] = pre[i + 1] /\ c[i] = b[i]
      BY <1>8, <1>16, <2>3, <3>1
    <3>3. b[i] \in Digit /\ pre[i + 1] = 10 * pre[i] + (b[i] - 48)
      BY <1>3, <3>1
    <3>. QED BY <3>2, <3>3
  <2>. QED BY <2>1, <2>2, <2>3
<1>19. Digits(c, after, p - 2)
  <2>1. p - 2 \in spent .. Total
    BY <1>2, <1>4
  <2>. QED BY <1>15, <1>17, <1>18, <2>1 DEF Digits
<1>20. number_buffer'[p - 2] = 48 + d1
  BY <1>5, <1>8
<1>. QED BY <1>5, <1>14, <1>16, <1>19, <1>20 DEF p, d1

LEMMA SingleDigit ==
  ASSUME number \in IntegerNumbers, number' = number, Cells,
         NEW pre, Digits(number_buffer, pre, buffer_ptr), NEW a \in 0 .. 9, pre[buffer_ptr] = a,
         spent <= buffer_ptr - 1, Single(a)
  PROVE  /\ Cells' /\ buffer_ptr' = buffer_ptr - 1
         /\ number_buffer'[buffer_ptr - 1] = 48 + a
         /\ \E after : /\ Digits(number_buffer', after, buffer_ptr - 1)
                       /\ after[buffer_ptr - 1] = 0
<1>. DEFINE p == buffer_ptr
            b == number_buffer
            c == [b EXCEPT ![p - 1] = 48 + a]
            after == [i \in p - 1 .. Total |-> IF i = p - 1 THEN 0 ELSE pre[i]]
<1>2. /\ spent \in {0, 1} /\ Total \in Nat /\ Magnitude \in Nat /\ Total < NumberBuffer - 1
      /\ NumberBuffer \in Nat /\ (negative => spent = 1)
  BY Magnitudes
<1>3. /\ p \in spent .. Total /\ pre \in [p .. Total -> 0 .. Magnitude] /\ pre[Total] = Magnitude
      /\ \A i \in p .. Total - 1 : b[i] \in Digit /\ pre[i + 1] = 10 * pre[i] + (b[i] - 48)
  BY DEF Digits
<1>4. p \in Nat /\ p - 1 \in Nat /\ p <= Total /\ spent <= p - 1 /\ p - 1 < NumberBuffer - 1
  BY <1>2, <1>3
<1>5. number_buffer' = c /\ buffer_ptr' = p - 1
  BY DEF Single
<1>6. /\ b \in [0 .. NumberBuffer - 1 -> Digit \cup {Unset, Minus}]
      /\ negative => b[0] = Minus
      /\ \A i \in spent .. p - 1 : b[i] = Unset
  BY DEF Cells
<1>. HIDE DEF p, b
<1>8. /\ DOMAIN c = 0 .. NumberBuffer - 1 /\ c[p - 1] = 48 + a
      /\ \A i \in 0 .. NumberBuffer - 1 : i # p - 1 => c[i] = b[i]
  BY <1>2, <1>4, <1>6
<1>9. c = [i \in 0 .. NumberBuffer - 1 |-> c[i]]
  BY <1>6
<1>. HIDE DEF c
<1>10. 48 + a \in Digit
  BY DEF Digit
<1>11. c \in [0 .. NumberBuffer - 1 -> Digit \cup {Unset, Minus}]
  <2>1. ASSUME NEW i \in 0 .. NumberBuffer - 1
        PROVE  c[i] \in Digit \cup {Unset, Minus}
    <3>1. CASE i = p - 1
      BY <1>8, <1>10, <3>1
    <3>2. CASE i # p - 1
      BY <1>6, <1>8, <3>2
    <3>. QED BY <3>1, <3>2
  <2>. QED BY <1>9, <2>1
<1>12. negative => c[0] = Minus
  <2>. SUFFICES ASSUME negative PROVE c[0] = Minus
    OBVIOUS
  <2>1. 0 # p - 1 /\ 0 \in 0 .. NumberBuffer - 1
    BY <1>2, <1>4
  <2>. QED BY <1>6, <1>8, <2>1
<1>13. \A i \in spent .. p - 2 : c[i] = Unset
  BY <1>2, <1>4, <1>6, <1>8
<1>14. Cells'
  <2>1. (p - 1) - 1 = p - 2
    BY <1>4
  <2>2. negative' = negative /\ spent' = spent
    BY DEF negative, spent
  <2>. QED BY <1>5, <1>11, <1>12, <1>13, <2>1, <2>2 DEF Cells
<1>15. after \in [p - 1 .. Total -> 0 .. Magnitude]
  <2>1. ASSUME NEW i \in p - 1 .. Total
        PROVE  (IF i = p - 1 THEN 0 ELSE pre[i]) \in 0 .. Magnitude
    <3>1. CASE i = p - 1
      BY <1>2, <3>1
    <3>2. CASE i # p - 1
      <4>1. i \in p .. Total
        BY <1>2, <1>4, <3>2
      <4>. QED BY <1>3, <3>2, <4>1
    <3>. QED BY <3>1, <3>2
  <2>. QED BY <2>1
<1>16. after[p - 1] = 0 /\ \A i \in p .. Total : after[i] = pre[i]
  BY <1>2, <1>4
<1>. HIDE DEF after
<1>17. after[Total] = Magnitude
  <2>1. Total \in p .. Total
    BY <1>2, <1>4
  <2>. QED BY <1>3, <1>16, <2>1
<1>18. ASSUME NEW i \in p - 1 .. Total - 1
       PROVE  c[i] \in Digit /\ after[i + 1] = 10 * after[i] + (c[i] - 48)
  <2>2. CASE i = p - 1
    <3>1. after[i + 1] = a /\ after[i] = 0 /\ c[i] = 48 + a
      <4>1. i + 1 = p /\ p \in p .. Total
        BY <1>2, <1>4, <2>2
      <4>2. after[p] = a
        BY <1>16, <4>1 DEF p
      <4>. QED BY <1>8, <1>16, <2>2, <4>1, <4>2
    <3>. QED BY <1>10, <3>1
  <2>3. CASE i # p - 1
    <3>1. i \in p .. Total - 1 /\ i \in p .. Total /\ i + 1 \in p .. Total
          /\ i \in 0 .. NumberBuffer - 1
      BY <1>2, <1>4, <2>3
    <3>2. after[i] = pre[i] /\ after[i + 1] = pre[i + 1] /\ c[i] = b[i]
      BY <1>8, <1>16, <2>3, <3>1
    <3>3. b[i] \in Digit /\ pre[i + 1] = 10 * pre[i] + (b[i] - 48)
      BY <1>3, <3>1
    <3>. QED BY <3>2, <3>3
  <2>. QED BY <2>2, <2>3
<1>19. Digits(c, after, p - 1)
  <2>1. p - 1 \in spent .. Total
    BY <1>2, <1>4
  <2>. QED BY <1>15, <1>17, <1>18, <2>1 DEF Digits
<1>20. number_buffer'[p - 1] = 48 + a
  BY <1>5, <1>8
<1>. QED BY <1>5, <1>14, <1>16, <1>19, <1>20 DEF p

LEMMA ConcatLength ==
  ASSUME NEW s \in Seq(Int), NEW t \in Seq(Int)
  PROVE  s \o t \in Seq(Int) /\ Len(s \o t) = Len(s) + Len(t) /\ Len(s) \in Nat /\ Len(t) \in Nat
  BY ConcatProperties, LenProperties

LEMMA ZerosLength ==
  ASSUME NEW n \in Nat
  PROVE  Zeros(n) \in Seq(Int) /\ Len(Zeros(n)) = n
  BY DEF Zeros

LEMMA ExponentLength ==
  ASSUME NEW e \in Int
  PROVE  append_exponent(e) \in Seq(Int) /\ Len(append_exponent(e)) <= 4
<1>. DEFINE k == IF e < 0 THEN -e ELSE e
            sign == <<IF e < 0 THEN Minus ELSE Plus>>
            digits == IF k < 100 THEN <<Decimal(k \div 10), Decimal(k)>>
                      ELSE <<48 + k \div 100, Decimal(k \div 10), Decimal(k)>>
<1>1. k \in Nat
  BY SMT
<1>2. \A n \in Nat : Decimal(n) \in Int
  BY DEF Decimal
<1>3. k \div 10 \in Nat /\ 48 + k \div 100 \in Int
  <2>. HIDE DEF k
  <2>. QED BY <1>1
<1>4. sign \in Seq(Int) /\ Len(sign) = 1
  BY DEF Minus, Plus
<1>5. digits \in Seq(Int) /\ Len(digits) <= 3
  <2>1. Decimal(k \div 10) \in Int /\ Decimal(k) \in Int
    BY <1>1, <1>2, <1>3
  <2>. HIDE DEF k
  <2>. QED BY <1>3, <2>1
<1>6. append_exponent(e) = sign \o digits
  BY DEF append_exponent
<1>. HIDE DEF k, sign, digits
<1>7. /\ sign \o digits \in Seq(Int) /\ Len(sign \o digits) = Len(sign) + Len(digits)
      /\ Len(digits) \in Nat
  BY <1>4, <1>5, ConcatLength
<1>. QED BY <1>4, <1>5, <1>6, <1>7

(* to_chars: max_digits10 digits and six bytes more, at most. *)
LEMMA FormatLength ==
  ASSUME NEW buf \in Seq(Int), Len(buf) \in 1 .. 17, NEW e \in Int
  PROVE  format_buffer(buf, e) \in Seq(Int) /\ Len(format_buffer(buf, e)) <= 23
<1>. DEFINE k == Len(buf)
            n == k + e
            f == format_buffer(buf, e)
            A == buf \o Zeros(n - k) \o <<Dot, 48>>
            B == SubSeq(buf, 1, n) \o <<Dot>> \o SubSeq(buf, n + 1, k)
            C == <<48, Dot>> \o Zeros(-n) \o buf
            D == SubSeq(buf, 1, 1) \o (IF k = 1 THEN <<>> ELSE <<Dot>> \o Tail(buf))
                      \o <<101>> \o append_exponent(n - 1)
<1>1. f = CASE k <= n /\ n <= 15 -> A
            [] 0 < n /\ n < k /\ n <= 15 -> B
            [] -4 < n /\ n <= 0 -> C
            [] OTHER -> D
  BY DEF format_buffer, kMinExp, kMaxExp
<1>2. k \in 1 .. 17 /\ n \in Int
  OBVIOUS
<1>3. CASE k <= n /\ n <= 15
  <2>1. f = A
    <3>1. ~(0 < n /\ n < k /\ n <= 15) /\ ~(-4 < n /\ n <= 0)
      <4>. HIDE DEF n, k
      <4>. QED BY <1>2, <1>3
    <3>. HIDE DEF f, A, B, C, D, n, k
    <3>. QED BY <1>1, <1>3, <3>1, Zenon
  <2>2. n - k \in Nat /\ n - k <= 14 /\ n - k + k <= 15
    <3>. HIDE DEF n, k
    <3>. QED BY <1>2, <1>3
  <2>3. Zeros(n - k) \in Seq(Int) /\ Len(Zeros(n - k)) = n - k
    BY <2>2, ZerosLength
  <2>4. <<Dot, 48>> \in Seq(Int) /\ Len(<<Dot, 48>>) = 2
    BY DEF Dot
  <2>5. buf \o Zeros(n - k) \in Seq(Int) /\ Len(buf \o Zeros(n - k)) = k + (n - k)
    BY <2>3, ConcatLength
  <2>6. A \in Seq(Int) /\ Len(A) = k + (n - k) + 2
    BY <2>4, <2>5, ConcatLength
  <2>. HIDE DEF f, A, n, k
  <2>. QED BY <1>2, <2>1, <2>2, <2>6 DEF f
<1>4. CASE 0 < n /\ n < k /\ n <= 15
  <2>1. f = B
    <3>1. ~(k <= n /\ n <= 15) /\ ~(-4 < n /\ n <= 0)
      <4>. HIDE DEF n, k
      <4>. QED BY <1>2, <1>4
    <3>. HIDE DEF f, A, B, C, D, n, k
    <3>. QED BY <1>1, <1>4, <3>1, Zenon
  <2>2. n \in 1 .. k /\ n + 1 \in 1 .. k
    <3>. HIDE DEF n, k
    <3>. QED BY <1>2, <1>4
  <2>3. SubSeq(buf, 1, n) \in Seq(Int) /\ Len(SubSeq(buf, 1, n)) = n
    <3>1. \A i \in 1 .. n : buf[i] \in Int
      <4>1. \A i \in 1 .. k : buf[i] \in Int
        OBVIOUS
      <4>. HIDE DEF n, k
      <4>. QED BY <1>2, <2>2, <4>1
    <3>. HIDE DEF n
    <3>. QED BY <1>2, <2>2, <3>1, SubSeqProperties
  <2>4. SubSeq(buf, n + 1, k) \in Seq(Int) /\ Len(SubSeq(buf, n + 1, k)) = k - n
    <3>. DEFINE m == n + 1
    <3>1. \A i \in 1 .. k : buf[i] \in Int
      OBVIOUS
    <3>. HIDE DEF n, k
    <3>2. m \in Int /\ k \in Int /\ m <= k /\ k - m + 1 = k - n
      BY <1>2, <2>2
    <3>3. \A i \in m .. k : buf[i] \in Int
      BY <1>2, <2>2, <3>1
    <3>. HIDE DEF m
    <3>4. SubSeq(buf, m, k) \in Seq(Int) /\ Len(SubSeq(buf, m, k)) = k - m + 1
      BY <3>2, <3>3, SubSeqProperties
    <3>. QED BY <3>2, <3>4 DEF m
  <2>5. <<Dot>> \in Seq(Int) /\ Len(<<Dot>>) = 1
    BY DEF Dot
  <2>6. SubSeq(buf, 1, n) \o <<Dot>> \in Seq(Int) /\ Len(SubSeq(buf, 1, n) \o <<Dot>>) = n + 1
    BY <2>3, <2>5, ConcatLength
  <2>7. B \in Seq(Int) /\ Len(B) = n + 1 + (k - n)
    BY <2>4, <2>6, ConcatLength
  <2>. HIDE DEF f, B, n, k
  <2>. QED BY <1>2, <2>1, <2>2, <2>7 DEF f
<1>5. CASE -4 < n /\ n <= 0
  <2>1. f = C
    <3>1. ~(k <= n /\ n <= 15) /\ ~(0 < n /\ n < k /\ n <= 15)
      <4>. HIDE DEF n, k
      <4>. QED BY <1>2, <1>5
    <3>. HIDE DEF f, A, B, C, D, n, k
    <3>. QED BY <1>1, <1>5, <3>1, Zenon
  <2>2. -n \in Nat /\ -n <= 3
    <3>. HIDE DEF n, k
    <3>. QED BY <1>2, <1>5
  <2>3. Zeros(-n) \in Seq(Int) /\ Len(Zeros(-n)) = -n
    BY <2>2, ZerosLength
  <2>4. <<48, Dot>> \in Seq(Int) /\ Len(<<48, Dot>>) = 2
    BY DEF Dot
  <2>5. <<48, Dot>> \o Zeros(-n) \in Seq(Int) /\ Len(<<48, Dot>> \o Zeros(-n)) = 2 + (-n)
    BY <2>3, <2>4, ConcatLength
  <2>6. C \in Seq(Int) /\ Len(C) = 2 + (-n) + k
    BY <2>5, ConcatLength
  <2>. HIDE DEF f, C, n, k
  <2>. QED BY <1>2, <2>1, <2>2, <2>6 DEF f
<1>6. CASE ~(k <= n /\ n <= 15) /\ ~(0 < n /\ n < k /\ n <= 15) /\ ~(-4 < n /\ n <= 0)
  <2>1. f = D
    <3>. HIDE DEF f, A, B, C, D, n, k
    <3>. QED BY <1>1, <1>6, Zenon
  <2>. DEFINE rest == IF k = 1 THEN <<>> ELSE <<Dot>> \o Tail(buf)
              front == SubSeq(buf, 1, 1)
  <2>2. front \in Seq(Int) /\ Len(front) = 1
    BY <1>2, SubSeqProperties
  <2>3. rest \in Seq(Int) /\ Len(rest) <= k
    <3>1. CASE k = 1
      <4>1. <<>> \in Seq(Int) /\ Len(<<>>) = 0
        OBVIOUS
      <4>. QED BY <3>1, <4>1
    <3>2. CASE k # 1
      <4>1. Tail(buf) \in Seq(Int) /\ Len(Tail(buf)) = k - 1
        <5>1. buf # <<>>
          BY <1>2
        <5>. QED BY <5>1, HeadTailProperties
      <4>2. <<Dot>> \in Seq(Int) /\ Len(<<Dot>>) = 1
        BY DEF Dot
      <4>3. <<Dot>> \o Tail(buf) \in Seq(Int) /\ Len(<<Dot>> \o Tail(buf)) = 1 + (k - 1)
        BY <4>1, <4>2, ConcatLength
      <4>. HIDE DEF k
      <4>. QED BY <1>2, <3>2, <4>3
    <3>. QED BY <3>1, <3>2
  <2>4. <<101>> \in Seq(Int) /\ Len(<<101>>) = 1
    OBVIOUS
  <2>5. append_exponent(n - 1) \in Seq(Int) /\ Len(append_exponent(n - 1)) <= 4
    <3>1. n - 1 \in Int
      BY <1>2
    <3>. HIDE DEF n
    <3>. QED BY <3>1, ExponentLength
  <2>6. D = ((front \o rest) \o <<101>>) \o append_exponent(n - 1)
    <3>. HIDE DEF n, k
    <3>. QED OBVIOUS
  <2>. HIDE DEF front, rest, D, n
  <2>7. front \o rest \in Seq(Int) /\ Len(front \o rest) = 1 + Len(rest) /\ Len(rest) \in Nat
    BY <2>2, <2>3, ConcatLength
  <2>. DEFINE start == front \o rest
  <2>. HIDE DEF start
  <2>8. start \o <<101>> \in Seq(Int) /\ Len(start \o <<101>>) = Len(start) + 1
    BY <2>4, <2>7, ConcatLength DEF start
  <2>9. D \in Seq(Int) /\ Len(D) = Len(start \o <<101>>) + Len(append_exponent(n - 1))
        /\ Len(append_exponent(n - 1)) \in Nat
    BY <2>5, <2>6, <2>8, ConcatLength DEF start
  <2>10. Len(D) <= 23
    <3>1. Len(start) = 1 + Len(rest)
      BY <2>7 DEF start
    <3>. DEFINE last == Len(append_exponent(n - 1))
                middle == Len(rest)
    <3>2. /\ Len(D) = 1 + middle + 1 + last /\ middle \in Nat /\ last \in Nat
          /\ middle <= k /\ last <= 4
      BY <2>3, <2>5, <2>7, <2>8, <2>9, <3>1
    <3>. HIDE DEF last, middle, k
    <3>. QED BY <1>2, <3>2
  <2>. QED BY <2>1, <2>9, <2>10
<1>. HIDE DEF n, k
<1>. QED BY <1>2, <1>3, <1>4, <1>5, <1>6

LEMMA FloatStep ==
  ASSUME number \in FloatNumbers, DumpFloat
  PROVE  /\ written' \in Seq(Int) /\ Len(written') <= NumberBuffer
         /\ UNCHANGED <<number, buffer_ptr>>
<1>. DEFINE sign == IF number.signbit THEN <<Minus>> ELSE <<>>
            ds == number.digits
            rest == IF ds = <<>> THEN <<48, Dot, 48>> ELSE format_buffer(ds, number.exponent)
<1>1. written' = sign \o rest /\ UNCHANGED <<number, buffer_ptr>>
  BY DEF DumpFloat
<1>2. sign \in Seq(Int) /\ Len(sign) <= 1
  BY DEF Minus
<1>3. (ds \in DigitTexts /\ number.exponent \in Exponents10) \/ ds = <<>>
  BY DEF FloatNumbers
<1>4. rest \in Seq(Int) /\ Len(rest) <= 23
  <2>1. CASE ds = <<>>
    <3>1. <<48, Dot, 48>> \in Seq(Int) /\ Len(<<48, Dot, 48>>) = 3
      BY DEF Dot
    <3>. QED BY <2>1, <3>1
  <2>2. CASE ds # <<>>
    <3>1. ds \in Seq(48 .. 57) /\ Len(ds) \in 1 .. 17 /\ number.exponent \in Int
      <4>1. ds \in DigitTexts /\ number.exponent \in Exponents10
        BY <1>3, <2>2
      <4>. HIDE DEF ds
      <4>2. ds \in Seq(48 .. 57) /\ Len(ds) \in 1 .. 17
        BY <4>1, DigitsAssumption
      <4>3. number.exponent \in Int
        BY <4>1, DigitsAssumption, Zenon
      <4>. QED BY <4>2, <4>3
    <3>2. ds \in Seq(Int)
      <4>1. 48 .. 57 \subseteq Int
        OBVIOUS
      <4>. QED BY <3>1, <4>1, SeqMonotonic
    <3>. HIDE DEF ds
    <3>. QED BY <2>2, <3>1, <3>2, FormatLength
  <2>. QED BY <2>1, <2>2
<1>. HIDE DEF sign, rest
<1>5. /\ sign \o rest \in Seq(Int) /\ Len(sign \o rest) = Len(sign) + Len(rest)
      /\ Len(sign) \in Nat /\ Len(rest) \in Nat
  BY <1>2, <1>4, ConcatLength
<1>6. NumberBuffer \in Nat /\ 24 <= NumberBuffer
  BY NumberBufferAssumption
<1>. QED BY <1>1, <1>2, <1>4, <1>5, <1>6

LEMMA StillDigits ==
  ASSUME number' = number, NEW after, Digits(number_buffer', after, buffer_ptr')
  PROVE  Digits(number_buffer, after, buffer_ptr)'
<1>1. negative' = negative /\ spent' = spent
  BY DEF negative, spent
<1>2. Magnitude' = Magnitude /\ Total' = Total
  BY <1>1 DEF Magnitude, Total
<1>. QED BY <1>1, <1>2 DEF Digits

LEMMA BeginStep ==
  ASSUME number \in IntegerNumbers, NotBegun, DumpInteger
  PROVE  Placing' /\ number' = number
<1>1. /\ spent \in {0, 1} /\ Total \in Nat /\ Magnitude \in Nat /\ Total < NumberBuffer - 1
      /\ spent < Total /\ NumberBuffer \in Nat /\ (negative <=> spent = 1)
      /\ negative \in BOOLEAN
      /\ negative => remove_sign(number.value) = Magnitude
      /\ ~negative => Magnitude = number.value
      /\ number.value # 0 => Magnitude >= 1
  BY Magnitudes
<1>2. /\ number' = number /\ written' = written /\ number.value # 0
      /\ abs_value' = IF negative THEN remove_sign(number.value) ELSE number.value
      /\ buffer_ptr' = spent + count_digits[abs_value']
      /\ number_buffer' = IF negative THEN [number_buffer EXCEPT ![0] = Minus] ELSE number_buffer
  BY DEF DumpInteger
<1>3. abs_value' = Magnitude /\ Magnitude >= 1
  BY <1>1, <1>2
<1>4. buffer_ptr' = Total
  BY <1>2, <1>3 DEF Total
<1>5. number_buffer = [i \in 0 .. NumberBuffer - 1 |-> Unset] /\ written = <<>>
  BY DEF NotBegun
<1>6. negative' = negative /\ spent' = spent /\ Total' = Total /\ Magnitude' = Magnitude
  BY <1>2 DEF negative, spent, Total, Magnitude
<1>. DEFINE c == number_buffer'
<1>7. /\ c \in [0 .. NumberBuffer - 1 -> Digit \cup {Unset, Minus}]
      /\ negative => c[0] = Minus
      /\ \A i \in spent .. Total - 1 : c[i] = Unset
  <2>1. CASE negative
    <3>1. c = [[i \in 0 .. NumberBuffer - 1 |-> Unset] EXCEPT ![0] = Minus]
      BY <1>2, <1>5, <2>1
    <3>2. 0 \in 0 .. NumberBuffer - 1 /\ spent = 1
      BY <1>1, <2>1
    <3>. HIDE DEF c
    <3>3. c \in [0 .. NumberBuffer - 1 -> Digit \cup {Unset, Minus}] /\ c[0] = Minus
      BY <3>1, <3>2
    <3>4. ASSUME NEW i \in spent .. Total - 1 PROVE c[i] = Unset
      <4>1. i # 0 /\ i \in 0 .. NumberBuffer - 1
        BY <1>1, <3>2
      <4>. QED BY <3>1, <4>1
    <3>. QED BY <3>3, <3>4
  <2>2. CASE ~negative
    <3>1. c = [i \in 0 .. NumberBuffer - 1 |-> Unset]
      BY <1>2, <1>5, <2>2
    <3>. HIDE DEF c
    <3>2. ASSUME NEW i \in spent .. Total - 1 PROVE c[i] = Unset
      <4>1. i \in 0 .. NumberBuffer - 1
        BY <1>1
      <4>. QED BY <3>1, <4>1
    <3>. QED BY <2>2, <3>1, <3>2
  <2>. QED BY <1>1, <2>1, <2>2
<1>. DEFINE pre == [i \in Total .. Total |-> Magnitude]
<1>8. Digits(c, pre, Total) /\ pre[Total] = Magnitude
  <2>1. Total \in spent .. Total /\ Total .. Total - 1 = {} /\ Magnitude \in 0 .. Magnitude
        /\ Total \in Total .. Total
    BY <1>1
  <2>2. pre \in [Total .. Total -> 0 .. Magnitude] /\ pre[Total] = Magnitude
    BY <2>1
  <2>. HIDE DEF c, pre
  <2>. QED BY <2>1, <2>2 DEF Digits
<1>9. PICK after : Digits(number_buffer', after, buffer_ptr') /\ after[buffer_ptr'] = abs_value'
  <2>. HIDE DEF pre
  <2>1. Digits(number_buffer', pre, buffer_ptr') /\ pre[buffer_ptr'] = abs_value'
    BY <1>3, <1>4, <1>8
  <2>. QED BY <2>1
<1>10. Cells'
  <2>1. /\ number_buffer' \in [0 .. NumberBuffer - 1 -> Digit \cup {Unset, Minus}]
        /\ negative' => number_buffer'[0] = Minus
        /\ \A i \in spent' .. buffer_ptr' - 1 : number_buffer'[i] = Unset
    BY <1>4, <1>6, <1>7
  <2>. QED BY <2>1 DEF Cells
<1>. HIDE DEF c, pre
<1>11. (\E f : Digits(number_buffer, f, buffer_ptr) /\ f[buffer_ptr] = abs_value)'
  BY <1>2, <1>9, StillDigits
<1>12. written' = <<>> /\ number'.value # 0 /\ abs_value' \in Nat /\ abs_value' >= 1
       /\ buffer_ptr' = spent' + count_digits[abs_value']
  BY <1>1, <1>2, <1>3, <1>5, <1>6
<1>. QED BY <1>2, <1>10, <1>11, <1>12 DEF Placing

LEMMA PairStep ==
  ASSUME number \in IntegerNumbers, Placing, DumpPair
  PROVE  Placing' /\ number' = number
<1>1. /\ number' = number /\ written' = written /\ abs_value >= 100
      /\ Pair(abs_value % 100) /\ abs_value' = abs_value \div 100
  BY DEF DumpPair
<1>2. /\ Cells /\ written = <<>> /\ number.value # 0
      /\ abs_value \in Nat /\ buffer_ptr = spent + count_digits[abs_value]
  BY DEF Placing
<1>3. PICK pre : Digits(number_buffer, pre, buffer_ptr) /\ pre[buffer_ptr] = abs_value
  BY DEF Placing
<1>4. /\ abs_value \div 100 \in Nat /\ abs_value \div 100 >= 1
      /\ count_digits[abs_value] = 2 + count_digits[abs_value \div 100]
      /\ count_digits[abs_value \div 100] \in Nat
  BY <1>1, <1>2, Quotients, CountPair, CountPositive
<1>5. spent \in {0, 1}
  BY DEF spent
<1>6. spent <= buffer_ptr - 2 /\ buffer_ptr - 2 = spent + count_digits[abs_value \div 100]
  BY <1>2, <1>4, <1>5
<1>7. /\ Cells' /\ buffer_ptr' = buffer_ptr - 2
      /\ \E after : /\ Digits(number_buffer', after, buffer_ptr - 2)
                    /\ after[buffer_ptr - 2] = abs_value \div 100
  BY <1>1, <1>2, <1>3, <1>6, PairDigits
<1>8. PICK after : /\ Digits(number_buffer', after, buffer_ptr')
                   /\ after[buffer_ptr'] = abs_value'
  BY <1>1, <1>7
<1>9. (\E f : Digits(number_buffer, f, buffer_ptr) /\ f[buffer_ptr] = abs_value)'
  BY <1>1, <1>8, StillDigits
<1>10. spent' = spent
  BY <1>1 DEF spent, negative
<1>11. written' = <<>> /\ number'.value # 0 /\ abs_value' \in Nat /\ abs_value' >= 1
       /\ buffer_ptr' = spent' + count_digits[abs_value']
  BY <1>1, <1>2, <1>4, <1>6, <1>7, <1>10
<1>. QED BY <1>1, <1>7, <1>9, <1>11 DEF Placing

LEMMA LastStep ==
  ASSUME number \in IntegerNumbers, Placing, DumpLast
  PROVE  Placed' /\ number' = number
<1>1. /\ number' = number /\ abs_value < 100
      /\ abs_value >= 10 => Pair(abs_value)
      /\ ~(abs_value >= 10) => Single(abs_value)
      /\ written' = [i \in 1 .. spent + count_digits[IF negative THEN remove_sign(number.value)
                                                     ELSE number.value] |-> number_buffer'[i - 1]]
  BY DEF DumpLast
<1>2. /\ Cells /\ written = <<>> /\ number.value # 0
      /\ abs_value \in Nat /\ abs_value >= 1 /\ buffer_ptr = spent + count_digits[abs_value]
  BY DEF Placing
<1>3. PICK pre : Digits(number_buffer, pre, buffer_ptr) /\ pre[buffer_ptr] = abs_value
  BY DEF Placing
<1>4. written' = [i \in 1 .. Total |-> number_buffer'[i - 1]]
  <2>1. (IF negative THEN remove_sign(number.value) ELSE number.value) = Magnitude
    BY Magnitudes
  <2>. QED BY <1>1, <2>1 DEF Total
<1>5. spent \in {0, 1} /\ spent' = spent /\ Total' = Total
  BY <1>1 DEF spent, negative, Total, Magnitude
<1>6. /\ Cells' /\ buffer_ptr' = spent /\ number_buffer'[spent] # 48
      /\ \E after : Digits(number_buffer', after, spent) /\ after[spent] = 0
  <2>1. CASE abs_value >= 10
    <3>1. /\ abs_value % 100 = abs_value /\ abs_value \div 100 = 0
          /\ abs_value \div 10 \in Nat /\ abs_value \div 10 # 0
      BY <1>1, <1>2, <2>1
    <3>2. count_digits[abs_value] = 2
      BY <1>1, <1>2, <2>1, CountSmall
    <3>3. buffer_ptr - 2 = spent /\ spent <= buffer_ptr - 2
      BY <1>2, <1>5, <3>2
    <3>4. /\ Cells' /\ buffer_ptr' = buffer_ptr - 2
          /\ number_buffer'[buffer_ptr - 2] = 48 + ((abs_value % 100) \div 10)
          /\ \E after : /\ Digits(number_buffer', after, buffer_ptr - 2)
                        /\ after[buffer_ptr - 2] = abs_value \div 100
      BY <1>1, <1>2, <1>3, <2>1, <3>1, <3>3, PairDigits
    <3>5. number_buffer'[spent] = 48 + abs_value \div 10
      BY <3>1, <3>3, <3>4
    <3>6. number_buffer'[spent] # 48
      BY <3>1, <3>5
    <3>. QED BY <3>1, <3>3, <3>4, <3>6
  <2>2. CASE ~(abs_value >= 10)
    <3>1. abs_value \in 0 .. 9
      BY <1>2, <2>2
    <3>2. count_digits[abs_value] = 1
      BY <1>2, <2>2, CountSmall
    <3>3. buffer_ptr - 1 = spent /\ spent <= buffer_ptr - 1
      BY <1>2, <1>5, <3>2
    <3>4. /\ Cells' /\ buffer_ptr' = buffer_ptr - 1
          /\ number_buffer'[buffer_ptr - 1] = 48 + abs_value
          /\ \E after : /\ Digits(number_buffer', after, buffer_ptr - 1)
                        /\ after[buffer_ptr - 1] = 0
      BY <1>1, <1>2, <1>3, <2>2, <3>1, <3>3, SingleDigit
    <3>5. number_buffer'[spent] = 48 + abs_value
      BY <3>3, <3>4
    <3>6. number_buffer'[spent] # 48
      BY <1>2, <3>5
    <3>. QED BY <3>3, <3>4, <3>6
  <2>. QED BY <2>1, <2>2
<1>7. PICK after : /\ Digits(number_buffer', after, buffer_ptr')
                   /\ after[buffer_ptr'] = 0
  BY <1>6
<1>8. Digits(number_buffer, after, buffer_ptr)'
  BY <1>1, <1>7, StillDigits
<1>9. (\E f : Digits(number_buffer, f, spent) /\ f[spent] = 0)'
  BY <1>5, <1>6, <1>7, <1>8
<1>. QED BY <1>1, <1>2, <1>4, <1>5, <1>6, <1>9 DEF Placed

LEMMA NumberStart ==
  ASSUME NoNumber \/ NumberInit
  PROVE  NumberInv
<1>1. <<>> \in Seq(Int) /\ Len(<<>>) = 0 /\ NumberBuffer \in Nat
  BY NumberBufferAssumption
<1>2. Len(<<>>) <= NumberBuffer
  BY <1>1
<1>. QED BY <1>2 DEF NoNumber, NumberInit, NumberInv, NotBegun

LEMMA NumberStep ==
  ASSUME NumberInv, NumberNext, number.type # "none"
  PROVE  NumberInv' /\ number' = number
<1>1. CASE number \in FloatNumbers /\ buffer_ptr = Unset
  <2>1. number.type = "float"
    BY <1>1, Types
  <2>2. DumpFloat
    BY <1>1, <2>1 DEF NumberNext, DumpZero, DumpInteger, DumpPair, DumpLast
  <2>. QED BY <1>1, <2>2, FloatStep DEF NumberInv
<1>2. CASE number \in IntegerNumbers /\ (NotBegun \/ ZeroWritten \/ Placing \/ Placed)
  <2>1. number.type # "float" /\ ~DumpFloat
    BY <1>2, Types DEF DumpFloat
  <2>2. CASE NotBegun
    <3>1. DumpZero \/ DumpInteger
      BY <2>1, <2>2 DEF NumberNext, DumpPair, DumpLast, NotBegun
    <3>2. CASE DumpZero
      <4>1. ZeroWritten' /\ number' = number
        BY <2>2, <3>2 DEF DumpZero, ZeroWritten, NotBegun
      <4>. QED BY <1>2, <4>1 DEF NumberInv
    <3>3. CASE DumpInteger
      BY <1>2, <2>2, <3>3, BeginStep DEF NumberInv
    <3>. QED BY <3>1, <3>2, <3>3
  <2>3. CASE ZeroWritten
    BY <2>1, <2>3 DEF NumberNext, DumpZero, DumpInteger, DumpPair, DumpLast, ZeroWritten
  <2>4. CASE Placing
    <3>1. buffer_ptr # Unset /\ number.value # 0
      <4>1. spent \in {0, 1} /\ count_digits[abs_value] \in Nat
        BY <2>4, CountPositive DEF Placing, spent
      <4>2. buffer_ptr \in Nat
        BY <2>4, <4>1 DEF Placing
      <4>. QED BY <2>4, <4>2 DEF Placing, Unset
    <3>2. DumpPair \/ DumpLast
      BY <2>1, <3>1 DEF NumberNext, DumpZero, DumpInteger
    <3>. QED BY <1>2, <2>4, <3>2, PairStep, LastStep DEF NumberInv
  <2>5. CASE Placed
    <3>1. buffer_ptr # Unset /\ number.value # 0
      <4>1. spent \in {0, 1}
        BY DEF spent
      <4>. QED BY <2>5, <4>1 DEF Placed, Unset
    <3>2. written # <<>>
      <4>1. Total \in Nat /\ Total > 0
        BY <1>2, Magnitudes
      <4>2. 1 \in DOMAIN written
        BY <2>5, <4>1 DEF Placed
      <4>. QED BY <4>2
    <3>. QED BY <2>1, <3>1, <3>2 DEF NumberNext, DumpZero, DumpInteger, DumpPair, DumpLast
  <2>. QED BY <1>2, <2>2, <2>3, <2>4, <2>5
<1>3. CASE number = [type |-> "none"]
  BY <1>3
<1>. QED BY <1>1, <1>2, <1>3 DEF NumberInv

LEMMA PlacedInBuffer ==
  ASSUME NumberInv
  PROVE  NumberPlaced
<1>1. NumberBuffer \in Nat /\ 1 <= NumberBuffer
  BY NumberBufferAssumption
<1>2. CASE buffer_ptr = Unset
  <2>1. Len(written) <= NumberBuffer
    <3>1. Len(<<>>) = 0 /\ Len(<<48>>) = 1
      OBVIOUS
    <3>2. written \in {<<>>, <<48>>} \/ Len(written) <= NumberBuffer
      <4>1. ~Placing
        <5>1. ASSUME Placing PROVE FALSE
          <6>1. spent \in {0, 1} /\ count_digits[abs_value] \in Nat
            BY <5>1, CountPositive DEF Placing, spent
          <6>2. buffer_ptr \in Nat
            BY <5>1, <6>1 DEF Placing
          <6>. QED BY <1>2, <6>2 DEF Unset
        <5>. QED BY <5>1
      <4>2. ~Placed
        BY <1>2 DEF Placed, spent, Unset
      <4>. QED BY <4>1, <4>2 DEF NumberInv, NotBegun, ZeroWritten
    <3>3. CASE written = <<>>
      BY <1>1, <3>1, <3>3
    <3>4. CASE written = <<48>>
      BY <1>1, <3>1, <3>4
    <3>. QED BY <3>2, <3>3, <3>4
  <2>. QED BY <1>2, <2>1 DEF NumberPlaced
<1>3. CASE buffer_ptr # Unset
  <2>1. number \in IntegerNumbers /\ (Placing \/ Placed)
    BY <1>3 DEF NumberInv, NotBegun, ZeroWritten
  <2>2. /\ spent \in {0, 1} /\ Total \in Nat /\ Total < NumberBuffer - 1
        /\ (negative <=> spent = 1)
    BY <2>1, Magnitudes
  <2>3. Cells
    BY <2>1 DEF Placing, Placed
  <2>4. CASE Placing
    <3>1. buffer_ptr \in spent .. Total
      BY <2>4 DEF Placing, Digits
    <3>2. Len(<<>>) = 0
      OBVIOUS
    <3>. QED BY <1>1, <2>2, <2>3, <2>4, <3>1, <3>2 DEF NumberPlaced, Placing, Cells
  <2>5. CASE Placed
    <3>1. written = [i \in 1 .. Total |-> number_buffer[i - 1]] /\ buffer_ptr = spent
      BY <2>5 DEF Placed
    <3>2. Len(written) = Total
      BY <2>2, <3>1
    <3>3. ASSUME NEW i \in 1 .. Total PROVE number_buffer[i - 1] # Unset
      <4>1. PICK pre : Digits(number_buffer, pre, spent)
        BY <2>5 DEF Placed
      <4>2. CASE i - 1 \in spent .. Total - 1
        <5>. DEFINE j == i - 1
        <5>1. number_buffer[j] \in Digit
          BY <4>1, <4>2 DEF Digits
        <5>. HIDE DEF j
        <5>2. number_buffer[j] # Unset
          BY <5>1 DEF Digit, Unset
        <5>. QED BY <5>2 DEF j
      <4>3. CASE i - 1 \notin spent .. Total - 1
        <5>1. i - 1 = 0 /\ spent = 1
          BY <2>2, <4>3
        <5>2. number_buffer[0] = Minus
          BY <2>2, <2>3, <5>1 DEF Cells
        <5>. QED BY <5>1, <5>2 DEF Minus, Unset
      <4>. QED BY <4>2, <4>3
    <3>4. Unset \notin Range(written)
      BY <3>1, <3>3 DEF Range
    <3>. QED BY <1>1, <2>2, <2>3, <3>1, <3>2, <3>4 DEF NumberPlaced, Cells
  <2>. QED BY <2>1, <2>4, <2>5
<1>. QED BY <1>2, <1>3

LEMMA NumberKept ==
  ASSUME NumberInv, [TextNext]_textVars
  PROVE  NumberInv'
<1>1. CASE UNCHANGED numberVars
  <2>1. UNCHANGED <<number, abs_value, buffer_ptr, number_buffer, written>>
    BY <1>1 DEF numberVars
  <2>2. UNCHANGED <<negative, spent, Magnitude, Total>>
    BY <2>1 DEF negative, spent, Magnitude, Total
  <2>3. UNCHANGED <<NotBegun, ZeroWritten, Cells>>
    BY <2>1, <2>2 DEF NotBegun, ZeroWritten, Cells
  <2>4. Placing => Placing'
    <3>. SUFFICES ASSUME Placing PROVE Placing'
      OBVIOUS
    <3>1. PICK pre : Digits(number_buffer, pre, buffer_ptr) /\ pre[buffer_ptr] = abs_value
      BY DEF Placing
    <3>2. Digits(number_buffer, pre, buffer_ptr)'
      BY <2>1, <3>1, StillDigits
    <3>. QED BY <2>1, <2>2, <2>3, <3>1, <3>2 DEF Placing
  <2>5. Placed => Placed'
    <3>. SUFFICES ASSUME Placed PROVE Placed'
      OBVIOUS
    <3>1. PICK pre : Digits(number_buffer, pre, buffer_ptr) /\ pre[buffer_ptr] = 0
      BY DEF Placed
    <3>2. Digits(number_buffer, pre, buffer_ptr)'
      BY <2>1, <3>1, StillDigits
    <3>. QED BY <2>1, <2>2, <2>3, <3>1, <3>2 DEF Placed
  <2>. QED BY <2>1, <2>3, <2>4, <2>5 DEF NumberInv
<1>2. CASE DumpNumber
  BY <1>2, NumberStep DEF DumpNumber
<1>. QED BY <1>1, <1>2 DEF TextNext, DumpString, ReadText, textVars

(* Of every number: its digits are put where number_buffer has room, the   *)
(* last at the end that count_digits foresaw and the first just after the  *)
(* sign, and what is written has no place that was left out.               *)
THEOREM NumbersPlaced == TextSpec => []NumberPlaced
<1>1. TextInit => NumberInv
  BY NumberStart DEF TextInit
<1>2. NumberInv /\ [TextNext]_textVars => NumberInv'
  BY NumberKept
<1>. QED BY <1>1, <1>2, PlacedInBuffer, PTL DEF TextSpec
=============================================================================
