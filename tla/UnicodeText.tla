----------------------------- MODULE UnicodeText ----------------------------
(***************************************************************************)
(* What is UTF-8 (RFC 3629), against which the decoders of the library are *)
(* checked: a character is the shortest form of a scalar value, and a text *)
(* is any number of characters.                                            *)
(***************************************************************************)
EXTENDS Sequences, Integers

IsScalar(cp) == cp \in Nat /\ (cp < 55296 \/ (57344 <= cp /\ cp < 1114112))

(* The number that bytes of the form of n bytes carry, shortest or not. *)
Carried(s) ==
  LET low(i) == s[i] - 128
      tailed == \A i \in 2 .. Len(s) : s[i] \in 128 .. 191
  IN  IF ~tailed THEN -1
      ELSE IF Len(s) = 1 /\ s[1] < 128 THEN s[1]
      ELSE IF Len(s) = 2 /\ s[1] \in 192 .. 223 THEN (s[1] - 192) * 64 + low(2)
      ELSE IF Len(s) = 3 /\ s[1] \in 224 .. 239
      THEN (s[1] - 224) * 4096 + low(2) * 64 + low(3)
      ELSE IF Len(s) = 4 /\ s[1] \in 240 .. 247
      THEN (s[1] - 240) * 262144 + low(2) * 4096 + low(3) * 64 + low(4)
      ELSE -1

Shortest(s) ==
  IF Len(s) = 1 THEN 0 ELSE IF Len(s) = 2 THEN 128 ELSE IF Len(s) = 3 THEN 2048 ELSE 65536

IsUtf8(s) == s # <<>> /\ IsScalar(Carried(s)) /\ Carried(s) >= Shortest(s)

(* The places where a text may be cut so that each piece is a character:   *)
(* from every cut but the last, one character leads to another cut.        *)
Cuts(s) ==
  {cuts \in SUBSET (0 .. Len(s)) :
     /\ 0 \in cuts
     /\ \A i \in cuts \ {Len(s)} :
          \E n \in 1 .. 4 : i + n \in cuts /\ IsUtf8(SubSeq(s, i + 1, i + n))}

IsUtf8Text(s) == Cuts(s) # {}

(* A text can still become UTF-8: with nothing, or with what its last      *)
(* character lacks.  The bytes that may be lacking always run up to 191 or *)
(* down to 128, so these stand for all.                                    *)
Continuations == UNION {[1 .. n -> {128}] \cup [1 .. n -> {191}] : n \in 0 .. 3}
BeginsText(s) == \E t \in Continuations : IsUtf8Text(s \o t)
============================================================================
