------------------------- MODULE JsonDestroyProofs -------------------------
(***************************************************************************)
(* For every document: destroy never calls itself deeper than once.        *)
(***************************************************************************)
EXTENDS JsonDestroy, FiniteSetTheorems, SequenceTheorems, TLAPS

LEMMA OneCall ==
  ASSUME calls \in Seq(CallSet), Len(calls) = 1
  PROVE  /\ Callers = <<>> /\ top = calls[1] /\ calls[1] \in CallSet
         /\ \A c : Len(Append(Callers, c)) = 1 /\ Append(Callers, c)[1] = c
<1>1. Callers = <<>>
  BY DEF Callers
<1>2. top = calls[1] /\ calls[1] \in CallSet
  BY DEF top
<1>. QED BY <1>1, <1>2

LEMMA TwoCalls ==
  ASSUME calls \in Seq(CallSet), Len(calls) = 2
  PROVE  /\ top = calls[2] /\ calls[1] \in CallSet /\ calls[2] \in CallSet
         /\ Callers \in Seq(CallSet) /\ Len(Callers) = 1 /\ Callers[1] = calls[1]
         /\ \A c \in CallSet : /\ Append(Callers, c) \in Seq(CallSet) /\ Len(Append(Callers, c)) = 2
                               /\ Append(Callers, c)[1] = calls[1] /\ Append(Callers, c)[2] = c
<1>1. top = calls[2] /\ calls[1] \in CallSet /\ calls[2] \in CallSet
  BY DEF top
<1>2. Callers \in Seq(CallSet) /\ Len(Callers) = 1 /\ Callers[1] = calls[1]
  BY DEF Callers
<1>. HIDE DEF Callers
<1>3. ASSUME NEW c \in CallSet
      PROVE  /\ Append(Callers, c) \in Seq(CallSet) /\ Len(Append(Callers, c)) = 2
             /\ Append(Callers, c)[1] = calls[1] /\ Append(Callers, c)[2] = c
  BY <1>2
<1>. QED BY <1>1, <1>2, <1>3

LEMMA CallsRunning ==
  ASSUME FlatInv, calls # <<>>
  PROVE  Len(calls) \in {1, 2}
<1>1. Len(calls) \in Nat /\ Len(calls) # 0 /\ Len(calls) <= 2
  BY DEF FlatInv
<1>2. ASSUME NEW n \in Nat, n # 0, n <= 2 PROVE n \in {1, 2}
  BY <1>2
<1>. QED BY <1>1, <1>2

LEMMA TwoOfThem ==
  ASSUME NEW a, NEW b
  PROVE  <<>> \o <<a, b>> = <<a, b>>
  OBVIOUS

(* The last element and the rest of a sequence. *)
LEMMA LastAndRest ==
  ASSUME NEW S, NEW s \in Seq(S), s # <<>>
  PROVE  s[Len(s)] \in S /\ SubSeq(s, 1, Len(s) - 1) \in Seq(S)
  OBVIOUS

LEMMA MovedSeq ==
  ASSUME NEW S, NEW s \in Seq(S)
  PROVE  AllMoved(s) \in Seq({Moved})
  BY DEF AllMoved

LEMMA InitFlat == Init => FlatInv
<1>. SUFFICES ASSUME NEW d \in Documents, items = d.items, calls = <<Call(d.root)>>
              PROVE  FlatInv
  BY DEF Init
<1>1. /\ d.root \in Values /\ d.items \in [Values -> Seq(Values)]
      /\ \A v \in Values : \A i \in DOMAIN d.items[v] : d.items[v][i] # d.root
  BY DocumentsAssumption, RootAssumption
<1>2. Call(d.root) \in CallSet /\ Call(d.root).value = d.root /\ ~Call(d.root).begun
  BY <1>1 DEF Call, CallSet
<1>3. calls \in Seq(CallSet) /\ Len(calls) = 1 /\ calls[1] = Call(d.root)
  BY <1>2
<1>4. \A v \in Values : items[v] \in Seq(Values \ {d.root})
  <2>. SUFFICES ASSUME NEW v \in Values PROVE items[v] \in Seq(Values \ {d.root})
    OBVIOUS
  <2>1. items[v] \in Seq(Values) /\ \A i \in DOMAIN items[v] : items[v][i] # d.root
    BY <1>1
  <2>2. \A i \in 1 .. Len(items[v]) : items[v][i] \in Values \ {d.root}
    BY <2>1
  <2>. QED BY <2>1, <2>2
<1>5. FirstCall
  <2>1. calls[1].value = d.root /\ calls[1].begun = FALSE
    BY <1>2, <1>3 DEF Call
  <2>. QED BY <1>1, <1>3, <1>4, <2>1 DEF FirstCall
<1>6. items \in [Values -> Seq(Values \cup {Moved})]
  BY <1>1
<1>. QED BY <1>3, <1>5, <1>6 DEF FlatInv

LEMMA FlattenFlat == FlatInv /\ Flatten => FlatInv'
<1>. SUFFICES ASSUME FlatInv, Flatten PROVE FlatInv'
  OBVIOUS
<1>. USE DEF FlatInv
<1>. DEFINE new == [top EXCEPT !.begun = TRUE, !.stack = items[top.value]]
<1>1. Len(calls) \in {1, 2} /\ ~top.begun /\ calls' = Append(Callers, new)
      /\ items' = [items EXCEPT ![top.value] = AllMoved(@)]
  BY CallsRunning DEF Flatten
<1>2. CASE Len(calls) = 1
  <2>. DEFINE root == calls[1].value
              others == Values \ {root}
  <2>1. /\ top = calls[1] /\ calls[1] \in CallSet /\ Len(calls') = 1 /\ calls'[1] = new
        /\ calls' = <<new>>
    BY <1>1, <1>2, OneCall
  <2>2. /\ root \in Values /\ items[root] \in Seq(others)
        /\ \A v \in others : items[v] \in Seq(others)
    BY <1>1, <1>2, <2>1 DEF FirstCall
  <2>3. /\ new \in CallSet /\ new.value = root /\ new.begun = TRUE /\ new.stack = items[root]
    <3>1. items[root] \in Seq(Values)
      BY <2>2
    <3>. QED BY <2>1, <3>1 DEF CallSet
  <2>4. AllMoved(items[root]) \in Seq({Moved})
    BY <2>2, MovedSeq
  <2>5. items' = [items EXCEPT ![root] = AllMoved(items[root])]
    BY <1>1, <2>1
  <2>6. /\ items'[root] \in Seq({Moved}) /\ \A v \in others : items'[v] \in Seq(others)
        /\ items' \in [Values -> Seq(Values \cup {Moved})]
    BY <2>2, <2>4, <2>5
  <2>7. FirstCall'
    BY <2>1, <2>2, <2>3, <2>6 DEF FirstCall
  <2>8. calls' \in Seq(CallSet)
    BY <2>1, <2>3
  <2>. QED BY <2>1, <2>6, <2>7, <2>8
<1>3. CASE Len(calls) = 2
  <2>1. top = calls[2] /\ calls[1] \in CallSet /\ calls[2] \in CallSet
    BY <1>3, TwoCalls
  <2>2. /\ FirstCall /\ calls[1].begun /\ calls[2].value \in Values \ {calls[1].value}
        /\ items[calls[2].value] = <<>>
    BY <1>3 DEF SecondCall
  <2>3. /\ new \in CallSet /\ new.value = calls[2].value /\ new.begun = TRUE /\ new.stack = <<>>
    <3>1. <<>> \in Seq(Values)
      OBVIOUS
    <3>2. new = [calls[2] EXCEPT !.begun = TRUE, !.stack = <<>>]
      BY <2>1, <2>2
    <3>. QED BY <2>1, <3>1, <3>2 DEF CallSet
  <2>4. /\ calls' \in Seq(CallSet) /\ Len(calls') = 2 /\ calls'[1] = calls[1] /\ calls'[2] = new
    BY <1>1, <1>3, <2>3, TwoCalls
  <2>5. AllMoved(<<>>) = <<>>
    BY DEF AllMoved
  <2>6. items' = items
    BY <1>1, <2>1, <2>2, <2>5
  <2>7. FirstCall'
    BY <2>2, <2>4, <2>6 DEF FirstCall
  <2>8. SecondCall'
    BY <2>2, <2>3, <2>4, <2>6 DEF SecondCall
  <2>. QED BY <2>4, <2>6, <2>7, <2>8
<1>. QED BY <1>1, <1>2, <1>3

LEMMA ProcessFlat == FlatInv /\ Process => FlatInv'
<1>. SUFFICES ASSUME FlatInv, Process PROVE FlatInv'
  OBVIOUS
<1>. USE DEF FlatInv
<1>. DEFINE item == top.stack[Len(top.stack)]
            rest == SubSeq(top.stack, 1, Len(top.stack) - 1)
            new == [top EXCEPT !.stack = rest \o items[item]]
<1>1. /\ Len(calls) \in {1, 2} /\ top.begun /\ top.stack # <<>>
      /\ calls' = Callers \o <<new, Call(item)>>
      /\ items' = [items EXCEPT ![item] = <<>>]
  BY CallsRunning DEF Process
<1>2. CASE Len(calls) = 1
  <2>. DEFINE root == calls[1].value
              others == Values \ {root}
  <2>1. top = calls[1] /\ calls[1] \in CallSet
    BY <1>2, OneCall
  <2>2. /\ Callers = <<>> /\ Len(calls') = 2 /\ calls'[1] = new /\ calls'[2] = Call(item)
    <3>1. Callers = <<>>
      BY <1>2, OneCall
    <3>2. calls' = <<new, Call(item)>>
      BY <1>1, <3>1, TwoOfThem
    <3>. QED BY <3>1, <3>2
  <2>3. /\ root \in Values /\ items[root] \in Seq({Moved}) /\ top.stack \in Seq(others)
        /\ \A v \in others : items[v] \in Seq(others)
    BY <1>1, <1>2, <2>1 DEF FirstCall
  <2>4. item \in others /\ rest \in Seq(others)
    BY <1>1, <2>3, LastAndRest
  <2>5. rest \o items[item] \in Seq(others)
    BY <2>3, <2>4
  <2>6. rest \o items[item] \in Seq(Values)
    BY <2>5
  <2>7. new \in CallSet /\ new.value = root /\ new.begun = TRUE /\ new.stack = rest \o items[item]
    BY <1>1, <2>1, <2>6 DEF CallSet
  <2>8. /\ Call(item) \in CallSet /\ Call(item).value = item /\ Call(item).begun = FALSE
    BY <2>4 DEF Call, CallSet
  <2>9. calls' \in Seq(CallSet)
    BY <1>1, <2>2, <2>7, <2>8
  <2>10. /\ items'[root] \in Seq({Moved}) /\ \A v \in others : items'[v] \in Seq(others)
         /\ items' \in [Values -> Seq(Values \cup {Moved})] /\ items'[item] = <<>>
    BY <1>1, <2>3, <2>4
  <2>11. FirstCall'
    BY <2>2, <2>3, <2>5, <2>7, <2>10 DEF FirstCall
  <2>12. SecondCall'
    BY <2>2, <2>4, <2>7, <2>8, <2>10 DEF SecondCall
  <2>. QED BY <2>2, <2>9, <2>10, <2>11, <2>12
<1>3. CASE Len(calls) = 2
  <2>1. top = calls[2]
    BY <1>3, TwoCalls
  <2>. QED BY <1>1, <1>3, <2>1 DEF SecondCall
<1>. QED BY <1>1, <1>2, <1>3

LEMMA ReleaseFlat == FlatInv /\ Release => FlatInv'
<1>. SUFFICES ASSUME FlatInv, Release PROVE FlatInv'
  OBVIOUS
<1>. USE DEF FlatInv
<1>1. Len(calls) \in {1, 2} /\ top.begun
  BY CallsRunning DEF Release
<1>2. \A i \in DOMAIN items[top.value] : items[top.value][i] = Moved
  <2>1. CASE Len(calls) = 1
    <3>1. top = calls[1]
      BY <2>1, OneCall
    <3>2. items[top.value] \in Seq({Moved})
      BY <1>1, <2>1, <3>1 DEF FirstCall
    <3>. QED BY <3>2
  <2>2. CASE Len(calls) = 2
    <3>1. top = calls[2]
      BY <2>2, TwoCalls
    <3>. QED BY <2>2, <3>1 DEF SecondCall
  <2>. QED BY <1>1, <2>1, <2>2
<1>3. calls' = Callers /\ UNCHANGED items
  BY <1>2 DEF Release
<1>4. CASE Len(calls) = 1
  <2>1. calls' = <<>> /\ Len(calls') = 0
    BY <1>3, <1>4, OneCall
  <2>. QED BY <1>3, <2>1
<1>5. CASE Len(calls) = 2
  <2>1. calls' \in Seq(CallSet) /\ Len(calls') = 1 /\ calls'[1] = calls[1]
    BY <1>3, <1>5, TwoCalls
  <2>2. FirstCall /\ calls[1].begun
    BY <1>5 DEF SecondCall
  <2>3. FirstCall'
    BY <1>3, <2>1, <2>2 DEF FirstCall
  <2>. QED BY <1>3, <2>1, <2>3
<1>. QED BY <1>1, <1>4, <1>5

(* destroy: a value that is on the stack of the first call is empty when a *)
(* second one destroys it.                                                 *)
THEOREM FlatInvariant == Spec => []FlatInv
<1>1. Init => FlatInv
  BY InitFlat
<1>2. FlatInv /\ [Next]_vars => FlatInv'
  <2>. SUFFICES ASSUME FlatInv, [Next]_vars PROVE FlatInv'
    OBVIOUS
  <2>1. CASE Next
    BY <2>1, FlattenFlat, ProcessFlat, ReleaseFlat DEF Next
  <2>2. CASE UNCHANGED vars
    BY <2>2 DEF vars, FlatInv, FirstCall, SecondCall
  <2>. QED BY <2>1, <2>2
<1>. QED BY <1>1, <1>2, PTL DEF Spec

(* json.hpp:19868: however deep a document is nested, the destructors that *)
(* run at a time are those of one value and of one on its stack.           *)
THEOREM DestroyShallow == Spec => []CallsShallow
<1>1. FlatInv => CallsShallow
  BY DEF FlatInv, CallsShallow
<1>. QED BY <1>1, FlatInvariant, PTL

(***************************************************************************)
(* Sequences whose elements are distinct.                                  *)
(***************************************************************************)
LEMMA DistinctRest ==
  ASSUME NEW S, NEW s \in Seq(S), s # <<>>, IsInjective(s),
         NEW rest, rest = SubSeq(s, 1, Len(s) - 1)
  PROVE  /\ IsInjective(rest) /\ s[Len(s)] \notin Range(rest)
         /\ \A x : x \in Range(s) <=> x \in Range(rest) \/ x = s[Len(s)]
<1>1. Len(s) \in Nat /\ Len(s) > 0 /\ DOMAIN s = 1 .. Len(s)
  OBVIOUS
<1>2. Len(rest) = Len(s) - 1 /\ \A i \in 1 .. (Len(s) - 1) : rest[i] = s[i]
  <2>1. \A i \in 1 .. (Len(s) - 1) : s[i] \in S
    BY <1>1
  <2>2. \A i \in 1 .. ((Len(s) - 1) - 1 + 1) : rest[i] = s[1 + i - 1]
    BY <1>1, <2>1, SubSeqProperties
  <2>3. Len(rest) = (IF 1 <= Len(s) - 1 THEN (Len(s) - 1) - 1 + 1 ELSE 0)
    BY <1>1, <2>1, SubSeqProperties
  <2>. QED BY <1>1, <2>2, <2>3
<1>3. DOMAIN rest = 1 .. (Len(s) - 1)
  <2>1. rest \in Seq(S)
    BY LastAndRest
  <2>. QED BY <1>2, <2>1
<1>4. \A i \in 1 .. Len(s) : i \in 1 .. (Len(s) - 1) \/ i = Len(s)
  <2>1. ASSUME NEW n \in Nat, NEW i \in 1 .. n PROVE i \in 1 .. (n - 1) \/ i = n
    OBVIOUS
  <2>. QED BY <1>1, <2>1
<1>5. Len(s) \notin 1 .. (Len(s) - 1) /\ Len(s) \in 1 .. Len(s)
      /\ 1 .. (Len(s) - 1) \subseteq 1 .. Len(s)
  BY <1>1
<1>6. IsInjective(rest)
  BY <1>1, <1>2, <1>3, <1>5 DEF IsInjective
<1>7. s[Len(s)] \notin Range(rest)
  BY <1>1, <1>2, <1>3, <1>5 DEF IsInjective, Range
<1>8. ASSUME NEW x PROVE x \in Range(s) <=> x \in Range(rest) \/ x = s[Len(s)]
  BY <1>1, <1>2, <1>3, <1>4, <1>5 DEF Range
<1>. QED BY <1>6, <1>7, <1>8

LEMMA DistinctBoth ==
  ASSUME NEW S, NEW s \in Seq(S), NEW t \in Seq(S)
  PROVE  /\ \A x : x \in Range(s \o t) <=> x \in Range(s) \/ x \in Range(t)
         /\ /\ IsInjective(s) /\ IsInjective(t)
            /\ \A x \in Range(s) : x \notin Range(t)
            => IsInjective(s \o t)
<1>1. /\ DOMAIN s = 1 .. Len(s) /\ DOMAIN t = 1 .. Len(t) /\ Len(s) \in Nat /\ Len(t) \in Nat
      /\ DOMAIN (s \o t) = 1 .. (Len(s) + Len(t))
      /\ \A i \in 1 .. Len(s) : (s \o t)[i] = s[i]
      /\ \A i \in 1 .. Len(t) : (s \o t)[Len(s) + i] = t[i]
  OBVIOUS
<1>2. \A i \in 1 .. (Len(s) + Len(t)) :
        i \in 1 .. Len(s) \/ (i - Len(s) \in 1 .. Len(t) /\ i = Len(s) + (i - Len(s)))
  BY <1>1
<1>5. Range(s \o t) = Range(s) \cup Range(t)
  BY RangeConcatenation
<1>6. ASSUME IsInjective(s), IsInjective(t), \A x \in Range(s) : x \notin Range(t)
      PROVE  IsInjective(s \o t)
  <2>. SUFFICES ASSUME NEW i \in 1 .. (Len(s) + Len(t)), NEW j \in 1 .. (Len(s) + Len(t)),
                       (s \o t)[i] = (s \o t)[j]
                PROVE  i = j
    BY <1>1 DEF IsInjective
  <2>1. \A a \in 1 .. Len(s), b \in 1 .. Len(t) : s[a] # t[b]
    BY <1>1, <1>6 DEF Range
  <2>2. CASE i \in 1 .. Len(s) /\ j \in 1 .. Len(s)
    BY <1>1, <1>6, <2>2 DEF IsInjective
  <2>3. CASE i \in 1 .. Len(s) /\ j \notin 1 .. Len(s)
    <3>1. j - Len(s) \in 1 .. Len(t) /\ (s \o t)[j] = t[j - Len(s)]
      BY <1>1, <1>2, <2>3
    <3>. QED BY <1>1, <2>1, <2>3, <3>1
  <2>4. CASE i \notin 1 .. Len(s) /\ j \in 1 .. Len(s)
    <3>1. i - Len(s) \in 1 .. Len(t) /\ (s \o t)[i] = t[i - Len(s)]
      BY <1>1, <1>2, <2>4
    <3>. QED BY <1>1, <2>1, <2>4, <3>1
  <2>5. CASE i \notin 1 .. Len(s) /\ j \notin 1 .. Len(s)
    <3>1. i - Len(s) \in 1 .. Len(t) /\ (s \o t)[i] = t[i - Len(s)]
      BY <1>1, <1>2, <2>5
    <3>2. j - Len(s) \in 1 .. Len(t) /\ (s \o t)[j] = t[j - Len(s)]
      BY <1>1, <1>2, <2>5
    <3>3. i - Len(s) = j - Len(s)
      BY <1>1, <1>6, <3>1, <3>2 DEF IsInjective
    <3>. QED BY <1>1, <3>3
  <2>. QED BY <2>2, <2>3, <2>4, <2>5
<1>. QED BY <1>5, <1>6

LEMMA DistinctAppend ==
  ASSUME NEW S, NEW s \in Seq(S), NEW x \in S
  PROVE  /\ Append(s, x) \in Seq(S)
         /\ \A y : y \in Range(Append(s, x)) <=> y \in Range(s) \/ y = x
         /\ IsInjective(s) /\ x \notin Range(s) => IsInjective(Append(s, x))
<1>1. <<x>> \in Seq(S) /\ Append(s, x) = s \o <<x>>
  OBVIOUS
<1>2. IsInjective(<<x>>) /\ \A y : y \in Range(<<x>>) <=> y = x
  BY DEF IsInjective, Range
<1>3. /\ \A y : y \in Range(s \o <<x>>) <=> y \in Range(s) \/ y \in Range(<<x>>)
      /\ IsInjective(s) /\ IsInjective(<<x>>) /\ (\A y \in Range(s) : y \notin Range(<<x>>))
         => IsInjective(s \o <<x>>)
  BY <1>1, DistinctBoth
<1>4. Append(s, x) \in Seq(S)
  OBVIOUS
<1>. QED BY <1>1, <1>2, <1>3, <1>4

(***************************************************************************)
(* What a step does to the places of the values.                           *)
(***************************************************************************)
LEMMA PlacesOfOne ==
  ASSUME NEW cs \in Seq(CallSet), Len(cs) = 1, NEW v
  PROVE  /\ (\E k \in DOMAIN cs : v \in Range(cs[k].stack)) <=> v \in Range(cs[1].stack)
         /\ (\E k \in DOMAIN cs : cs[k].value = v) <=> v = cs[1].value
<1>1. DOMAIN cs = {1}
  OBVIOUS
<1>. QED BY <1>1

LEMMA PlacesOfTwo ==
  ASSUME NEW cs \in Seq(CallSet), Len(cs) = 2, cs[2].stack = <<>>, NEW v
  PROVE  /\ (\E k \in DOMAIN cs : v \in Range(cs[k].stack)) <=> v \in Range(cs[1].stack)
         /\ (\E k \in DOMAIN cs : cs[k].value = v) <=> v = cs[1].value \/ v = cs[2].value
<1>1. DOMAIN cs = {1, 2}
  OBVIOUS
<1>2. Range(cs[2].stack) = {}
  BY DEF Range
<1>. QED BY <1>1, <1>2

(* A call that has not begun has nothing on its stack; nor has a second.   *)
LEMMA CallsNow ==
  ASSUME FlatInv, OwnInv, calls # <<>>
  PROVE  /\ calls \in Seq(CallSet) /\ FirstCall
         /\ Len(calls) = 2 => SecondCall /\ calls[2].stack = <<>>
         /\ \A v : Stacked(v) <=> v \in Range(calls[1].stack)
         /\ \A v : Called(v) <=> \/ v = calls[1].value
                                 \/ Len(calls) = 2 /\ v = calls[2].value
         /\ IsInjective(calls[1].stack)
         /\ ~calls[1].begun => calls[1].stack = <<>>
<1>1. Len(calls) \in {1, 2} /\ calls \in Seq(CallSet)
  BY CallsRunning DEF FlatInv
<1>2. FirstCall /\ (Len(calls) = 2 => SecondCall)
  BY <1>1 DEF FlatInv
<1>3. 1 \in DOMAIN calls /\ (Len(calls) = 2 => 2 \in DOMAIN calls)
  BY <1>1
<1>4. IsInjective(calls[1].stack) /\ (~calls[1].begun => calls[1].stack = <<>>)
  BY <1>3 DEF OwnInv
<1>5. Len(calls) = 2 => calls[2].stack = <<>>
  BY <1>2, <1>3 DEF OwnInv, SecondCall
<1>6. \A v : /\ Stacked(v) <=> v \in Range(calls[1].stack)
             /\ Called(v) <=> \/ v = calls[1].value
                              \/ Len(calls) = 2 /\ v = calls[2].value
  BY <1>1, <1>5, PlacesOfOne, PlacesOfTwo DEF Stacked, Called
<1>. QED BY <1>1, <1>2, <1>4, <1>5, <1>6

LEMMA FlattenShape ==
  ASSUME FlatInv, OwnInv, Flatten
  PROVE  /\ UNCHANGED freed /\ calls' # <<>> /\ Len(calls') = Len(calls)
         /\ calls'[1].value = calls[1].value
         /\ \/ /\ Len(calls) = 1 /\ ~calls[1].begun /\ calls'[1].begun
               /\ calls'[1].stack = items[calls[1].value]
               /\ items' = [items EXCEPT ![calls[1].value] = AllMoved(@)]
            \/ /\ Len(calls) = 2 /\ calls'[1] = calls[1] /\ UNCHANGED items
               /\ calls'[2].value = calls[2].value /\ calls'[2].stack = <<>>
<1>. DEFINE new == [top EXCEPT !.begun = TRUE, !.stack = items[top.value]]
<1>1. /\ Len(calls) \in {1, 2} /\ ~top.begun /\ calls' = Append(Callers, new)
      /\ items' = [items EXCEPT ![top.value] = AllMoved(@)] /\ UNCHANGED freed
  BY CallsRunning DEF Flatten
<1>2. CASE Len(calls) = 1
  <2>1. top = calls[1] /\ calls[1] \in CallSet /\ Len(calls') = 1 /\ calls'[1] = new
    BY <1>1, <1>2, OneCall DEF FlatInv
  <2>2. new.value = calls[1].value /\ new.begun = TRUE /\ new.stack = items[calls[1].value]
    BY <2>1 DEF CallSet
  <2>. QED BY <1>1, <1>2, <2>1, <2>2
<1>3. CASE Len(calls) = 2
  <2>1. top = calls[2] /\ calls[1] \in CallSet /\ calls[2] \in CallSet
    BY <1>3, TwoCalls DEF FlatInv
  <2>2. calls[2].value \in Values /\ items[calls[2].value] = <<>>
        /\ items \in [Values -> Seq(Values \cup {Moved})]
    BY <1>3 DEF FlatInv, SecondCall
  <2>3. new = [calls[2] EXCEPT !.begun = TRUE, !.stack = <<>>]
    BY <2>1, <2>2
  <2>4. new \in CallSet /\ new.value = calls[2].value /\ new.stack = <<>>
    <3>1. <<>> \in Seq(Values)
      OBVIOUS
    <3>. QED BY <2>1, <2>3, <3>1 DEF CallSet
  <2>5. Len(calls') = 2 /\ calls'[1] = calls[1] /\ calls'[2] = new
    BY <1>1, <1>3, <2>4, TwoCalls DEF FlatInv
  <2>6. AllMoved(<<>>) = <<>>
    BY DEF AllMoved
  <2>7. items' = items
    BY <1>1, <2>1, <2>2, <2>6
  <2>. QED BY <1>1, <1>3, <2>4, <2>5, <2>7
<1>. QED BY <1>1, <1>2, <1>3

LEMMA ProcessShape ==
  ASSUME FlatInv, OwnInv, Process,
         NEW stack, stack = calls[1].stack,
         NEW rest, rest = SubSeq(stack, 1, Len(stack) - 1),
         NEW item, item = stack[Len(stack)]
  PROVE  /\ UNCHANGED freed /\ Len(calls) = 1 /\ Len(calls') = 2 /\ stack # <<>>
         /\ calls[1].begun /\ calls'[1].begun
         /\ calls'[1].value = calls[1].value /\ calls'[1].stack = rest \o items[item]
         /\ calls'[2] = Call(item)
         /\ items' = [items EXCEPT ![item] = <<>>]
<1>1. Len(calls) \in {1, 2} /\ top.begun /\ top.stack # <<>>
  BY CallsRunning DEF Process
<1>2. Len(calls) = 1
  <2>1. SUFFICES ASSUME Len(calls) = 2 PROVE FALSE
    BY <1>1
  <2>2. top = calls[2]
    BY <2>1, TwoCalls DEF FlatInv
  <2>. QED BY <1>1, <2>1, <2>2 DEF FlatInv, SecondCall
<1>3. top = calls[1] /\ calls[1] \in CallSet /\ Callers = <<>>
  BY <1>2, OneCall DEF FlatInv
<1>. DEFINE new == [calls[1] EXCEPT !.stack = rest \o items[item]]
<1>4. /\ calls' = Callers \o <<new, Call(item)>> /\ UNCHANGED freed
      /\ items' = [items EXCEPT ![item] = <<>>]
  BY <1>3 DEF Process
<1>5. calls' = <<new, Call(item)>>
  BY <1>3, <1>4, TwoOfThem
<1>6. new.value = calls[1].value /\ new.begun = calls[1].begun /\ new.stack = rest \o items[item]
  BY <1>3 DEF CallSet
<1>. HIDE DEF new
<1>7. Len(calls') = 2 /\ calls'[1] = new /\ calls'[2] = Call(item)
  BY <1>5
<1>. QED BY <1>1, <1>2, <1>3, <1>4, <1>6, <1>7

LEMMA ReleaseShape ==
  ASSUME FlatInv, OwnInv, Release
  PROVE  /\ UNCHANGED items
         /\ \/ /\ Len(calls) = 1 /\ calls' = <<>> /\ freed' = Append(freed, calls[1].value)
               /\ calls[1].begun /\ calls[1].stack = <<>>
            \/ /\ Len(calls) = 2 /\ Len(calls') = 1 /\ calls'[1] = calls[1]
               /\ freed' = Append(freed, calls[2].value)
<1>1. Len(calls) \in {1, 2} /\ top.begun /\ top.stack = <<>>
  BY CallsRunning DEF Release
<1>2. CASE Len(calls) = 1
  <2>1. top = calls[1] /\ Callers = <<>>
    BY <1>2, OneCall DEF FlatInv
  <2>2. items[calls[1].value] \in Seq({Moved})
    BY <1>1, <1>2, <2>1 DEF FlatInv, FirstCall
  <2>3. \A i \in DOMAIN items[top.value] : items[top.value][i] = Moved
    BY <2>1, <2>2
  <2>. QED BY <1>1, <1>2, <2>1, <2>3 DEF Release
<1>3. CASE Len(calls) = 2
  <2>1. top = calls[2] /\ Len(Callers) = 1 /\ Callers[1] = calls[1]
    BY <1>3, TwoCalls DEF FlatInv
  <2>2. \A i \in DOMAIN items[top.value] : items[top.value][i] = Moved
    BY <1>3, <2>1 DEF FlatInv, SecondCall
  <2>. QED BY <1>3, <2>1, <2>2 DEF Release
<1>. QED BY <1>1, <1>2, <1>3

(***************************************************************************)
(* Every step leaves each value in one place.                              *)
(***************************************************************************)
LEMMA GroundedShrinks ==
  ASSUME NEW holds, NEW less, Grounded(holds),
         \A c \in Values : \A v \in Values : v \in Range(less[c]) => v \in Range(holds[c])
  PROVE  Grounded(less)
BY DEF Grounded

(* The values that lie in another container than c, and those that lie in c. *)
LEMMA LiesSplit ==
  ASSUME OwnInv, items \in [Values -> Seq(Values \cup {Moved})], NEW c \in Values, NEW v \in Values
  PROVE  /\ Lies(v) <=> v \in Range(items[c]) \/ \E d \in Values \ {c} : v \in Range(items[d])
         /\ v \in Range(items[c]) => ~ \E d \in Values \ {c} : v \in Range(items[d])
<1>1. Lies(v) <=> v \in Range(items[c]) \/ \E d \in Values \ {c} : v \in Range(items[d])
  BY DEF Lies
<1>2. ASSUME v \in Range(items[c]), NEW d \in Values \ {c}, v \in Range(items[d]) PROVE FALSE
  BY <1>2, ValuesAssumption DEF OwnInv, Apart, Range
<1>. QED BY <1>1, <1>2

(* What a container holds is distinct, if it is no null. *)
LEMMA HeldDistinct ==
  ASSUME OwnInv, NEW c \in Values, items[c] \in Seq(Values)
  PROVE  IsInjective(items[c])
<1>1. \A i \in DOMAIN items[c] : items[c][i] # Moved
  BY ValuesAssumption
<1>. QED BY <1>1 DEF OwnInv, Apart, IsInjective

LEMMA FlattenOwn ==
  ASSUME FlatInv, OwnInv, Flatten, FlatInv'
  PROVE  OwnInv'
<1>. DEFINE root == calls[1].value
            others == Values \ {root}
<1>1. /\ FirstCall /\ calls # <<>> /\ Len(calls) \in {1, 2}
      /\ \A v : Stacked(v) <=> v \in Range(calls[1].stack)
      /\ \A v : Called(v) <=> v = root \/ (Len(calls) = 2 /\ v = calls[2].value)
      /\ ~calls[1].begun => calls[1].stack = <<>>
  BY CallsNow, CallsRunning DEF Flatten
<1>2. items \in [Values -> Seq(Values \cup {Moved})] /\ calls' \in Seq(CallSet)
  BY DEF FlatInv
<1>3. CASE Len(calls) = 1
  <2>1. /\ UNCHANGED freed /\ Len(calls') = 1 /\ calls'[1].value = root
        /\ ~calls[1].begun /\ calls'[1].begun /\ calls'[1].stack = items[root]
        /\ items' = [items EXCEPT ![root] = AllMoved(items[root])]
    BY <1>3, FlattenShape
  <2>2. root \in Values /\ items[root] \in Seq(others) /\ calls[1].stack = <<>>
    BY <1>1, <2>1 DEF FirstCall
  <2>3. /\ \A c \in others : items'[c] = items[c]
        /\ items'[root] \in Seq({Moved})
    <3>1. AllMoved(items[root]) \in Seq({Moved})
      BY <2>2, MovedSeq
    <3>. QED BY <1>2, <2>1, <2>2, <3>1
  <2>4. \A v \in Values : v \notin Range(items'[root])
    BY <2>3, ValuesAssumption DEF Range
  <2>5. Apart(items')
    <3>1. \A i \in DOMAIN items'[root] : items'[root][i] = Moved
      BY <2>3
    <3>2. \A c \in Values : c # root => items'[c] = items[c]
      BY <2>3
    <3>. QED BY <3>1, <3>2 DEF OwnInv, Apart
  <2>6. Grounded(items')
    BY <2>3, <2>4, GroundedShrinks DEF OwnInv
  <2>7. IsInjective(calls'[1].stack)
    BY <2>1, <2>2, HeldDistinct
  <2>8. ASSUME NEW v \in Values PROVE OnePlace(v)'
    <3>1. Stacked(v)' <=> v \in Range(items[root])
      BY <1>2, <2>1, PlacesOfOne DEF Stacked
    <3>2. Called(v)' <=> v = root
      BY <1>2, <2>1, PlacesOfOne DEF Called
    <3>3. Lies(v)' <=> \E c \in others : v \in Range(items[c])
      BY <2>3, <2>4 DEF Lies
    <3>4. ~Stacked(v) /\ (Called(v) <=> v = root)
      BY <1>1, <1>3, <2>2 DEF Range
    <3>5. OnePlace(v)
      BY DEF OwnInv
    <3>6. /\ Lies(v) <=> v \in Range(items[root]) \/ \E c \in others : v \in Range(items[c])
          /\ v \in Range(items[root]) => ~ \E c \in others : v \in Range(items[c])
      BY <1>2, <2>2, LiesSplit
    <3>7. freed' = freed
      BY <2>1
    <3>. QED BY <3>1, <3>2, <3>3, <3>4, <3>5, <3>6, <3>7 DEF OnePlace
  <2>9. ASSUME NEW v \in Range(freed) PROVE items'[v] \in Seq({Moved})
    <3>1. v \in Values
      BY DEF OwnInv, Range
    <3>. QED BY <2>3, <3>1 DEF OwnInv
  <2>10. DOMAIN calls' = {1}
    BY <1>2, <2>1
  <2>. QED BY <2>1, <2>5, <2>6, <2>7, <2>8, <2>9, <2>10 DEF OwnInv
<1>4. CASE Len(calls) = 2
  <2>1. /\ UNCHANGED <<freed, items>> /\ Len(calls') = 2 /\ calls'[1] = calls[1]
        /\ calls'[2].value = calls[2].value
    BY <1>4, FlattenShape
  <2>2. calls'[2].stack = <<>>
    BY <1>4, FlattenShape
  <2>3. ASSUME NEW v \in Values PROVE OnePlace(v)'
    <3>1. Stacked(v)' <=> Stacked(v)
      BY <1>1, <1>2, <2>1, <2>2, PlacesOfTwo DEF Stacked
    <3>2. Called(v)' <=> Called(v)
      BY <1>1, <1>2, <1>4, <2>1, <2>2, PlacesOfTwo DEF Called
    <3>3. OnePlace(v)
      BY DEF OwnInv
    <3>. QED BY <2>1, <3>1, <3>2, <3>3 DEF OnePlace, Lies
  <2>4. DOMAIN calls' = {1, 2} /\ 1 \in DOMAIN calls
    BY <1>2, <1>4, <2>1 DEF FlatInv
  <2>5. IsInjective(<<>>)
    BY DEF IsInjective
  <2>. QED BY <2>1, <2>2, <2>3, <2>4, <2>5 DEF OwnInv
<1>. QED BY <1>1, <1>3, <1>4

LEMMA ProcessOwn ==
  ASSUME FlatInv, OwnInv, Process, FlatInv'
  PROVE  OwnInv'
<1>. DEFINE root == calls[1].value
            stack == calls[1].stack
            rest == SubSeq(stack, 1, Len(stack) - 1)
            item == stack[Len(stack)]
            others == Values \ {item}
<1>1. /\ UNCHANGED freed /\ Len(calls) = 1 /\ Len(calls') = 2 /\ stack # <<>>
      /\ calls[1].begun /\ calls'[1].begun
      /\ calls'[1].value = root /\ calls'[1].stack = rest \o items[item]
      /\ calls'[2] = Call(item) /\ items' = [items EXCEPT ![item] = <<>>]
  BY ProcessShape
<1>2. /\ items \in [Values -> Seq(Values \cup {Moved})] /\ calls' \in Seq(CallSet)
      /\ \A v : (Stacked(v) <=> v \in Range(stack)) /\ (Called(v) <=> v = root)
      /\ IsInjective(stack) /\ FirstCall
  BY <1>1, CallsNow DEF FlatInv, Process
<1>3. /\ stack \in Seq(Values \ {root}) /\ item \in Values \ {root}
      /\ items[item] \in Seq(Values) /\ rest \in Seq(Values)
  <2>1. stack \in Seq(Values \ {root}) /\ \A v \in Values \ {root} : items[v] \in Seq(Values \ {root})
    BY <1>1, <1>2 DEF FirstCall
  <2>2. item \in Values \ {root} /\ rest \in Seq(Values \ {root})
    BY <1>1, <2>1, LastAndRest
  <2>3. items[item] \in Seq(Values \ {root})
    BY <2>1, <2>2
  <2>. QED BY <2>1, <2>2, <2>3
<1>4. /\ IsInjective(rest) /\ item \notin Range(rest)
      /\ \A x : x \in Range(stack) <=> x \in Range(rest) \/ x = item
  <2>1. rest = SubSeq(stack, 1, Len(stack) - 1) /\ item = stack[Len(stack)]
    OBVIOUS
  <2>2. stack \in Seq(Values \ {root}) /\ stack # <<>> /\ IsInjective(stack)
    BY <1>1, <1>2, <1>3
  <2>. HIDE DEF rest, item, stack
  <2>3. /\ IsInjective(rest) /\ stack[Len(stack)] \notin Range(rest)
        /\ \A x : x \in Range(stack) <=> x \in Range(rest) \/ x = stack[Len(stack)]
    BY <2>1, <2>2, DistinctRest
  <2>. QED BY <2>1, <2>3
<1>5. calls'[2].value = item /\ calls'[2].stack = <<>>
  BY <1>1 DEF Call
<1>. HIDE DEF rest, item, stack
<1>6. items'[item] = <<>> /\ \A c \in others : items'[c] = items[c]
  BY <1>1, <1>2, <1>3
<1>7. \A v : v \notin Range(items'[item])
  BY <1>6 DEF Range
<1>8. Apart(items')
  BY <1>6 DEF OwnInv, Apart
<1>9. Grounded(items')
  BY <1>6, <1>7, GroundedShrinks DEF OwnInv
<1>10. \A v \in Range(items[item]) : v \in Values /\ Lies(v)
  BY <1>3 DEF Lies, Range
<1>11. \A v \in Range(rest) : v \in Values /\ Stacked(v)
  <2>1. \A v \in Range(rest) : v \in Values
    BY <1>3 DEF Range
  <2>. QED BY <1>2, <1>4, <2>1
<1>12. IsInjective(calls'[1].stack)
  <2>1. \A v \in Range(rest) : v \notin Range(items[item])
    BY <1>10, <1>11 DEF OwnInv, OnePlace
  <2>2. IsInjective(items[item])
    BY <1>3, HeldDistinct
  <2>. QED BY <1>1, <1>3, <1>4, <2>1, <2>2, DistinctBoth
<1>13. ASSUME NEW v \in Values PROVE OnePlace(v)'
  <2>1. Stacked(v)' <=> v \in Range(rest) \/ v \in Range(items[item])
    <3>1. Stacked(v)' <=> v \in Range(calls'[1].stack)
      BY <1>1, <1>2, <1>5, PlacesOfTwo DEF Stacked
    <3>. QED BY <1>1, <1>3, <3>1, DistinctBoth
  <2>2. Called(v)' <=> v = root \/ v = item
    BY <1>1, <1>2, <1>5, PlacesOfTwo DEF Called
  <2>3. Lies(v)' <=> \E c \in others : v \in Range(items[c])
    BY <1>6, <1>7 DEF Lies
  <2>4. /\ Stacked(v) <=> v \in Range(rest) \/ v = item
        /\ Called(v) <=> v = root
    BY <1>2, <1>4
  <2>5. OnePlace(v)
    BY DEF OwnInv
  <2>6. /\ Lies(v) <=> v \in Range(items[item]) \/ \E c \in others : v \in Range(items[c])
        /\ v \in Range(items[item]) => ~ \E c \in others : v \in Range(items[c])
    BY <1>2, <1>3, LiesSplit
  <2>7. freed' = freed /\ item \notin Range(rest) /\ item # root
    BY <1>1, <1>3, <1>4
  <2>. QED BY <2>1, <2>2, <2>3, <2>4, <2>5, <2>6, <2>7 DEF OnePlace
<1>14. ASSUME NEW v \in Range(freed) PROVE items'[v] \in Seq({Moved})
  <2>1. v \in Values /\ <<>> \in Seq({Moved})
    BY DEF OwnInv, Range
  <2>. QED BY <1>6, <2>1 DEF OwnInv
<1>15. DOMAIN calls' = {1, 2} /\ IsInjective(<<>>)
  BY <1>1, <1>2 DEF IsInjective
<1>. QED BY <1>1, <1>5, <1>8, <1>9, <1>12, <1>13, <1>14, <1>15 DEF OwnInv

LEMMA ReleaseOwn ==
  ASSUME FlatInv, OwnInv, Release, FlatInv'
  PROVE  OwnInv'
<1>. DEFINE root == calls[1].value
<1>1. /\ calls # <<>> /\ Len(calls) \in {1, 2} /\ FirstCall /\ (Len(calls) = 2 => SecondCall)
      /\ \A v : Stacked(v) <=> v \in Range(calls[1].stack)
      /\ \A v : Called(v) <=> v = root \/ (Len(calls) = 2 /\ v = calls[2].value)
      /\ IsInjective(calls[1].stack) /\ (~calls[1].begun => calls[1].stack = <<>>)
  BY CallsNow, CallsRunning DEF Release
<1>2. UNCHANGED items /\ calls' \in Seq(CallSet)
  BY ReleaseShape DEF FlatInv
<1>3. ASSUME NEW w \in Values, Called(w), items[w] \in Seq({Moved}), freed' = Append(freed, w),
             \A v \in Values : /\ Stacked(v)' <=> Stacked(v)
                               /\ Called(v)' <=> Called(v) /\ v # w,
             \A k \in DOMAIN calls' :
               IsInjective(calls'[k].stack) /\ (~calls'[k].begun => calls'[k].stack = <<>>)
      PROVE  OwnInv'
  <2>1. w \notin Range(freed) /\ ~Lies(w) /\ ~Stacked(w)
    BY <1>3 DEF OwnInv, OnePlace
  <2>2. /\ freed' \in Seq(Values) /\ IsInjective(freed')
        /\ \A v : v \in Range(freed') <=> v \in Range(freed) \/ v = w
    BY <1>3, <2>1, DistinctAppend DEF OwnInv
  <2>3. ASSUME NEW v \in Values PROVE OnePlace(v)'
    <3>1. OnePlace(v) /\ (Lies(v)' <=> Lies(v))
      BY <1>2 DEF OwnInv, Lies
    <3>. QED BY <1>3, <2>1, <2>2, <3>1 DEF OnePlace
  <2>4. \A v \in Range(freed') : items'[v] \in Seq({Moved})
    BY <1>2, <1>3, <2>2 DEF OwnInv
  <2>. QED BY <1>2, <1>3, <2>2, <2>3, <2>4 DEF OwnInv
<1>4. CASE Len(calls) = 1
  <2>1. calls' = <<>> /\ freed' = Append(freed, root) /\ calls[1].begun /\ calls[1].stack = <<>>
    BY <1>4, ReleaseShape
  <2>2. root \in Values /\ Called(root) /\ items[root] \in Seq({Moved})
    BY <1>1, <2>1 DEF FirstCall
  <2>3. \A v \in Values : ~Stacked(v) /\ (Called(v) <=> v = root) /\ ~Stacked(v)' /\ ~Called(v)'
    BY <1>1, <1>4, <2>1 DEF Range, Stacked, Called
  <2>. QED BY <1>3, <2>1, <2>2, <2>3
<1>5. CASE Len(calls) = 2
  <2>1. Len(calls') = 1 /\ calls'[1] = calls[1] /\ freed' = Append(freed, calls[2].value)
    BY <1>5, ReleaseShape
  <2>2. /\ calls[2].value \in Values \ {root} /\ Called(calls[2].value)
        /\ items[calls[2].value] \in Seq({Moved})
    <3>1. <<>> \in Seq({Moved})
      OBVIOUS
    <3>. QED BY <1>1, <1>5, <3>1 DEF SecondCall
  <2>3. \A v \in Values : Stacked(v)' <=> v \in Range(calls[1].stack)
    BY <1>2, <2>1, PlacesOfOne DEF Stacked
  <2>4. \A v \in Values : Called(v)' <=> v = root
    BY <1>2, <2>1, PlacesOfOne DEF Called
  <2>5. DOMAIN calls' = {1}
    BY <1>2, <2>1
  <2>. QED BY <1>1, <1>3, <1>5, <2>1, <2>2, <2>3, <2>4, <2>5
<1>. QED BY <1>1, <1>4, <1>5

LEMMA InitOwn == Init => OwnInv
<1>. SUFFICES ASSUME NEW d \in Documents, items = d.items, calls = <<Call(d.root)>>,
                     freed = <<>>
              PROVE  OwnInv
  BY DEF Init
<1>1. /\ d.root \in Values /\ d.items \in [Values -> Seq(Values)]
      /\ \A v \in Values : \A i \in DOMAIN d.items[v] : d.items[v][i] # d.root
      /\ \A v \in Values \ {d.root} : \E c \in Values : v \in Range(d.items[c])
      /\ Apart(d.items) /\ Grounded(d.items)
  BY DocumentsAssumption, RootAssumption, NestingAssumption
<1>2. /\ DOMAIN calls = {1} /\ calls[1] = Call(d.root)
      /\ calls[1].value = d.root /\ calls[1].stack = <<>>
  BY DEF Call
<1>3. Range(<<>>) = {} /\ IsInjective(<<>>) /\ <<>> \in Seq(Values)
  BY DEF Range, IsInjective
<1>4. ASSUME NEW v \in Values PROVE OnePlace(v)
  <2>1. ~Stacked(v) /\ (Called(v) <=> v = d.root)
    BY <1>2, <1>3 DEF Stacked, Called
  <2>2. Lies(v) <=> v # d.root
    BY <1>1 DEF Lies, Range
  <2>. QED BY <1>3, <2>1, <2>2 DEF OnePlace
<1>. QED BY <1>1, <1>2, <1>3, <1>4 DEF OwnInv

LEMMA OwnInvariant == Spec => []OwnInv
<1>1. Init => OwnInv
  BY InitOwn
<1>2. FlatInv /\ FlatInv' /\ OwnInv /\ [Next]_vars => OwnInv'
  <2>. SUFFICES ASSUME FlatInv, FlatInv', OwnInv, [Next]_vars PROVE OwnInv'
    OBVIOUS
  <2>1. CASE Next
    BY <2>1, FlattenOwn, ProcessOwn, ReleaseOwn DEF Next
  <2>2. CASE UNCHANGED vars
    BY <2>2 DEF vars, OwnInv, OnePlace, Lies, Stacked, Called
  <2>. QED BY <2>1, <2>2
<1>. QED BY <1>1, <1>2, FlatInvariant, PTL DEF Spec

(* A value that is left when destroy returns would lie in another that is  *)
(* left, and so on for ever.                                               *)
LEMMA NothingLeft ==
  ASSUME OwnInv, calls = <<>>
  PROVE  Range(freed) = Values
<1>. DEFINE left == Values \ Range(freed)
<1>1. Range(freed) \subseteq Values
  BY DEF OwnInv, Range
<1>2. ASSUME left # {} PROVE FALSE
  <2>1. PICK v \in left : \A c \in left : v \notin Range(items[c])
    BY <1>2 DEF OwnInv, Grounded
  <2>2. PICK c \in Values : v \in Range(items[c])
    BY <2>1 DEF OwnInv, OnePlace, Lies, Stacked, Called
  <2>3. items[c] \in Seq({Moved})
    BY <2>1, <2>2 DEF OwnInv
  <2>. QED BY <2>1, <2>2, <2>3, ValuesAssumption DEF Range
<1>. QED BY <1>1, <1>2

(* json.hpp, destroy: each value of a document is freed once, and all of   *)
(* them are when the call for the document returns.                        *)
THEOREM EachFreedOnce == Spec => []FreedOnce
<1>1. OwnInv => FreedOnce
  BY NothingLeft DEF OwnInv, FreedOnce
<1>. QED BY <1>1, OwnInvariant, PTL

LEMMA OwnersAre ==
  ASSUME NEW v, NEW o
  PROVE  o \in Owners(v) <=>
           \/ \E c \in Values : \E i \in DOMAIN items[c] :
                items[c][i] = v /\ o = <<"item", c, i>>
           \/ \E k \in DOMAIN calls : \E i \in DOMAIN calls[k].stack :
                calls[k].stack[i] = v /\ o = <<"stack", k, i>>
           \/ \E k \in DOMAIN calls : calls[k].value = v /\ o = <<"call", k>>
<1>. DEFINE held(c) == {<<"item", c, i>> : i \in {j \in DOMAIN items[c] : items[c][j] = v}}
            stacked(k) == {<<"stack", k, i>> :
                             i \in {j \in DOMAIN calls[k].stack : calls[k].stack[j] = v}}
            H == UNION {held(c) : c \in Values}
            K == UNION {stacked(k) : k \in DOMAIN calls}
            C == {<<"call", k>> : k \in {n \in DOMAIN calls : calls[n].value = v}}
<1>1. Owners(v) = H \cup K \cup C
  BY DEF Owners
<1>2. o \in H <=> \E c \in Values : o \in held(c)
  OBVIOUS
<1>3. o \in K <=> \E k \in DOMAIN calls : o \in stacked(k)
  OBVIOUS
<1>4. o \in C <=> \E k \in DOMAIN calls : calls[k].value = v /\ o = <<"call", k>>
  OBVIOUS
<1>5. \A c : o \in held(c) <=> \E i \in DOMAIN items[c] : items[c][i] = v /\ o = <<"item", c, i>>
  OBVIOUS
<1>6. \A k : o \in stacked(k) <=> \E i \in DOMAIN calls[k].stack :
                                    calls[k].stack[i] = v /\ o = <<"stack", k, i>>
  OBVIOUS
<1>. HIDE DEF held, stacked, H, K, C
<1>7. o \in Owners(v) <=> o \in H \/ o \in K \/ o \in C
  BY <1>1
<1>. QED BY <1>2, <1>3, <1>4, <1>5, <1>6, <1>7

LEMMA OnlyOne ==
  ASSUME NEW S, NEW e, \A o : o \in S <=> o = e
  PROVE  S = {e}
OBVIOUS

LEMMA OneOfThem ==
  ASSUME FlatInv, OwnInv, NEW v \in Values
  PROVE  IF v \in Range(freed) THEN Owners(v) = {} ELSE \E o : Owners(v) = {o}
<1>1. OnePlace(v) /\ v # Moved
  BY ValuesAssumption DEF OwnInv
<1>2. CASE v \in Range(freed)
  <2>1. ~Lies(v) /\ ~Stacked(v) /\ ~Called(v)
    BY <1>1, <1>2 DEF OnePlace
  <2>2. \A o : o \notin Owners(v)
    BY <2>1, OwnersAre DEF Lies, Stacked, Called, Range
  <2>. QED BY <1>2, <2>2
<1>3. CASE Lies(v)
  <2>1. ~Stacked(v) /\ ~Called(v) /\ v \notin Range(freed)
    BY <1>1, <1>3 DEF OnePlace
  <2>. PICK c \in Values : v \in Range(items[c])
    BY <1>3 DEF Lies
  <2>2. PICK i \in DOMAIN items[c] : items[c][i] = v
    BY DEF Range
  <2>3. \A d \in Values : \A j \in DOMAIN items[d] : items[d][j] = v => d = c /\ j = i
    BY <1>1, <2>2 DEF OwnInv, Apart
  <2>4. \A o : o \in Owners(v) <=> o = <<"item", c, i>>
    BY <2>1, <2>2, <2>3, OwnersAre DEF Stacked, Called, Range
  <2>5. Owners(v) = {<<"item", c, i>>}
    BY <2>4, OnlyOne
  <2>. QED BY <2>1, <2>5
<1>4. CASE Stacked(v)
  <2>1. ~Lies(v) /\ ~Called(v) /\ v \notin Range(freed)
    BY <1>1, <1>4 DEF OnePlace
  <2>2. calls # <<>> /\ 1 \in DOMAIN calls
    BY <1>4 DEF Stacked, FlatInv
  <2>3. \A k \in DOMAIN calls : k # 1 => calls[k].stack = <<>>
    BY <2>2, CallsNow, CallsRunning
  <2>4. PICK i \in DOMAIN calls[1].stack : calls[1].stack[i] = v
    BY <1>4, <2>2, CallsNow DEF Range
  <2>5. \A k \in DOMAIN calls : \A j \in DOMAIN calls[k].stack :
          calls[k].stack[j] = v => k = 1 /\ j = i
    BY <2>2, <2>3, <2>4 DEF OwnInv, IsInjective
  <2>6. \A o : o \in Owners(v) <=> o = <<"stack", 1, i>>
    BY <2>1, <2>2, <2>4, <2>5, OwnersAre DEF Lies, Called, Range
  <2>7. Owners(v) = {<<"stack", 1, i>>}
    BY <2>6, OnlyOne
  <2>. QED BY <2>1, <2>7
<1>5. CASE Called(v)
  <2>1. ~Lies(v) /\ ~Stacked(v) /\ v \notin Range(freed)
    BY <1>1, <1>5 DEF OnePlace
  <2>2. PICK k \in DOMAIN calls : calls[k].value = v
    BY <1>5 DEF Called
  <2>3. \A n \in DOMAIN calls : calls[n].value = v => n = k
    <3>1. calls # <<>> /\ DOMAIN calls \subseteq {1, 2}
      BY <2>2, CallsRunning DEF FlatInv
    <3>2. Len(calls) = 2 => calls[1].value # calls[2].value
      BY DEF FlatInv, SecondCall
    <3>3. 2 \in DOMAIN calls => Len(calls) = 2
      BY <3>1, CallsRunning DEF FlatInv
    <3>. QED BY <2>2, <3>1, <3>2, <3>3
  <2>4. \A o : o \in Owners(v) <=> o = <<"call", k>>
    BY <2>1, <2>2, <2>3, OwnersAre DEF Lies, Stacked, Range
  <2>5. Owners(v) = {<<"call", k>>}
    BY <2>4, OnlyOne
  <2>. QED BY <2>1, <2>5
<1>. QED BY <1>1, <1>2, <1>3, <1>4, <1>5 DEF OnePlace

(* json.hpp, destroy: at every moment a value that has not been freed is   *)
(* owned by one container, one stack or one call, and a value that has     *)
(* been, by none: no step copies one or loses it.                          *)
THEOREM EachHasOneOwner == Spec => []OneOwner
<1>1. FlatInv /\ OwnInv => OneOwner
  <2>. SUFFICES ASSUME FlatInv, OwnInv, NEW v \in Values
                PROVE  Cardinality(Owners(v)) = IF v \in Range(freed) THEN 0 ELSE 1
    BY DEF OneOwner
  <2>1. Cardinality({}) = 0 /\ \A o : Cardinality({o}) = 1
    BY FS_EmptySet, FS_Singleton
  <2>. QED BY <2>1, OneOfThem
<1>. QED BY <1>1, FlatInvariant, OwnInvariant, PTL
============================================================================
