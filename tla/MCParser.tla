----------------------------- MODULE MCParser -----------------------------
(***************************************************************************)
(* The grammar of JSON (RFC 8259, section 2), as the set of values that a  *)
(* sequence of tokens denotes, against which the parser is checked.        *)
(***************************************************************************)
EXTENDS JsonDump

CONSTANTS
  MaxTokens,    \* bound on the texts of tokens of all types
  MaxMembers    \* bound on those of objects in objects, longer, so that a
                \* key comes again, in which a value is replaced by another

ObjectTypes == {"begin_object", "end_object", "name_separator", "value_separator",
                "value_string"}
MCBounds ==
  {[tokens |-> MaxTokens, types |-> {t.type : t \in TokenSet}],
   [tokens |-> MaxMembers, types |-> ObjectTypes]}

Cut(ts, from, to) == SubSeq(ts, from, to)
Commas(ts) == {i \in DOMAIN ts : ts[i] = Comma}

RECURSIVE Value(_), Items(_), Members(_)

(* A value is a scalar, an array or an object; a set of one or none. *)
Value(ts) ==
  LET inner == Cut(ts, 2, Len(ts) - 1) IN
  IF Len(ts) = 1
    THEN {[scalar |-> ts[1]] : t \in {ts[1]} \cap (Strings \cup ScalarTokens)}
  ELSE IF Len(ts) < 2 THEN {}
  ELSE IF ts[1] = BeginArray /\ Last(ts) = EndArray
    THEN {[array |-> a] : a \in IF inner = <<>> THEN {<<>>} ELSE Items(inner)}
  ELSE IF ts[1] = BeginObject /\ Last(ts) = EndObject
    THEN {[object |-> o] : o \in IF inner = <<>> THEN {<<>>} ELSE Members(inner)}
  ELSE {}

Items(ts) ==
  {<<v>> : v \in Value(ts)} \cup
  UNION {{<<v>> \o rest : v \in Value(Cut(ts, 1, i - 1)),
                         rest \in Items(Cut(ts, i + 1, Len(ts)))} : i \in Commas(ts)}

(* Of members with the same name the last one counts. *)
Members(ts) ==
  IF Len(ts) < 3 \/ ts[1] \notin Strings \/ ts[2] # Colon THEN {}
  ELSE {ts[1].value :> v : v \in Value(Cut(ts, 3, Len(ts)))} \cup
       UNION {{rest @@ (ts[1].value :> v) :
                 v \in Value(Cut(ts, 3, i - 1)),
                 rest \in Members(Cut(ts, i + 1, Len(ts)))} :
                i \in {j \in Commas(ts) : j > 3}}

RECURSIVE Tree(_)
Tree(n) ==
  CASE nodes[n].type = "scalar" -> [scalar |-> nodes[n].token]
    [] nodes[n].type = "array" ->
         [array |-> [i \in DOMAIN nodes[n].items |-> Tree(nodes[n].items[i])]]
    [] nodes[n].type = "object" ->
         [object |-> [k \in {x \in Keys : nodes[n].member[x] # 0} |-> Tree(nodes[n].member[k])]]

(***************************************************************************)
(* All texts of a given number of tokens, to tell where a text goes wrong. *)
(***************************************************************************)
RECURSIVE Texts(_), ItemTexts(_), MemberTexts(_)

Wrap(l, inner, r) == {<<l>> \o x \o <<r>> : x \in inner}

Texts(n) ==
  IF n = 1 THEN {<<t>> : t \in Strings \cup ScalarTokens}
  ELSE IF n = 2 THEN {<<BeginArray, EndArray>>, <<BeginObject, EndObject>>}
  ELSE Wrap(BeginArray, ItemTexts(n - 2), EndArray)
         \cup Wrap(BeginObject, MemberTexts(n - 2), EndObject)

ItemTexts(n) ==
  Texts(n) \cup UNION {{x \o <<Comma>> \o y : x \in Texts(k), y \in ItemTexts(n - k - 1)} :
                        k \in 1 .. n - 2}

MemberTexts(n) ==
  IF n < 3 THEN {}
  ELSE {<<k, Colon>> \o x : k \in Strings, x \in Texts(n - 2)} \cup
       UNION {{<<k, Colon>> \o x \o <<Comma>> \o y :
                 k \in Strings, x \in Texts(i), y \in MemberTexts(n - i - 3)} :
                i \in 1 .. n - 4}

(* Long enough to tell about the texts of all tokens, not the longer ones. *)
AllTexts == UNION {Texts(n) : n \in 1 .. MaxTokens + 2}

(* What the parser accepts is JSON, and it has then built the value that   *)
(* the text denotes; what it rejects at its end is none.                   *)
ParserCorrect ==
  /\ phase = "accepted" => Value(Front(read)) = {Tree(1)}
  /\ phase = "rejected" /\ last_token = EndOfInput =>
       Value(SelectSeq(read, LAMBDA t : t # EndOfInput)) = {}

(* It rejects a text in its midst only at a token after which nothing could *)
(* make it JSON any more.                                                  *)
RejectsAtFault ==
  phase = "rejected" /\ last_token # EndOfInput =>
    \A t \in AllTexts : ~IsPrefix(read, t)

(* What dump writes of a value that was parsed is JSON again, and denotes  *)
(* the same value.                                                         *)
DumpDenotes ==
  phase = "accepted" => Value(DumpTokens(1)) = {Tree(1)}
============================================================================
