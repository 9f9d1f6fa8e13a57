------------------------------ MODULE JsonDump ------------------------------
(***************************************************************************)
(* dump() of a value that was parsed (src/include/json/json.hpp), without  *)
(* indentation, as the tokens it writes: the client's requests, and the    *)
(* texts it keeps of an answer's parts, are made by it.                    *)
(***************************************************************************)
EXTENDS JsonParser

RECURSIVE DumpTokens(_)

(* The members of an object in the order of std::map, here any fixed one.  *)
MemberKeys(n) == SelectSeq(SetToSeq(Keys), LAMBDA k : nodes[n].member[k] # 0)

NameToken(k) == [type |-> "value_string", value |-> k]

(* What dump writes for one member, and for one element. *)
MemberTokens(n) ==
  LET keys == MemberKeys(n)
  IN  [i \in DOMAIN keys |-> <<NameToken(keys[i]), Colon>> \o DumpTokens(nodes[n].member[keys[i]])]

ItemTokens(n) == [i \in DOMAIN nodes[n].items |-> DumpTokens(nodes[n].items[i])]

(* Mutant: a comma follows each of them, the last one too.                 *)
ListedTrailing(parts) == FlattenSeq([i \in DOMAIN parts |-> parts[i] \o <<Comma>>])

(* The first n - 1, each with a comma, and the last one. *)
Listed(parts) ==
  IF parts = <<>> THEN <<>>
  ELSE FlattenSeq([i \in DOMAIN Front(parts) |-> parts[i] \o <<Comma>>]) \o Last(parts)

DumpTokens(n) ==
  CASE nodes[n].type = "object" -> <<BeginObject>> \o Listed(MemberTokens(n)) \o <<EndObject>>
    [] nodes[n].type = "array" -> <<BeginArray>> \o Listed(ItemTokens(n)) \o <<EndArray>>
    [] OTHER -> <<nodes[n].token>>
============================================================================
