----------------------------- MODULE JsonParser ----------------------------
(***************************************************************************)
(* nlohmann's JSON parser as the client uses it: parse(text) with          *)
(* exceptions and no callback (src/include/json/json.hpp).  The parser     *)
(* reads tokens and keeps a stack of what it is inside of; it tells a      *)
(* json_sax_dom_parser, which builds the value and keeps a stack of        *)
(* pointers into it.  Here a pointer is the number of a node.              *)
(***************************************************************************)
EXTENDS SequencesExt, Naturals

CONSTANTS
  Keys,         \* texts, which may be keys
  Scalars,      \* other values: literals and numbers
  Bounds        \* bounds on the tokens before the end of the input: how many
                \* there are, when all of them are of the given types

ASSUME BoundsAssumption == \A b \in Bounds : b.tokens \in Nat

Token(type) == [type |-> type, value |-> ""]

BeginObject == Token("begin_object")
EndObject == Token("end_object")
BeginArray == Token("begin_array")
EndArray == Token("end_array")
Colon == Token("name_separator")
Comma == Token("value_separator")
EndOfInput == Token("end_of_input")

Strings == {[type |-> "value_string", value |-> k] : k \in Keys}
ScalarTokens == {[type |-> "scalar", value |-> v] : v \in Scalars}

(* A float that is not finite, and a text that is no token. *)
BadTokens == {Token("overflow"), Token("parse_error")}

TokenSet ==
  {BeginObject, EndObject, BeginArray, EndArray, Colon, Comma, EndOfInput}
    \cup Strings \cup ScalarTokens \cup BadTokens

VARIABLES
  read,             \* the tokens read so far; the last one is last_token
  states,           \* what the parser is inside of: TRUE array, FALSE object
  phase,            \* "value": parse one; "state": look at states; or how it ended
  nodes,            \* the values made so far; the first is the root.  A node has
                    \* items, the numbers of nodes, and a member for each key,
                    \* the number of a node or 0
  ref_stack,        \* pointers to the values that are being filled
  object_element    \* pointer to the value of the last key

domVars == <<nodes, ref_stack, object_element>>
vars == <<read, states, phase, domVars>>

last_token == Last(read)

(***************************************************************************)
(* get_token, any number of times.  The lexer goes on returning            *)
(* end_of_input once it has.                                               *)
(***************************************************************************)
Bounded(ts) ==
  \E b \in Bounds : \A i \in DOMAIN ts :
    ts[i] = EndOfInput \/ (i <= b.tokens /\ ts[i].type \in b.types)

GetTokens(ts) ==
  /\ read' = read \o ts
  /\ \A i \in DOMAIN ts \ {1} : ts[i - 1] = EndOfInput => ts[i] = EndOfInput
  /\ last_token = EndOfInput => ts[1] = EndOfInput
  /\ Bounded(read')

(***************************************************************************)
(* json_sax_dom_parser.                                                    *)
(***************************************************************************)
Node(type, token) ==
  [type |-> type, token |-> token, items |-> <<>>, member |-> [k \in Keys |-> 0]]

ScalarNode(token) == Node("scalar", token)
ArrayNode == Node("array", BeginArray)
ObjectNode == Node("object", BeginObject)
NullNode == ScalarNode(Token("null"))

Container == nodes[Last(ref_stack)]

(* Where handle_value puts a value, and what the nodes are then. *)
Place ==
  IF ref_stack = <<>> THEN 1
  ELSE IF Container.type = "array" THEN Len(nodes) + 1
  ELSE object_element

HandleValue(node) ==
  IF ref_stack = <<>> THEN <<node>>
  ELSE IF Container.type = "array"
    THEN Append([nodes EXCEPT ![Last(ref_stack)].items = Append(@, Len(nodes) + 1)],
                node)
  ELSE [nodes EXCEPT ![object_element] = node]

Start(node) ==
  /\ nodes' = HandleValue(node)
  /\ ref_stack' = Append(ref_stack, Place)

End == ref_stack' = Front(ref_stack)

(* Mutant: for a name met before, the value's place stays the last one.   *)
KeyKeepsPlace(name, object, old) ==
  \/ /\ old[object].member[name] # 0
     /\ nodes' = old /\ UNCHANGED object_element
  \/ /\ old[object].member[name] = 0
     /\ nodes' = Append([old EXCEPT ![object].member[name] = Len(old) + 1], NullNode)
     /\ object_element' = Len(old) + 1

(* key, in an object: it finds the member, or makes a new one, null. *)
Key(name, object, old) ==
  \/ /\ old[object].member[name] # 0
     /\ nodes' = old /\ object_element' = old[object].member[name]
  \/ /\ old[object].member[name] = 0
     /\ nodes' = Append([old EXCEPT ![object].member[name] = Len(old) + 1], NullNode)
     /\ object_element' = Len(old) + 1

(***************************************************************************)
(* sax_parse_internal: a value starts with last_token.                     *)
(***************************************************************************)
Rejects == phase' = "rejected" /\ UNCHANGED <<states, domVars>>

ParseScalar ==
  /\ phase = "value" /\ last_token \in Strings \cup ScalarTokens
  /\ nodes' = HandleValue(ScalarNode(last_token))
  /\ phase' = "state"
  /\ UNCHANGED <<read, states, ref_stack, object_element>>

ParseEmptyObject ==
  /\ phase = "value" /\ last_token = BeginObject
  /\ GetTokens(<<EndObject>>)
  /\ nodes' = HandleValue(ObjectNode)
  /\ phase' = "state"
  /\ UNCHANGED <<states, ref_stack, object_element>>

ParseObject ==
  /\ phase = "value" /\ last_token = BeginObject
  /\ \E name \in Strings, t \in TokenSet :
       /\ GetTokens(<<name, Colon, t>>)
       /\ Key(name.value, Place, HandleValue(ObjectNode))
  /\ ref_stack' = Append(ref_stack, Place)
  /\ states' = Append(states, FALSE)
  /\ UNCHANGED phase

ParseEmptyArray ==
  /\ phase = "value" /\ last_token = BeginArray
  /\ GetTokens(<<EndArray>>)
  /\ nodes' = HandleValue(ArrayNode)
  /\ phase' = "state"
  /\ UNCHANGED <<states, ref_stack, object_element>>

ParseArray ==
  /\ phase = "value" /\ last_token = BeginArray
  /\ \E t \in TokenSet \ {EndArray} : GetTokens(<<t>>)
  /\ Start(ArrayNode)
  /\ states' = Append(states, TRUE)
  /\ UNCHANGED <<phase, object_element>>

(* Mutant: a token that starts no value is met again and again.            *)
ValueErrorStays ==
  /\ phase = "value"
  /\ last_token \notin Strings \cup ScalarTokens \cup {BeginObject, BeginArray}
  /\ UNCHANGED vars

(* Mutant: } after { is taken for a missing key.                           *)
ValueErrorEmpty ==
  /\ phase = "value"
  /\ \/ /\ last_token \notin Strings \cup ScalarTokens \cup {BeginObject, BeginArray}
        /\ UNCHANGED read
     \/ /\ last_token = BeginObject
        /\ \/ \E t \in TokenSet \ Strings : GetTokens(<<t>>)
           \/ \E name \in Strings, t \in TokenSet \ {Colon} : GetTokens(<<name, t>>)
  /\ Rejects

(* A token that starts no value, or what follows { is not a key and colon. *)
ValueError ==
  /\ phase = "value"
  /\ \/ /\ last_token \notin Strings \cup ScalarTokens \cup {BeginObject, BeginArray}
        /\ UNCHANGED read
     \/ /\ last_token = BeginObject
        /\ \/ \E t \in TokenSet \ (Strings \cup {EndObject}) : GetTokens(<<t>>)
           \/ \E name \in Strings, t \in TokenSet \ {Colon} : GetTokens(<<name, t>>)
  /\ Rejects

(***************************************************************************)
(* After a value.                                                          *)
(***************************************************************************)
InArray == phase = "state" /\ states # <<>> /\ Last(states)
InObject == phase = "state" /\ states # <<>> /\ ~Last(states)

NextItem ==
  /\ InArray
  /\ \E t \in TokenSet : GetTokens(<<Comma, t>>)
  /\ phase' = "value"
  /\ UNCHANGED <<states, domVars>>

NextMember ==
  /\ InObject
  /\ \E name \in Strings, t \in TokenSet :
       /\ GetTokens(<<Comma, name, Colon, t>>)
       /\ Key(name.value, Last(ref_stack), nodes)
  /\ phase' = "value"
  /\ UNCHANGED <<states, ref_stack>>

(* Mutant: the object that ends stays on the stack.                        *)
LeaveObjectOpen ==
  /\ InObject /\ GetTokens(<<EndObject>>)
  /\ states' = Front(states)
  /\ UNCHANGED <<phase, domVars>>

LeaveObject ==
  /\ InObject /\ GetTokens(<<EndObject>>)
  /\ End /\ states' = Front(states)
  /\ UNCHANGED <<phase, nodes, object_element>>

(* Mutant: a comma before the end of an array is let through.              *)
LeaveArrayComma ==
  /\ InArray
  /\ GetTokens(<<EndArray>>) \/ GetTokens(<<Comma, EndArray>>)
  /\ End /\ states' = Front(states)
  /\ UNCHANGED <<phase, nodes, object_element>>

LeaveArray ==
  /\ InArray /\ GetTokens(<<EndArray>>)
  /\ End /\ states' = Front(states)
  /\ UNCHANGED <<phase, nodes, object_element>>

StateError ==
  /\ \/ InArray /\ \E t \in TokenSet \ {Comma, EndArray} : GetTokens(<<t>>)
     \/ /\ InObject
        /\ \/ \E t \in TokenSet \ {Comma, EndObject} : GetTokens(<<t>>)
           \/ \E t \in TokenSet \ Strings : GetTokens(<<Comma, t>>)
           \/ \E name \in Strings, t \in TokenSet \ {Colon} :
                GetTokens(<<Comma, name, t>>)
  /\ Rejects

(* parse: nothing may follow the value. *)
Accept ==
  /\ phase = "state" /\ states = <<>>
  /\ GetTokens(<<EndOfInput>>)
  /\ phase' = "accepted"
  /\ UNCHANGED <<states, domVars>>

TrailingTokens ==
  /\ phase = "state" /\ states = <<>>
  /\ \E t \in TokenSet \ {EndOfInput} : GetTokens(<<t>>)
  /\ Rejects

Init ==
  /\ \E t \in TokenSet : Bounded(<<t>>) /\ read = <<t>>
  /\ states = <<>> /\ phase = "value"
  /\ nodes = <<NullNode>> /\ ref_stack = <<>> /\ object_element = 0

Next ==
  \/ ParseScalar \/ ParseEmptyObject \/ ParseObject \/ ParseEmptyArray
  \/ ParseArray \/ ValueError \/ NextItem \/ NextMember \/ LeaveObject
  \/ LeaveArray \/ StateError \/ Accept \/ TrailingTokens

Spec == Init /\ [][Next]_vars

(* The parser runs until it returns or throws. *)
FairSpec == Spec /\ WF_vars(Next)

(***************************************************************************)
(* Properties.                                                             *)
(***************************************************************************)
Running == phase \in {"value", "state"}

(* The JSON_ASSERTs of the two classes (json.hpp:6880-6964, :12574,        *)
(* :12628): the stack of the parser and that of the value's builder, which *)
(* know nothing of each other, agree on what is being read; and a value is *)
(* stored where the object being read has a member, which is none of the   *)
(* containers still being filled.                                          *)
StacksAgree ==
  Running =>
    /\ Len(ref_stack) = Len(states)
    /\ \A i \in DOMAIN states :
         nodes[ref_stack[i]].type = IF states[i] THEN "array" ELSE "object"
    /\ phase = "value" /\ states # <<>> /\ ~Last(states) =>
         /\ \E k \in Keys : Container.member[k] = object_element
         /\ object_element # 0
         /\ \A i \in DOMAIN ref_stack : ref_stack[i] # object_element

(* What StacksAgree rests on: a member lies after the object it belongs to  *)
(* (Above), so the containers being filled are in the order in which they  *)
(* were met (Nested) and the place for the next value is none of them.     *)
NodeSet ==
  [type : {"scalar", "array", "object"}, token : TokenSet \cup {Token("null")},
   items : Seq(Nat), member : [Keys -> Nat]]

TypeOK ==
  /\ read \in Seq(TokenSet) /\ read # <<>>
  /\ states \in Seq(BOOLEAN)
  /\ phase \in {"value", "state", "accepted", "rejected"}
  /\ nodes \in Seq(NodeSet) /\ ref_stack \in Seq(Nat) /\ object_element \in Nat

Above(ns) ==
  \A n \in DOMAIN ns : \A k \in Keys :
    ns[n].member[k] # 0 => ns[n].member[k] \in DOMAIN ns /\ n < ns[n].member[k]

Nested ==
  /\ \A i \in DOMAIN ref_stack : ref_stack[i] \in DOMAIN nodes
  /\ \A i, j \in DOMAIN ref_stack : i < j => ref_stack[i] < ref_stack[j]

ParserInv == TypeOK /\ Above(nodes) /\ (Running => Nested) /\ StacksAgree

(* The parser comes to an end. *)
ParserEnds == <>(phase \in {"accepted", "rejected"})
============================================================================
