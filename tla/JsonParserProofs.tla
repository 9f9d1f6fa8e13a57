-------------------------- MODULE JsonParserProofs --------------------------
(***************************************************************************)
(* The parser's two stacks agree, whatever the keys, the scalars and the   *)
(* length of the text.  The invariant is ParserInv: the containers being   *)
(* filled are nodes in increasing order, since a node is made after the    *)
(* node it belongs to; so the place for the next value is none of them,    *)
(* and storing a value there changes the type of none of them.             *)
(***************************************************************************)
EXTENDS JsonParser, TLAPS

(***************************************************************************)
(* Tokens.                                                                 *)
(***************************************************************************)
LEMMA TokensInSet ==
  /\ BeginObject \in TokenSet /\ EndObject \in TokenSet /\ BeginArray \in TokenSet
  /\ EndArray \in TokenSet /\ Colon \in TokenSet /\ Comma \in TokenSet
  /\ EndOfInput \in TokenSet /\ Strings \subseteq TokenSet
  /\ ScalarTokens \subseteq TokenSet
  BY DEF TokenSet

LEMMA GetTokensRead ==
  ASSUME read \in Seq(TokenSet), read # <<>>,
         NEW ts \in Seq(TokenSet), GetTokens(ts)
  PROVE  read' \in Seq(TokenSet) /\ read' # <<>>
  BY DEF GetTokens

LEMMA LastTokenType ==
  ASSUME read \in Seq(TokenSet), read # <<>>
  PROVE  last_token \in TokenSet
  BY DEF last_token, Last

(***************************************************************************)
(* Nodes.                                                                  *)
(***************************************************************************)
GoodNodes(ns) == ns \in Seq(NodeSet) /\ Above(ns)

LEMMA NodeFilled ==
  ASSUME NEW r \in NodeSet, NEW n \in Nat
  PROVE  LET more == [r EXCEPT !.items = Append(r.items, n)]
         IN  more \in NodeSet /\ more.member = r.member /\ more.type = r.type
<1>1. r.items \in Seq(Nat)
  BY DEF NodeSet
<1>2. Append(r.items, n) \in Seq(Nat)
  BY <1>1
<1>. QED BY <1>2 DEF NodeSet

LEMMA NodeNamed ==
  ASSUME NEW r \in NodeSet, NEW n \in Nat, NEW name \in Keys
  PROVE  LET more == [r EXCEPT !.member = [r.member EXCEPT ![name] = n]]
         IN  /\ more \in NodeSet /\ more.type = r.type
             /\ \A k \in Keys : more.member[k] = IF k = name THEN n ELSE r.member[k]
<1>1. r.member \in [Keys -> Nat]
  BY DEF NodeSet
<1>2. /\ [r.member EXCEPT ![name] = n] \in [Keys -> Nat]
      /\ \A k \in Keys :
           [r.member EXCEPT ![name] = n][k] = IF k = name THEN n ELSE r.member[k]
  BY <1>1
<1>. QED BY <1>2 DEF NodeSet

(* A value that has just been made has no members. *)
Fresh(node) == node \in NodeSet /\ \A k \in Keys : node.member[k] = 0

LEMMA NewNodesFresh ==
  /\ Fresh(ArrayNode) /\ Fresh(ObjectNode) /\ Fresh(NullNode)
  /\ \A t \in TokenSet : Fresh(ScalarNode(t))
  /\ ArrayNode.type = "array" /\ ObjectNode.type = "object"
  BY TokensInSet
  DEF Fresh, ArrayNode, ObjectNode, NullNode, ScalarNode, Node, NodeSet

LEMMA StacksTyped ==
  ASSUME ParserInv, Running, ref_stack # <<>>
  PROVE  /\ Last(ref_stack) \in DOMAIN nodes
         /\ Last(ref_stack) = ref_stack[Len(ref_stack)]
         /\ Len(ref_stack) \in DOMAIN ref_stack
         /\ states # <<>> /\ Last(states) \in BOOLEAN
         /\ Container \in NodeSet
         /\ Container.type = IF Last(states) THEN "array" ELSE "object"
  BY DEF ParserInv, TypeOK, Nested, StacksAgree, Running, Container, Last

(* handle_value: the value is stored at Place, after every container being *)
(* filled, and those keep their types.                                     *)
LEMMA HandleValueFacts ==
  ASSUME ParserInv, phase = "value", NEW node, Fresh(node)
  PROVE  /\ GoodNodes(HandleValue(node))
         /\ Place \in DOMAIN HandleValue(node) /\ Place \in Nat
         /\ HandleValue(node)[Place] = node
         /\ \A i \in DOMAIN ref_stack :
              /\ ref_stack[i] < Place
              /\ ref_stack[i] \in DOMAIN HandleValue(node)
              /\ HandleValue(node)[ref_stack[i]].type = nodes[ref_stack[i]].type
<1> DEFINE new == HandleValue(node)
<1>0. nodes \in Seq(NodeSet) /\ Above(nodes) /\ Running /\ Nested
      /\ ref_stack \in Seq(Nat) /\ object_element \in Nat /\ node \in NodeSet
  BY DEF ParserInv, TypeOK, Running, Fresh
<1>1. CASE ref_stack = <<>>
  <2>1. new = <<node>> /\ Place = 1
    BY <1>1 DEF HandleValue, Place
  <2>2. Above(new)
    BY <2>1 DEF Above, Fresh
  <2>. QED BY <2>1, <2>2, <1>0, <1>1 DEF GoodNodes
<1>2. CASE ref_stack # <<>> /\ Container.type = "array"
  <2> DEFINE top == Last(ref_stack)
  <2> DEFINE grown == [nodes EXCEPT ![top].items = Append(@, Len(nodes) + 1)]
  <2>1. new = Append(grown, node) /\ Place = Len(nodes) + 1
    BY <1>2 DEF HandleValue, Place
  <2>2. top \in DOMAIN nodes
    BY <1>0, <1>2, StacksTyped
  <2>3. /\ grown \in Seq(NodeSet) /\ Len(grown) = Len(nodes)
        /\ \A n \in DOMAIN nodes : /\ grown[n].member = nodes[n].member
                                   /\ grown[n].type = nodes[n].type
    <3> DEFINE filled == [nodes[top] EXCEPT !.items = Append(nodes[top].items, Len(nodes) + 1)]
    <3>1. filled \in NodeSet /\ filled.member = nodes[top].member
          /\ filled.type = nodes[top].type
      <4>1. nodes[top] \in NodeSet /\ Len(nodes) + 1 \in Nat
        BY <1>0, <2>2
      <4>. QED BY <4>1, NodeFilled
    <3>2. grown = [nodes EXCEPT ![top] = filled]
      OBVIOUS
    <3> HIDE DEF filled, grown
    <3>. QED BY <1>0, <2>2, <3>1, <3>2
  <2> HIDE DEF grown
  <2>4. /\ new \in Seq(NodeSet) /\ Len(new) = Len(nodes) + 1
        /\ new[Len(nodes) + 1] = node
        /\ \A n \in DOMAIN nodes : new[n] = grown[n]
    BY <2>1, <2>3, <1>0
  <2>5. Above(new)
    BY <2>3, <2>4, <1>0 DEF Above, Fresh
  <2>6. \A i \in DOMAIN ref_stack : ref_stack[i] \in DOMAIN nodes
    BY <1>0 DEF Nested
  <2>. QED BY <2>1, <2>3, <2>4, <2>5, <2>6, <1>0 DEF GoodNodes
<1>3. CASE ref_stack # <<>> /\ Container.type # "array"
  <2>1. new = [nodes EXCEPT ![object_element] = node] /\ Place = object_element
    BY <1>3 DEF HandleValue, Place
  <2>2. /\ Last(ref_stack) \in DOMAIN nodes
        /\ states # <<>> /\ ~Last(states)
        /\ Last(ref_stack) = ref_stack[Len(ref_stack)]
        /\ Len(ref_stack) \in DOMAIN ref_stack
    BY <1>0, <1>3, StacksTyped
  <2>3. PICK k \in Keys : Container.member[k] = object_element /\ object_element # 0
    BY <1>0, <2>2 DEF ParserInv, StacksAgree
  <2>4. object_element \in DOMAIN nodes /\ Last(ref_stack) < object_element
    BY <1>0, <2>2, <2>3 DEF Above, Container
  <2>5. \A i \in DOMAIN ref_stack :
          ref_stack[i] < object_element /\ ref_stack[i] \in DOMAIN nodes
    <3>1. TAKE i \in DOMAIN ref_stack
    <3>2. i = Len(ref_stack) \/ i < Len(ref_stack)
      BY <1>0
    <3>3. ref_stack[i] \in DOMAIN nodes /\ ref_stack[i] \in Nat
      BY <1>0 DEF Nested
    <3>4. ref_stack[i] <= Last(ref_stack)
      BY <1>0, <2>2, <3>2, <3>3 DEF Nested
    <3>5. Last(ref_stack) \in Nat
      BY <1>0, <2>2
    <3>. QED BY <3>3, <3>4, <3>5, <2>4, <1>0
  <2>6. new \in Seq(NodeSet) /\ Len(new) = Len(nodes)
        /\ \A n \in DOMAIN nodes : new[n] = IF n = object_element THEN node ELSE nodes[n]
    BY <2>1, <2>4, <1>0
  <2>7. Above(new)
    BY <2>6, <1>0 DEF Above, Fresh
  <2>. QED BY <2>1, <2>4, <2>5, <2>6, <2>7, <1>0 DEF GoodNodes
<1>. QED BY <1>1, <1>2, <1>3

(* key: the place for the next value is a member of the object, after it. *)
LEMMA KeyFacts ==
  ASSUME NEW name \in Keys, NEW old, GoodNodes(old),
         NEW object \in DOMAIN old, Key(name, object, old)
  PROVE  /\ GoodNodes(nodes')
         /\ \A n \in DOMAIN old : n \in DOMAIN nodes' /\ nodes'[n].type = old[n].type
         /\ object_element' \in Nat /\ object_element' > object
         /\ nodes'[object].member[name] = object_element'
<1>0. old \in Seq(NodeSet) /\ Above(old) /\ object \in Nat
  BY DEF GoodNodes
<1>1. CASE old[object].member[name] # 0 /\ nodes' = old
           /\ object_element' = old[object].member[name]
  BY <1>0, <1>1 DEF GoodNodes, Above
<1>2. CASE /\ old[object].member[name] = 0
           /\ nodes' = Append([old EXCEPT ![object].member[name] = Len(old) + 1], NullNode)
           /\ object_element' = Len(old) + 1
  <2> DEFINE named == [old EXCEPT ![object].member[name] = Len(old) + 1]
  <2>1. /\ named \in Seq(NodeSet) /\ Len(named) = Len(old)
        /\ \A n \in DOMAIN old :
             /\ named[n].type = old[n].type
             /\ \A k \in Keys : named[n].member[k] =
                  IF n = object /\ k = name THEN Len(old) + 1 ELSE old[n].member[k]
    <3> DEFINE filled == [old[object] EXCEPT
                         !.member = [old[object].member EXCEPT ![name] = Len(old) + 1]]
    <3>1. /\ filled \in NodeSet /\ filled.type = old[object].type
          /\ \A k \in Keys : filled.member[k] =
               IF k = name THEN Len(old) + 1 ELSE old[object].member[k]
      <4>1. old[object] \in NodeSet /\ Len(old) + 1 \in Nat
        BY <1>0
      <4>. QED BY <4>1, NodeNamed
    <3>2. named = [old EXCEPT ![object] = filled]
      OBVIOUS
    <3> HIDE DEF filled, named
    <3>. QED BY <1>0, <3>1, <3>2
  <2>2. nodes' = Append(named, NullNode)
    BY <1>2
  <2> HIDE DEF named
  <2>3. NullNode \in NodeSet /\ \A k \in Keys : NullNode.member[k] = 0
    BY NewNodesFresh DEF Fresh
  <2>4. /\ nodes' \in Seq(NodeSet) /\ Len(nodes') = Len(old) + 1
        /\ nodes'[Len(old) + 1] = NullNode
        /\ \A n \in DOMAIN old : nodes'[n] = named[n]
    <3>1. named \in Seq(NodeSet) /\ Len(named) = Len(old) /\ NullNode \in NodeSet
      BY <2>1, <2>3
    <3>2. nodes' \in Seq(NodeSet) /\ Len(nodes') = Len(old) + 1
      BY <3>1, <2>2
    <3>3. nodes'[Len(old) + 1] = NullNode
      BY <3>1, <2>2
    <3>4. \A n \in 1 .. Len(named) : nodes'[n] = named[n]
      BY <3>1, <2>2
    <3>. QED BY <3>1, <3>2, <3>3, <3>4, <1>0
  <2>5. ASSUME NEW n \in DOMAIN nodes', NEW k \in Keys, nodes'[n].member[k] # 0
        PROVE  nodes'[n].member[k] \in DOMAIN nodes' /\ n < nodes'[n].member[k]
    <3>1. n \in DOMAIN old
      BY <2>3, <2>4, <2>5, <1>0
    <3>2. CASE n = object /\ k = name
      BY <2>1, <2>4, <3>1, <3>2, <1>0
    <3>3. CASE ~(n = object /\ k = name)
      <4>1. nodes'[n].member[k] = old[n].member[k]
        BY <2>1, <2>4, <3>1, <3>3
      <4>2. old[n].member[k] \in DOMAIN old /\ n < old[n].member[k]
        BY <4>1, <3>1, <2>5, <1>0 DEF Above
      <4>. QED BY <4>1, <4>2, <2>4, <1>0
    <3>. QED BY <3>2, <3>3
  <2>6. GoodNodes(nodes')
    BY <2>4, <2>5 DEF GoodNodes, Above
  <2>7. \A n \in DOMAIN old : n \in DOMAIN nodes' /\ nodes'[n].type = old[n].type
    BY <2>1, <2>4, <1>0
  <2>8. nodes'[object].member[name] = object_element'
    BY <2>1, <2>4, <1>0, <1>2
  <2>. QED BY <2>6, <2>7, <2>8, <1>0, <1>2
<1>. QED BY <1>1, <1>2 DEF Key

(***************************************************************************)
(* The steps.                                                              *)
(***************************************************************************)
ReadTyped == read \in Seq(TokenSet) /\ read # <<>>

LEMMA RejectsInv ==
  ASSUME ParserInv, ReadTyped', Rejects
  PROVE  ParserInv'
<1>1. ~Running'
  BY DEF Rejects, Running
<1>2. TypeOK'
  BY DEF ParserInv, TypeOK, ReadTyped, Rejects, domVars
<1>3. Above(nodes)'
  BY DEF ParserInv, Rejects, domVars, Above
<1>. QED BY <1>1, <1>2, <1>3 DEF ParserInv, StacksAgree

(* A whole value is stored: a scalar, or an empty container. *)
LEMMA ValueStored ==
  ASSUME ParserInv, phase = "value", ReadTyped', NEW node, Fresh(node),
         nodes' = HandleValue(node), phase' = "state",
         UNCHANGED <<states, ref_stack, object_element>>
  PROVE  ParserInv'
<1>1. /\ GoodNodes(nodes')
      /\ \A i \in DOMAIN ref_stack :
           /\ ref_stack[i] \in DOMAIN nodes'
           /\ nodes'[ref_stack[i]].type = nodes[ref_stack[i]].type
  BY HandleValueFacts
<1>2. TypeOK'
  BY <1>1 DEF ParserInv, TypeOK, ReadTyped, GoodNodes
<1>3. Nested'
  BY <1>1 DEF ParserInv, Running, Nested
<1>4. StacksAgree'
  BY <1>1 DEF ParserInv, StacksAgree, Running
<1>5. Above(nodes)'
  BY <1>1 DEF GoodNodes, Above
<1>. QED BY <1>2, <1>3, <1>4, <1>5 DEF ParserInv

(* A container is opened: it lies at Place, above the others. *)
LEMMA ContainerOpened ==
  ASSUME ParserInv, phase = "value", ReadTyped',
         NEW isArray \in BOOLEAN, NEW node,
         Fresh(node), node.type = (IF isArray THEN "array" ELSE "object"),
         GoodNodes(nodes'), object_element' \in Nat, phase' = "value",
         \A n \in DOMAIN HandleValue(node) :
           n \in DOMAIN nodes' /\ nodes'[n].type = HandleValue(node)[n].type,
         isArray \/ /\ object_element' > Place
                    /\ \E k \in Keys : nodes'[Place].member[k] = object_element',
         ref_stack' = Append(ref_stack, Place), states' = Append(states, isArray)
  PROVE  ParserInv'
<1>0. /\ ref_stack \in Seq(Nat) /\ states \in Seq(BOOLEAN) /\ Running
      /\ Len(ref_stack) = Len(states) /\ Nested
      /\ \A i \in DOMAIN states :
           nodes[ref_stack[i]].type = IF states[i] THEN "array" ELSE "object"
  BY DEF ParserInv, TypeOK, Running, StacksAgree
<1>1. /\ Place \in Nat /\ Place \in DOMAIN HandleValue(node)
      /\ HandleValue(node)[Place] = node
      /\ \A i \in DOMAIN ref_stack :
           /\ ref_stack[i] < Place
           /\ ref_stack[i] \in DOMAIN HandleValue(node)
           /\ HandleValue(node)[ref_stack[i]].type = nodes[ref_stack[i]].type
  BY HandleValueFacts
<1>2. /\ ref_stack' \in Seq(Nat) /\ Len(ref_stack') = Len(ref_stack) + 1
      /\ ref_stack'[Len(ref_stack) + 1] = Place
      /\ \A i \in 1 .. Len(ref_stack) : ref_stack'[i] = ref_stack[i]
  BY <1>0, <1>1
<1>3. /\ states' \in Seq(BOOLEAN) /\ Len(states') = Len(states) + 1
      /\ states'[Len(states) + 1] = isArray
      /\ \A i \in 1 .. Len(states) : states'[i] = states[i]
  BY <1>0
<1>4. TypeOK'
  BY <1>2, <1>3 DEF ParserInv, TypeOK, ReadTyped, GoodNodes
<1>5. Nested'
  <2>1. \A i \in DOMAIN ref_stack' : ref_stack'[i] \in DOMAIN nodes'
    BY <1>0, <1>1, <1>2
  <2>2. \A i, j \in DOMAIN ref_stack' : i < j => ref_stack'[i] < ref_stack'[j]
    BY <1>0, <1>1, <1>2 DEF Nested
  <2>. QED BY <2>1, <2>2 DEF Nested
<1>6. StacksAgree'
  <2>1. Len(ref_stack') = Len(states')
    BY <1>0, <1>2, <1>3
  <2>2. \A i \in DOMAIN states' :
          nodes'[ref_stack'[i]].type = IF states'[i] THEN "array" ELSE "object"
    <3>1. TAKE i \in DOMAIN states'
    <3>2. CASE i \in 1 .. Len(states)
      BY <1>0, <1>1, <1>2, <1>3, <3>2
    <3>3. CASE i = Len(states) + 1
      BY <1>0, <1>1, <1>2, <1>3, <3>3
    <3>. QED BY <1>0, <1>3, <3>2, <3>3
  <2>3. Last(states') = isArray /\ Last(ref_stack') = Place
    BY <1>0, <1>2, <1>3 DEF Last
  <2>4. ~isArray =>
          /\ \E k \in Keys : Container'.member[k] = object_element'
          /\ object_element' # 0
          /\ \A i \in DOMAIN ref_stack' : ref_stack'[i] # object_element'
    BY <1>0, <1>1, <1>2, <2>3 DEF Container
  <2>. QED BY <2>1, <2>2, <2>3, <2>4 DEF StacksAgree
<1>7. Above(nodes)'
  BY DEF GoodNodes, Above
<1>. QED BY <1>4, <1>5, <1>6, <1>7 DEF ParserInv

(* The innermost container is left. *)
LEMMA ContainerLeft ==
  ASSUME ParserInv, phase = "state", states # <<>>, ReadTyped', End,
         states' = Front(states), UNCHANGED <<phase, nodes, object_element>>
  PROVE  ParserInv'
<1>0. /\ ref_stack \in Seq(Nat) /\ states \in Seq(BOOLEAN) /\ Running
      /\ Len(ref_stack) = Len(states) /\ Nested /\ Len(states) # 0
      /\ \A i \in DOMAIN states :
           nodes[ref_stack[i]].type = IF states[i] THEN "array" ELSE "object"
  BY DEF ParserInv, TypeOK, Running, StacksAgree
<1>1. /\ ref_stack' \in Seq(Nat) /\ Len(ref_stack') = Len(ref_stack) - 1
      /\ \A i \in DOMAIN ref_stack' :
           i \in DOMAIN ref_stack /\ ref_stack'[i] = ref_stack[i]
  BY <1>0 DEF End, Front
<1>2. /\ states' \in Seq(BOOLEAN) /\ Len(states') = Len(states) - 1
      /\ \A i \in DOMAIN states' : i \in DOMAIN states /\ states'[i] = states[i]
  BY <1>0 DEF Front
<1>3. TypeOK'
  BY <1>1, <1>2 DEF ParserInv, TypeOK, ReadTyped
<1>4. Nested'
  BY <1>0, <1>1 DEF Nested
<1>5. StacksAgree'
  BY <1>0, <1>1, <1>2 DEF StacksAgree
<1>6. Above(nodes)'
  BY DEF ParserInv, Above
<1>. QED BY <1>3, <1>4, <1>5, <1>6 DEF ParserInv

(* A key leads to the value of a member of the object being read. *)
LEMMA MemberNamed ==
  ASSUME ParserInv, InObject, ReadTyped', NEW name \in Keys,
         Key(name, Last(ref_stack), nodes), phase' = "value",
         UNCHANGED <<states, ref_stack>>
  PROVE  ParserInv'
<1>0. /\ ref_stack \in Seq(Nat) /\ states \in Seq(BOOLEAN) /\ Running
      /\ Len(ref_stack) = Len(states) /\ Nested /\ states # <<>> /\ ref_stack # <<>>
      /\ \A i \in DOMAIN states :
           nodes[ref_stack[i]].type = IF states[i] THEN "array" ELSE "object"
      /\ GoodNodes(nodes)
  BY DEF ParserInv, TypeOK, Running, StacksAgree, InObject, GoodNodes
<1>1. /\ Last(ref_stack) \in DOMAIN nodes /\ Len(ref_stack) \in DOMAIN ref_stack
      /\ Last(ref_stack) = ref_stack[Len(ref_stack)] /\ Last(ref_stack) \in Nat
  BY <1>0, StacksTyped
<1>2. /\ GoodNodes(nodes')
      /\ \A n \in DOMAIN nodes : n \in DOMAIN nodes' /\ nodes'[n].type = nodes[n].type
      /\ object_element' \in Nat /\ object_element' > Last(ref_stack)
      /\ nodes'[Last(ref_stack)].member[name] = object_element'
  BY <1>0, <1>1, KeyFacts
<1>3. TypeOK'
  BY <1>2 DEF ParserInv, TypeOK, ReadTyped, GoodNodes
<1>4. Nested'
  BY <1>0, <1>2 DEF Nested
<1>5. StacksAgree'
  <2>1. \A i \in DOMAIN states' :
          nodes'[ref_stack'[i]].type = IF states'[i] THEN "array" ELSE "object"
    BY <1>0, <1>2 DEF Nested
  <2>2. \E k \in Keys : Container'.member[k] = object_element'
    BY <1>2 DEF Container
  <2>3. \A i \in DOMAIN ref_stack : ref_stack[i] <= Last(ref_stack)
    <3>1. TAKE i \in DOMAIN ref_stack
    <3>2. i = Len(ref_stack) \/ i < Len(ref_stack)
      BY <1>0
    <3>. QED BY <1>0, <1>1, <3>2 DEF Nested
  <2>4. \A i \in DOMAIN ref_stack' : ref_stack'[i] # object_element'
    <3>1. TAKE i \in DOMAIN ref_stack
    <3>2. ref_stack[i] \in Nat /\ ref_stack[i] <= Last(ref_stack)
      BY <1>0, <2>3
    <3>. QED BY <3>2, <1>1, <1>2
  <2>. QED BY <1>0, <1>1, <1>2, <2>1, <2>2, <2>4 DEF StacksAgree
<1>6. Above(nodes)'
  BY <1>2 DEF GoodNodes, Above
<1>. QED BY <1>3, <1>4, <1>5, <1>6 DEF ParserInv

LEMMA InitInv == Init => ParserInv
<1> SUFFICES ASSUME Init PROVE ParserInv
  OBVIOUS
<1>1. /\ nodes \in Seq(NodeSet) /\ Len(nodes) = 1
      /\ \A k \in Keys : nodes[1].member[k] = 0
  BY NewNodesFresh DEF Init, Fresh
<1>2. TypeOK
  BY <1>1, TokensInSet DEF Init, TypeOK
<1>3. Above(nodes)
  BY <1>1 DEF Above
<1>4. Nested /\ StacksAgree
  BY DEF Init, Nested, StacksAgree
<1>. QED BY <1>2, <1>3, <1>4 DEF ParserInv

LEMMA ReadStaysTyped ==
  ASSUME ParserInv, Next
  PROVE  ReadTyped'
<1>0. read \in Seq(TokenSet) /\ read # <<>>
  BY DEF ParserInv, TypeOK
<1>1. CASE UNCHANGED read
  BY <1>0, <1>1 DEF ReadTyped
<1>2. CASE \E ts \in Seq(TokenSet) : GetTokens(ts)
  BY <1>0, <1>2, GetTokensRead DEF ReadTyped
<1>3. ASSUME NEW a \in TokenSet PROVE <<a>> \in Seq(TokenSet)
  OBVIOUS
<1>4. ASSUME NEW a \in TokenSet, NEW b \in TokenSet
      PROVE  <<a, b>> \in Seq(TokenSet)
  OBVIOUS
<1>5. ASSUME NEW a \in TokenSet, NEW b \in TokenSet, NEW c \in TokenSet
      PROVE  <<a, b, c>> \in Seq(TokenSet)
  OBVIOUS
<1>6. ASSUME NEW a \in TokenSet, NEW b \in TokenSet, NEW c \in TokenSet,
             NEW d \in TokenSet
      PROVE  <<a, b, c, d>> \in Seq(TokenSet)
  OBVIOUS
<1>7. Strings \subseteq TokenSet /\ BeginObject \in TokenSet /\ EndObject \in TokenSet
      /\ EndArray \in TokenSet /\ Colon \in TokenSet /\ Comma \in TokenSet
      /\ EndOfInput \in TokenSet
  BY TokensInSet
<1>8. UNCHANGED read \/ \E ts \in Seq(TokenSet) : GetTokens(ts)
  <2>1. CASE ParseScalar
    BY <2>1 DEF ParseScalar
  <2>2. CASE ParseEmptyObject
    BY <2>2, <1>3, <1>7 DEF ParseEmptyObject
  <2>3. CASE ParseObject
    BY <2>3, <1>5, <1>7 DEF ParseObject
  <2>4. CASE ParseEmptyArray
    BY <2>4, <1>3, <1>7 DEF ParseEmptyArray
  <2>5. CASE ParseArray
    BY <2>5, <1>3 DEF ParseArray
  <2>6. CASE ValueError
    BY <2>6, <1>3, <1>4, <1>7 DEF ValueError
  <2>7. CASE NextItem
    BY <2>7, <1>4, <1>7 DEF NextItem
  <2>8. CASE NextMember
    BY <2>8, <1>6, <1>7 DEF NextMember
  <2>9. CASE LeaveObject
    BY <2>9, <1>3, <1>7 DEF LeaveObject
  <2>10. CASE LeaveArray
    BY <2>10, <1>3, <1>7 DEF LeaveArray
  <2>11. CASE StateError
    BY <2>11, <1>3, <1>4, <1>5, <1>7 DEF StateError
  <2>12. CASE Accept
    BY <2>12, <1>3, <1>7 DEF Accept
  <2>13. CASE TrailingTokens
    BY <2>13, <1>3 DEF TrailingTokens
  <2>. QED
    BY <2>1, <2>2, <2>3, <2>4, <2>5, <2>6, <2>7, <2>8, <2>9, <2>10, <2>11,
       <2>12, <2>13 DEF Next
<1>. QED BY <1>1, <1>2, <1>8

LEMMA NextInv == ParserInv /\ [Next]_vars => ParserInv'
<1> SUFFICES ASSUME ParserInv, [Next]_vars PROVE ParserInv'
  OBVIOUS
<1>1. CASE UNCHANGED vars
  BY <1>1 DEF vars, domVars, ParserInv, TypeOK, Above, Nested, StacksAgree, Running,
              Container
<1>2. CASE Next
  <2>1. ReadTyped' /\ last_token \in TokenSet
    BY <1>2, ReadStaysTyped, LastTokenType DEF ParserInv, TypeOK
  <2>2. CASE ParseScalar
    BY <2>1, <2>2, NewNodesFresh, ValueStored DEF ParseScalar
  <2>3. CASE ParseEmptyObject
    BY <2>1, <2>3, NewNodesFresh, ValueStored DEF ParseEmptyObject
  <2>4. CASE ParseEmptyArray
    BY <2>1, <2>4, NewNodesFresh, ValueStored DEF ParseEmptyArray
  <2>5. CASE ParseObject
    <3>1. PICK name \in Strings : Key(name.value, Place, HandleValue(ObjectNode))
      BY <2>5 DEF ParseObject
    <3>2. name.value \in Keys
      BY <3>1 DEF Strings
    <3>3. phase = "value" /\ phase' = "value" /\ states' = Append(states, FALSE)
          /\ ref_stack' = Append(ref_stack, Place)
      BY <2>5 DEF ParseObject
    <3>4. /\ GoodNodes(HandleValue(ObjectNode))
          /\ Place \in DOMAIN HandleValue(ObjectNode)
      BY <3>3, NewNodesFresh, HandleValueFacts
    <3>5. /\ GoodNodes(nodes')
          /\ \A n \in DOMAIN HandleValue(ObjectNode) :
               n \in DOMAIN nodes' /\ nodes'[n].type = HandleValue(ObjectNode)[n].type
          /\ object_element' \in Nat /\ object_element' > Place
          /\ nodes'[Place].member[name.value] = object_element'
      BY <3>1, <3>2, <3>4, KeyFacts
    <3>. QED BY <2>1, <3>2, <3>3, <3>5, NewNodesFresh, ContainerOpened
  <2>6. CASE ParseArray
    <3>1. phase = "value" /\ phase' = "value" /\ states' = Append(states, TRUE)
          /\ ref_stack' = Append(ref_stack, Place) /\ nodes' = HandleValue(ArrayNode)
          /\ object_element' = object_element
      BY <2>6 DEF ParseArray, Start
    <3>2. GoodNodes(nodes') /\ object_element' \in Nat
      BY <3>1, NewNodesFresh, HandleValueFacts DEF ParserInv, TypeOK
    <3>. QED BY <2>1, <3>1, <3>2, NewNodesFresh, ContainerOpened
  <2>7. CASE ValueError
    BY <2>1, <2>7, RejectsInv DEF ValueError
  <2>8. CASE NextItem
    <3>1. Running /\ Running' /\ states # <<>> /\ Last(states) /\ phase' = "value"
      BY <2>8 DEF NextItem, InArray, Running
    <3>2. UNCHANGED <<states, nodes, ref_stack, object_element>>
      BY <2>8 DEF NextItem, domVars
    <3>3. TypeOK'
      BY <2>1, <3>1, <3>2 DEF ParserInv, TypeOK, ReadTyped
    <3>. QED BY <3>1, <3>2, <3>3 DEF ParserInv, Above, Nested, StacksAgree
  <2>9. CASE NextMember
    <3>1. PICK name \in Strings : Key(name.value, Last(ref_stack), nodes)
      BY <2>9 DEF NextMember
    <3>2. name.value \in Keys
      BY <3>1 DEF Strings
    <3>. QED BY <2>1, <2>9, <3>1, <3>2, MemberNamed DEF NextMember
  <2>10. CASE LeaveObject
    BY <2>1, <2>10, ContainerLeft DEF LeaveObject, InObject
  <2>11. CASE LeaveArray
    BY <2>1, <2>11, ContainerLeft DEF LeaveArray, InArray
  <2>12. CASE StateError
    BY <2>1, <2>12, RejectsInv DEF StateError
  <2>13. CASE Accept
    <3>1. ~Running' /\ phase' = "accepted"
          /\ UNCHANGED <<states, nodes, ref_stack, object_element>>
      BY <2>13 DEF Accept, Running, domVars
    <3>2. TypeOK'
      BY <2>1, <3>1 DEF ParserInv, TypeOK, ReadTyped
    <3>. QED BY <3>1, <3>2 DEF ParserInv, Above, StacksAgree
  <2>14. CASE TrailingTokens
    BY <2>1, <2>14, RejectsInv DEF TrailingTokens
  <2>. QED
    BY <1>2, <2>2, <2>3, <2>4, <2>5, <2>6, <2>7, <2>8, <2>9, <2>10, <2>11,
       <2>12, <2>13, <2>14 DEF Next
<1>. QED BY <1>1, <1>2

(* Whatever the text: the containers that sax_parse_internal believes it is *)
(* in are those that the value's builder fills, so end_array and           *)
(* end_object close the right one.                                         *)
THEOREM ParserInvariant == Spec => []ParserInv
<1>. QED BY InitInv, NextInv, PTL DEF Spec

(* In particular the JSON_ASSERTs of json_sax_dom_parser hold, and a value *)
(* is never stored over a container that is still being filled.            *)
THEOREM ParserStacksAgree == Spec => []StacksAgree
<1>1. ParserInv => StacksAgree
  BY DEF ParserInv
<1>. QED BY <1>1, ParserInvariant, PTL
============================================================================
