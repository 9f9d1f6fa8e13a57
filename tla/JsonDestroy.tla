---------------------------- MODULE JsonDestroy ----------------------------
(***************************************************************************)
(* How a JSON value is destroyed (src/include/json/json.hpp, destroy):     *)
(* what a container holds is first moved to a stack on the heap, so that   *)
(* the destructors of nested values do not call each other as deep as the  *)
(* values are nested; an answer of the server may be nested as it likes.   *)
(* An element that has been moved away is Moved: a null that owns nothing. *)
(***************************************************************************)
EXTENDS Sequences, Naturals, FiniteSets, Functions

CONSTANTS
  Values,       \* the JSON values of a document
  Moved,
  Documents,    \* how they may be nested: for each document its root, what
                \* kind each value is, and the items that each holds
  Kinds         \* "array", "object" and those that hold no values

ASSUME ValuesAssumption == Moved \notin Values
ASSUME DocumentsAssumption ==
  Documents \subseteq [root : Values, kind : [Values -> Kinds], items : [Values -> Seq(Values)]]

(* The value that is destroyed lies in none of those that lie in it, and   *)
(* each of these in one place: a container owns what it holds, so nothing  *)
(* holds itself, however far down.                                         *)
ASSUME RootAssumption ==
  \A d \in Documents : \A v \in Values : \A i \in DOMAIN d.items[v] : d.items[v][i] # d.root

Apart(holds) ==
  \A c1, c2 \in Values : \A i \in DOMAIN holds[c1], j \in DOMAIN holds[c2] :
    holds[c1][i] = holds[c2][j] /\ holds[c1][i] # Moved => c1 = c2 /\ i = j

Grounded(holds) ==
  \A S \in (SUBSET Values) \ {{}} : \E v \in S : \A c \in S : v \notin Range(holds[c])

ASSUME NestingAssumption ==
  \A d \in Documents :
    /\ \A v \in Values \ {d.root} : \E c \in Values : v \in Range(d.items[c])
    /\ Apart(d.items) /\ Grounded(d.items)

VARIABLES
  kind,
  items,        \* what each container holds now
  calls,        \* the calls of destroy that have not returned, the last on top
  freed         \* the values whose storage has been given back, in this order

vars == <<kind, items, calls, freed>>

Call(v) == [value |-> v, begun |-> FALSE, stack |-> <<>>]
top == calls[Len(calls)]
Callers == SubSeq(calls, 1, Len(calls) - 1)

Init ==
  \E d \in Documents :
    /\ kind = d.kind /\ items = d.items
    /\ calls = <<Call(d.root)>> /\ freed = <<>>

AllMoved(s) == [i \in DOMAIN s |-> Moved]

(* Mutant: the elements are copied to the stack.                           *)
FlattenCopies ==
  /\ calls # <<>> /\ ~top.begun
  /\ calls' = Append(Callers, [top EXCEPT !.begun = TRUE,
                                          !.stack = SelectSeq(items[top.value],
                                                              LAMBDA v : v # Moved)])
  /\ UNCHANGED <<kind, items, freed>>

(* The elements of the value go to the stack; the container keeps nulls.   *)
Flatten ==
  /\ calls # <<>> /\ ~top.begun
  /\ calls' = Append(Callers, [top EXCEPT !.begun = TRUE, !.stack = items[top.value]])
  /\ items' = [items EXCEPT ![top.value] = AllMoved(@)]
  /\ UNCHANGED <<kind, freed>>

(* Mutant: only the elements of arrays are moved on.                       *)
ProcessArrays ==
  /\ calls # <<>> /\ top.begun /\ top.stack # <<>>
  /\ LET current_item == top.stack[Len(top.stack)]
         rest == SubSeq(top.stack, 1, Len(top.stack) - 1)
         more == IF kind[current_item] = "array" THEN items[current_item] ELSE <<>>
     IN  /\ calls' = Callers \o <<[top EXCEPT !.stack = rest \o more], Call(current_item)>>
         /\ items' = IF kind[current_item] = "array"
                     THEN [items EXCEPT ![current_item] = <<>>] ELSE items
  /\ UNCHANGED <<kind, freed>>

(* Mutant: the elements are cleared before they are moved on.              *)
ProcessCleared ==
  /\ calls # <<>> /\ top.begun /\ top.stack # <<>>
  /\ LET current_item == top.stack[Len(top.stack)]
         rest == SubSeq(top.stack, 1, Len(top.stack) - 1)
     IN  /\ calls' = Callers \o <<[top EXCEPT !.stack = rest], Call(current_item)>>
         /\ items' = [items EXCEPT ![current_item] = <<>>]
  /\ UNCHANGED <<kind, freed>>

(* The last item of the stack gives its elements to the stack, and is then *)
(* destroyed.                                                              *)
Process ==
  /\ calls # <<>> /\ top.begun /\ top.stack # <<>>
  /\ LET current_item == top.stack[Len(top.stack)]
         rest == SubSeq(top.stack, 1, Len(top.stack) - 1)
     IN  /\ calls' = Callers \o <<[top EXCEPT !.stack = rest \o items[current_item]],
                                  Call(current_item)>>
         /\ items' = [items EXCEPT ![current_item] = <<>>]
  /\ UNCHANGED <<kind, freed>>

(* The container is given back: its elements are destroyed, a Moved one at *)
(* no cost, any other by a call; then the call returns.                    *)
Release ==
  /\ calls # <<>> /\ top.begun /\ top.stack = <<>>
  /\ LET held == items[top.value]
     IN  IF \E i \in DOMAIN held : held[i] # Moved
         THEN \E i \in DOMAIN held :
                /\ held[i] # Moved /\ \A j \in DOMAIN held : j < i => held[j] = Moved
                /\ calls' = Append(calls, Call(held[i]))
                /\ items' = [items EXCEPT ![top.value][i] = Moved]
                /\ UNCHANGED freed
         ELSE /\ freed' = Append(freed, top.value) /\ calls' = Callers
              /\ UNCHANGED items
  /\ UNCHANGED kind

Next == Flatten \/ Process \/ Release

Spec == Init /\ [][Next]_vars

(***************************************************************************)
(* Properties.                                                             *)
(***************************************************************************)
(* json.hpp:19868, "flatten the current json_value to a heap-allocated     *)
(* stack": however deep a value is nested, a call of destroy makes calls   *)
(* that make none.                                                         *)
CallsShallow == Len(calls) <= 2

(* Why: what the first call has taken from its value are nulls, and a      *)
(* value that is on its stack is empty when it is destroyed.               *)
FirstCall ==
  LET first == calls[1]
      others == Values \ {first.value}
  IN  /\ first.value \in Values /\ first.begun \in BOOLEAN
      /\ \A v \in others : items[v] \in Seq(others)
      /\ IF first.begun THEN items[first.value] \in Seq({Moved}) /\ first.stack \in Seq(others)
         ELSE items[first.value] \in Seq(others) /\ Len(calls) = 1

SecondCall ==
  /\ calls[1].begun
  /\ calls[2].value \in Values \ {calls[1].value} /\ calls[2].begun \in BOOLEAN
  /\ items[calls[2].value] = <<>>
  /\ calls[2].begun => calls[2].stack = <<>>

CallSet == [value : Values, begun : BOOLEAN, stack : Seq(Values)]

FlatInv ==
  /\ calls \in Seq(CallSet)
  /\ items \in [Values -> Seq(Values \cup {Moved})]
  /\ Len(calls) <= 2
  /\ Len(calls) >= 1 => FirstCall
  /\ Len(calls) = 2 => SecondCall

(* Nothing is freed twice, and nothing is left when destroy returns.       *)
FreedOnce == IsInjective(freed) /\ (calls = <<>> => Range(freed) = Values)

(* A value that has not been freed has one owner: a container, the stack   *)
(* of a call, or the call that destroys it; one that has been, none.       *)
Owners(v) ==
  LET held(c) == {<<"item", c, i>> : i \in {j \in DOMAIN items[c] : items[c][j] = v}}
      stacked(k) == {<<"stack", k, i>> :
                       i \in {j \in DOMAIN calls[k].stack : calls[k].stack[j] = v}}
  IN  (UNION {held(c) : c \in Values}) \cup (UNION {stacked(k) : k \in DOMAIN calls})
        \cup {<<"call", k>> : k \in {n \in DOMAIN calls : calls[n].value = v}}

OneOwner ==
  \A v \in Values :
    Cardinality(Owners(v)) = IF v \in Range(freed) THEN 0 ELSE 1

(* Why: a value lies in a container, is on the stack of the first call, is *)
(* being destroyed or has been, and each of these moves it to the next; a  *)
(* value that has been freed holds nulls only.                             *)
Lies(v) == \E c \in Values : v \in Range(items[c])
Stacked(v) == \E k \in DOMAIN calls : v \in Range(calls[k].stack)
Called(v) == \E k \in DOMAIN calls : calls[k].value = v

OnePlace(v) ==
  /\ v \notin Range(freed) <=> Lies(v) \/ Stacked(v) \/ Called(v)
  /\ Called(v) => ~Lies(v) /\ ~Stacked(v)
  /\ Lies(v) => ~Stacked(v)

OwnInv ==
  /\ freed \in Seq(Values) /\ IsInjective(freed)
  /\ Apart(items) /\ Grounded(items)
  /\ \A k \in DOMAIN calls :
       IsInjective(calls[k].stack) /\ (~calls[k].begun => calls[k].stack = <<>>)
  /\ \A v \in Values : OnePlace(v)
  /\ \A v \in Range(freed) : items[v] \in Seq({Moved})
============================================================================
