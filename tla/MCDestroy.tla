----------------------------- MODULE MCDestroy -----------------------------
EXTENDS JsonDestroy, FiniteSetsExt, SequencesExt

(* Every way to nest the values, of which the first is the root: each of   *)
(* the others lies in one with a smaller number.                           *)
Parents == {p \in [Values \ {1} -> Values] : \A v \in Values \ {1} : p[v] < v}
Within(p, v) == {w \in Values \ {1} : p[w] = v}

MCDocuments ==
  UNION {{[root |-> 1, kind |-> k,
           items |-> [v \in Values |-> SetToSortSeq(Within(p, v), <)]] :
            k \in {x \in [Values -> Kinds] :
                     \A v \in Values : Within(p, v) # {} => x[v] # "string"}} :
          p \in Parents}
============================================================================
