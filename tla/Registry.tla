------------------------------- MODULE Registry -------------------------------
(* What the index file promises: a key that asks for an index is given the  *)
(* lowest one nobody has, and keeps it for ever.                            *)
EXTENDS Naturals

CONSTANT Keys

VARIABLE index  \* the index of each key that has one

Known == DOMAIN index

Init == Known = {}

Assign(k) ==
  /\ k \notin Known
  /\ index' \in [Known \cup {k} -> Nat]
  /\ \A j \in Known : index'[j] = index[j] /\ index'[k] # index[j]
  /\ \A n \in 0..(index'[k] - 1) : \E j \in Known : index[j] = n

Next == \E k \in Keys : Assign(k)

Spec == Init /\ [][Next]_index
=============================================================================
