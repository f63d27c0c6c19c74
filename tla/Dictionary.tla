----------------------------- MODULE Dictionary -----------------------------
(***************************************************************************)
(* What the users of a hash table rely on: adding, removing and looking up *)
(* a key answer the value the key had, None if it had none.                *)
(***************************************************************************)
CONSTANTS Keys, Vals, None

VARIABLES map, answer

Init == map = [k \in Keys |-> None] /\ answer = None

Put(k, v) ==
    /\ map' = [map EXCEPT ![k] = v]
    /\ answer' = map[k]

Look(k) == answer' = map[k] /\ UNCHANGED map

Next == \E k \in Keys : Look(k) \/ \E v \in Vals \cup {None} : Put(k, v)

Spec == Init /\ [][Next]_<<map, answer>>
=============================================================================
