------------------------------ MODULE DictMap ------------------------------
(***************************************************************************)
(* What the dictionary of src/src/dict.c promises its callers: a map from   *)
(* keys to values.  Two of its limits are part of the promise.  A delete    *)
(* may also forget other keys of the same class, which are the keys with    *)
(* the same low four bits, and a set may be refused, which is a step that   *)
(* leaves the map alone.  Keys of other classes are never touched.          *)
(***************************************************************************)
CONSTANTS Key, Value, NoValue,
          Class(_)   \* the class of a key

VARIABLE map

TypeOK == map \in [Key -> Value \cup {NoValue}]

Init == map = [k \in Key |-> NoValue]

Others(k) == {j \in Key \ {k} : Class(j) = Class(k) /\ map[j] # NoValue}

Set(k, v) == map' = [map EXCEPT ![k] = v]

Delete(k) ==
    /\ map[k] # NoValue
    /\ \E lost \in SUBSET Others(k) :
          map' = [j \in Key |-> IF j = k \/ j \in lost THEN NoValue ELSE map[j]]

\* Every key is visited and deleted, or lost.
Clear == map' = [k \in Key |-> NoValue]

Next ==
    \/ \E k \in Key : Delete(k) \/ \E v \in Value : Set(k, v)
    \/ Clear

Spec == Init /\ [][Next]_map

=============================================================================
