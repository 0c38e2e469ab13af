-------------------------------- MODULE Dict --------------------------------
(***************************************************************************)
(* The dictionary of src/src/dict.c, in which the server keeps its clients, *)
(* sockets and routes: a trie of buckets, one four-bit digit of the key to  *)
(* a level.  A slot holds one key; a second key with the same digits so far *)
(* goes to the bucket that hangs from the slot (next).                      *)
(*                                                                          *)
(* A key is the function from the places of its digits to the digits, the   *)
(* lowest first.  The digits beyond Depth are never looked at.  A bucket is *)
(* named by the digits that lead to it and so is a slot: buckets that were  *)
(* cut off are never reached again, and a new one is cleared when it is     *)
(* made.  malloc() is taken to succeed.                                     *)
(***************************************************************************)
EXTENDS Integers

CONSTANTS
    Depth,       \* levels of buckets: 7
    Digit,       \* the digits: 0 .. 15
    Key,         \* the keys used
    Value,       \* what they are mapped to
    NoValue      \* NULL

ASSUME DictAssumption ==
    /\ Depth \in Nat /\ Depth > 0
    /\ Key \subseteq [0 .. Depth -> Digit]
    /\ NoValue \notin Value

VARIABLE
    slot         \* the slots, by place

vars == <<slot>>

---------------------------------------------------------------------------
Level == 0 .. (Depth - 1)

\* The slot of key k on a level: the digits that lead to it.
Place(k, level) == [i \in 0 .. level |-> k[i]]

Places == {Place(k, level) : k \in Key, level \in Level}

NoKey == [i \in {} |-> 0]

Slot == [set : BOOLEAN, key : Key \cup {NoKey},
         value : Value \cup {NoValue}, next : BOOLEAN]

EmptySlot == [set |-> FALSE, key |-> NoKey, value |-> NoValue, next |-> FALSE]

\* The key was met on a level, or another one that has a bucket under it.
Holds(d, k, level)  == d[Place(k, level)].set /\ d[Place(k, level)].key = k
Passes(d, k, level) == d[Place(k, level)].set /\ d[Place(k, level)].key # k

\* patty_dict_slot_find(): the level of the key, if it is there.
SlotFind(d, k) ==
    {l \in Level : /\ Holds(d, k, l)
                   /\ \A m \in 0 .. (l - 1) :
                         Passes(d, k, m) /\ d[Place(k, m)].next}

\* patty_dict_get()
DictGet(d, k) ==
    IF SlotFind(d, k) = {} THEN NoValue
    ELSE LET l == CHOOSE l \in SlotFind(d, k) : TRUE IN d[Place(k, l)].value

---------------------------------------------------------------------------
\* Where the walk of patty_dict_set() ends: at a slot that is free or holds
\* the key, or has no bucket under it.  None: all levels are taken.
WalkEnd(d, k) ==
    {l \in Level : /\ ~Passes(d, k, l) \/ ~d[Place(k, l)].next
                   /\ \A m \in 0 .. (l - 1) : Passes(d, k, m) /\ d[Place(k, m)].next}

Store(d, at, k, v) ==
    [p \in Places |->
        IF p = at THEN [d[p] EXCEPT !.set = TRUE, !.key = k, !.value = v] ELSE d[p]]

\* Mutant: the memory of a new bucket is not cleared.
NewBucketUncleared(d, k, l) == [d EXCEPT ![Place(k, l)].next = TRUE]

\* A bucket is made under the slot of k on level l.
NewBucket(d, k, l) ==
    [p \in Places |->
        IF p = Place(k, l) THEN [d[p] EXCEPT !.next = TRUE]
        ELSE IF \E j \in Key : Place(j, l) = Place(k, l) /\ p = Place(j, l + 1)
        THEN EmptySlot
        ELSE d[p]]

\* patty_dict_set()
DictSet(d, k, v) ==
    IF WalkEnd(d, k) = {} THEN d
    ELSE LET l == CHOOSE l \in WalkEnd(d, k) : TRUE
         IN  IF Passes(d, k, l)
             THEN Store(NewBucket(d, k, l), Place(k, l + 1), k, v)
             ELSE Store(d, Place(k, l), k, v)

\* Mutant: only the flag is reset, the bucket stays.
DictDeleteFlag(d, k) ==
    [p \in Places |-> IF \E l \in SlotFind(d, k) : p = Place(k, l)
                      THEN [d[p] EXCEPT !.set = FALSE] ELSE d[p]]

\* patty_dict_delete(): the whole slot is cleared, and with it the way to the
\* bucket under it.
DictDelete(d, k) ==
    [p \in Places |-> IF \E l \in SlotFind(d, k) : p = Place(k, l)
                      THEN EmptySlot ELSE d[p]]

---------------------------------------------------------------------------
(***************************************************************************)
(* patty_dict_each() goes through a bucket slot by slot, and from a slot to *)
(* the bucket under it once the callback has returned.                      *)
(***************************************************************************)
\* The slots it gets to, when the callback changes nothing.
Reached(d) ==
    {p \in Places : \E k \in Key, l \in Level :
        p = Place(k, l) /\ \A m \in 0 .. (l - 1) : d[Place(k, m)].next}

Visited(d) == {p \in Reached(d) : d[p].set}

Keys(d) == {d[p].key : p \in Visited(d)}

\* The same when the callback deletes the key it is called with: there is no
\* bucket any more under a slot that was visited.
VisitedDeleting(d) ==
    {p \in Visited(d) : \E k \in Key, l \in Level :
        p = Place(k, l) /\ \A m \in 0 .. (l - 1) : ~d[Place(k, m)].set}

---------------------------------------------------------------------------
Init == slot = [p \in Places |-> EmptySlot]

Set(k, v) == slot' = DictSet(slot, k, v)

Delete(k) ==
    /\ SlotFind(slot, k) # {}
    /\ slot' = DictDelete(slot, k)

\* patty_dict_each() with client_sock_close(), which deletes what it visits
DeleteEach ==
    slot' = [p \in Places |-> IF p \in VisitedDeleting(slot) THEN EmptySlot
                                                             ELSE slot[p]]

Next ==
    \/ \E k \in Key : Delete(k) \/ \E v \in Value : Set(k, v)
    \/ DeleteEach

Spec == Init /\ [][Next]_vars

---------------------------------------------------------------------------
TypeOK == slot \in [Places -> Slot]

\* Each key is visited once and is the one that patty_dict_slot_find() finds:
\* no order of set and delete leaves a key in two slots, or in one that the
\* search for it passes by.
VisitedOnce ==
    /\ \A k \in Key : DictGet(slot, k) # NoValue <=> k \in Keys(slot)
    /\ \A p, q \in Visited(slot) : slot[p].key = slot[q].key => p = q

\* The dictionary is the map that DictMap describes.
Class(k) == k[0]

Map == INSTANCE DictMap WITH map <- [k \in Key |-> DictGet(slot, k)]

ImplementsMap == Map!Spec

=============================================================================
