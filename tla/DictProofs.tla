----------------------------- MODULE DictProofs -----------------------------
(***************************************************************************)
(* The dictionary, for every number of digits and levels and every set of   *)
(* keys: a walk over it meets each key once, in the slot where the search   *)
(* for it ends, and it implements the map of DictMap.                       *)
(***************************************************************************)
EXTENDS Dict, TLAPS

---------------------------------------------------------------------------
(***************************************************************************)
(* The inductive invariant, of a dictionary d.  VisitedOnce is not          *)
(* inductive: it says nothing of the slots in buckets that were cut off and *)
(* are reached again when a bucket is made at their place.                  *)
(***************************************************************************)
\* The way to a slot is there: each slot above it has a bucket.
Way(d, k, l) == \A m \in 0 .. (l - 1) : d[Place(k, m)].next

SlotsInv(d) ==
    /\ d \in [Places -> Slot]
    \* a bucket hangs only from a slot that is taken
    /\ \A k \in Key, l \in Level : d[Place(k, l)].next => d[Place(k, l)].set
    \* a key is in a slot of its own digits, and has a value
    /\ \A k \in Key, l \in Level :
          d[Place(k, l)].set => /\ d[Place(k, l)].key \in Key
                                /\ Place(d[Place(k, l)].key, l) = Place(k, l)
                                /\ d[Place(k, l)].value \in Value
    \* a key is not on the way to itself
    /\ \A k \in Key, l, m \in Level :
          l < m /\ Holds(d, k, l) /\ Holds(d, k, m) => ~Way(d, k, m)

DInv == SlotsInv(slot)

---------------------------------------------------------------------------
(***************************************************************************)
(* Places.                                                                  *)
(***************************************************************************)
LEMMA LevelFacts ==
    /\ Level \subseteq Nat /\ 0 \in Level
    /\ \A l \in Level : \A m \in 0 .. (l - 1) : m \in Level /\ m < l
BY DictAssumption DEF Level

LEMMA PlaceIn ==
    ASSUME NEW k \in Key, NEW l \in Level PROVE Place(k, l) \in Places
BY DEF Places

\* A place tells its level.
LEMMA PlaceLevel ==
    ASSUME NEW j, NEW k, NEW l \in Nat, NEW m \in Nat, Place(j, l) = Place(k, m)
    PROVE  l = m
<1>1. DOMAIN Place(j, l) = 0 .. l /\ DOMAIN Place(k, m) = 0 .. m
  BY DEF Place
<1>2. 0 .. l = 0 .. m
  BY <1>1
<1> QED  BY <1>2

\* Two keys with one place share all the places above it.
LEMMA PlacePrefix ==
    ASSUME NEW j, NEW k, NEW l \in Nat, NEW m \in 0 .. l, Place(j, l) = Place(k, l)
    PROVE  Place(j, m) = Place(k, m)
<1>1. ASSUME NEW i \in 0 .. m PROVE j[i] = k[i]
  <2>1. i \in 0 .. l
    OBVIOUS
  <2>2. Place(j, l)[i] = j[i] /\ Place(k, l)[i] = k[i]
    BY <2>1 DEF Place
  <2> QED  BY <2>2
<1> QED  BY <1>1 DEF Place

\* The way to a place does not depend on the key one looks for.
LEMMA SameWay ==
    ASSUME NEW d, NEW j, NEW k, NEW l \in Level, Place(j, l) = Place(k, l)
    PROVE  /\ Way(d, j, l) <=> Way(d, k, l)
           /\ \A m \in 0 .. (l - 1) : Place(j, m) = Place(k, m)
<1>1. l \in Nat
  BY LevelFacts
<1>2. ASSUME NEW m \in 0 .. (l - 1) PROVE Place(j, m) = Place(k, m)
  <2>1. m \in 0 .. l
    BY <1>1
  <2> QED  BY <1>1, <2>1, PlacePrefix
<1> QED  BY <1>2 DEF Way

---------------------------------------------------------------------------
(***************************************************************************)
(* The search.                                                              *)
(***************************************************************************)
\* On the way to a slot that holds the key, other keys are passed.
LEMMA FindWay ==
    ASSUME NEW d, SlotsInv(d), NEW k \in Key, NEW l \in Level
    PROVE  l \in SlotFind(d, k) <=> Holds(d, k, l) /\ Way(d, k, l)
<1>1. l \in SlotFind(d, k) => Holds(d, k, l) /\ Way(d, k, l)
  BY DEF SlotFind, Way
<1>2. ASSUME Holds(d, k, l), Way(d, k, l), NEW m \in 0 .. (l - 1)
      PROVE  Passes(d, k, m) /\ d[Place(k, m)].next
  <2>1. m \in Level /\ m < l
    BY LevelFacts
  <2>2. d[Place(k, m)].next /\ d[Place(k, m)].set
    BY <1>2, <2>1 DEF Way, SlotsInv
  <2>3. ~Holds(d, k, m)
    BY <1>2, <2>1 DEF SlotsInv
  <2> QED  BY <2>2, <2>3 DEF Passes, Holds
<1> QED  BY <1>1, <1>2 DEF SlotFind

\* It ends at one level at most.
LEMMA FindOnce ==
    ASSUME NEW d, NEW k, NEW l \in SlotFind(d, k), NEW m \in SlotFind(d, k)
    PROVE  l = m
<1>1. l \in Level /\ m \in Level /\ l \in Nat /\ m \in Nat
  BY LevelFacts DEF SlotFind
<1>2. Holds(d, k, l) /\ Holds(d, k, m)
  BY DEF SlotFind
<1>3. CASE l < m
  <2>1. l \in 0 .. (m - 1)
    BY <1>1, <1>3
  <2> QED  BY <1>2, <2>1 DEF SlotFind, Passes, Holds
<1>4. CASE m < l
  <2>1. m \in 0 .. (l - 1)
    BY <1>1, <1>4
  <2> QED  BY <1>2, <2>1 DEF SlotFind, Passes, Holds
<1> QED  BY <1>1, <1>3, <1>4

LEMMA GetFound ==
    ASSUME NEW d, NEW k, NEW l \in SlotFind(d, k)
    PROVE  DictGet(d, k) = d[Place(k, l)].value
<1>1. (CHOOSE m \in SlotFind(d, k) : TRUE) = l
  BY FindOnce
<1> QED  BY <1>1 DEF DictGet

LEMMA GetType ==
    ASSUME NEW d, SlotsInv(d), NEW k \in Key
    PROVE  /\ DictGet(d, k) \in Value \cup {NoValue}
           /\ DictGet(d, k) # NoValue <=> SlotFind(d, k) # {}
<1>1. CASE SlotFind(d, k) = {}
  BY <1>1 DEF DictGet
<1>2. ASSUME NEW l \in SlotFind(d, k) PROVE DictGet(d, k) \in Value
  <2>1. l \in Level /\ d[Place(k, l)].set
    BY DEF SlotFind, Holds
  <2> QED  BY <2>1, GetFound DEF SlotsInv
<1> QED  BY <1>1, <1>2, DictAssumption

---------------------------------------------------------------------------
LEMMA OnceFromInv ==
    ASSUME DInv PROVE VisitedOnce
<1>0. SlotsInv(slot)
  BY DEF DInv
<1>1. ASSUME NEW p \in Visited(slot)
      PROVE  \E l \in Level : /\ slot[p].key \in Key /\ p = Place(slot[p].key, l)
                              /\ Holds(slot, slot[p].key, l) /\ Way(slot, slot[p].key, l)
  <2> DEFINE j == slot[p].key
  <2>1. PICK k \in Key, l \in Level : p = Place(k, l) /\ Way(slot, k, l)
    BY DEF Visited, Reached, Way
  <2>2. slot[p].set
    BY DEF Visited
  <2>3. j \in Key /\ Place(j, l) = p
    BY <1>0, <2>1, <2>2 DEF SlotsInv
  <2>4. Way(slot, j, l)
    BY <2>1, <2>3, SameWay
  <2> QED  BY <2>2, <2>3, <2>4 DEF Holds
<1>2. ASSUME NEW k \in Key PROVE DictGet(slot, k) # NoValue <=> k \in Keys(slot)
  <2>1. ASSUME NEW l \in SlotFind(slot, k) PROVE k \in Keys(slot)
    <3>1. l \in Level /\ Holds(slot, k, l) /\ Way(slot, k, l)
      BY <1>0, FindWay DEF SlotFind
    <3>2. Place(k, l) \in Visited(slot)
      BY <3>1, PlaceIn DEF Visited, Reached, Way, Holds
    <3>3. slot[Place(k, l)].key = k
      BY <3>1 DEF Holds
    <3> QED  BY <3>2, <3>3 DEF Keys
  <2>2. ASSUME k \in Keys(slot) PROVE SlotFind(slot, k) # {}
    <3>1. PICK p \in Visited(slot) : slot[p].key = k
      BY <2>2 DEF Keys
    <3>2. PICK l \in Level : Holds(slot, k, l) /\ Way(slot, k, l)
      BY <1>1, <3>1
    <3> QED  BY <1>0, <3>2, FindWay
  <2> QED  BY <1>0, <2>1, <2>2, GetType
<1>3. ASSUME NEW p \in Visited(slot), NEW q \in Visited(slot), slot[p].key = slot[q].key
      PROVE  p = q
  <2> DEFINE k == slot[p].key
  <2>1. PICK l \in Level : k \in Key /\ p = Place(k, l) /\ Holds(slot, k, l) /\ Way(slot, k, l)
    BY <1>1
  <2>2. PICK m \in Level : q = Place(k, m) /\ Holds(slot, k, m) /\ Way(slot, k, m)
    BY <1>1, <1>3
  <2>3. l \in SlotFind(slot, k) /\ m \in SlotFind(slot, k)
    BY <1>0, <2>1, <2>2, FindWay
  <2> QED  BY <2>1, <2>2, <2>3, FindOnce
<1> QED  BY <1>2, <1>3 DEF VisitedOnce

---------------------------------------------------------------------------
(***************************************************************************)
(* patty_dict_set().                                                        *)
(***************************************************************************)
LEMMA SlotAt ==
    ASSUME NEW d, SlotsInv(d), NEW k \in Key, NEW l \in Level
    PROVE  d[Place(k, l)] \in Slot
BY PlaceIn DEF SlotsInv

\* The key is stored in a slot that is free or has it already, and to which
\* the search for it leads.
LEMMA StoreInv ==
    ASSUME NEW d, SlotsInv(d), NEW k \in Key, NEW l \in Level, NEW v \in Value,
           \A m \in 0 .. (l - 1) : Passes(d, k, m) /\ d[Place(k, m)].next,
           ~Passes(d, k, l)
    PROVE  /\ SlotsInv(Store(d, Place(k, l), k, v))
           /\ DictGet(Store(d, Place(k, l), k, v), k) = v
           /\ \A j \in Key \ {k} :
                 DictGet(Store(d, Place(k, l), k, v), j) = DictGet(d, j)
<1> DEFINE P == Place(k, l)
           e == Store(d, P, k, v)
           q == [d[P] EXCEPT !.set = TRUE, !.key = k, !.value = v]
<1>1. P \in Places /\ d[P] \in Slot
  BY PlaceIn, SlotAt
<1>2. q \in Slot /\ q.set /\ q.key = k /\ q.value = v /\ q.next = d[P].next
  BY <1>1 DEF Slot
<1>3. e \in [Places -> Slot] /\ e[P] = q /\ \A p \in Places \ {P} : e[p] = d[p]
  <2> HIDE DEF P
  <2> QED  BY <1>1, <1>2 DEF Store, SlotsInv
<1>4. d[P].set => d[P].key = k
  BY DEF Passes
<1> HIDE DEF q, e
<1>5. ASSUME NEW j \in Key, NEW x \in Level
      PROVE  /\ e[Place(j, x)].next = d[Place(j, x)].next
             /\ Place(j, x) = P => x = l
             /\ Place(j, x) # P => e[Place(j, x)] = d[Place(j, x)]
  <2>1. Place(j, x) = P => x = l
    BY PlaceLevel, LevelFacts
  <2> HIDE DEF P
  <2> QED  BY <1>2, <1>3, <2>1, PlaceIn
<1>6. ASSUME NEW j \in Key, NEW x \in Level PROVE Way(e, j, x) <=> Way(d, j, x)
  BY <1>5, LevelFacts DEF Way
<1>7. ASSUME NEW j \in Key \ {k}, NEW x \in Level
      PROVE  /\ Holds(e, j, x) <=> Holds(d, j, x)
             /\ Holds(d, j, x) => e[Place(j, x)] = d[Place(j, x)]
  <2>1. Place(j, x) = P => ~Holds(e, j, x) /\ ~Holds(d, j, x)
    <3> HIDE DEF P
    <3> QED  BY <1>2, <1>3, <1>4 DEF Holds
  <2> QED  BY <1>5, <2>1 DEF Holds
<1>8. Holds(e, k, l) /\ \A x \in Level \ {l} : Holds(e, k, x) <=> Holds(d, k, x)
  BY <1>2, <1>3, <1>5 DEF Holds
<1>9. Way(d, k, l) /\ \A m \in 0 .. (l - 1) : ~Holds(d, k, m)
  BY DEF Way, Passes, Holds
<1>10. ASSUME NEW j \in Key, NEW a \in Level, NEW b \in Level, a < b,
              Holds(e, j, a), Holds(e, j, b), Way(e, j, b)
       PROVE  FALSE
  <2>1. Way(d, j, b)
    BY <1>6, <1>10
  <2>2. CASE j # k
    BY <1>7, <1>10, <2>1, <2>2 DEF SlotsInv
  <2>3. CASE j = k /\ a # l /\ b # l
    BY <1>8, <1>10, <2>1, <2>3 DEF SlotsInv
  <2>4. CASE j = k /\ b = l
    <3>1. a \in 0 .. (l - 1) /\ a # l
      BY <1>10, <2>4, LevelFacts
    <3> QED  BY <1>8, <1>9, <1>10, <2>4, <3>1
  <2>5. CASE j = k /\ a = l
    <3>1. l \in 0 .. (b - 1) /\ b # l
      BY <1>10, <2>5, LevelFacts
    <3>2. d[P].next /\ d[P].set
      BY <2>1, <2>5, <3>1 DEF Way, SlotsInv
    <3>3. Holds(d, k, l) /\ Holds(d, k, b)
      BY <1>4, <1>8, <1>10, <2>5, <3>1, <3>2 DEF Holds
    <3> QED  BY <1>10, <2>1, <2>5, <3>3 DEF SlotsInv
  <2> QED  BY <2>2, <2>3, <2>4, <2>5
<1>11. SlotsInv(e)
  <2>1. ASSUME NEW j \in Key, NEW x \in Level
        PROVE  /\ e[Place(j, x)].next => e[Place(j, x)].set
               /\ e[Place(j, x)].set => /\ e[Place(j, x)].key \in Key
                                        /\ Place(e[Place(j, x)].key, x) = Place(j, x)
                                        /\ e[Place(j, x)].value \in Value
    <3>1. CASE Place(j, x) = P
      BY <1>2, <1>3, <1>5, <3>1
    <3>2. CASE Place(j, x) # P
      BY <1>5, <3>2 DEF SlotsInv
    <3> QED  BY <3>1, <3>2
  <2> QED  BY <1>3, <1>10, <2>1 DEF SlotsInv
<1>12. DictGet(e, k) = v
  <2>1. l \in SlotFind(e, k)
    BY <1>6, <1>8, <1>9, <1>11, FindWay
  <2> QED  BY <1>2, <1>3, <2>1, GetFound
<1>13. ASSUME NEW j \in Key \ {k} PROVE DictGet(e, j) = DictGet(d, j)
  <2>1. \A x \in Level : x \in SlotFind(e, j) <=> x \in SlotFind(d, j)
    BY <1>6, <1>7, <1>11, FindWay
  <2>2. SlotFind(e, j) = SlotFind(d, j)
    <3>1. SlotFind(e, j) \subseteq Level /\ SlotFind(d, j) \subseteq Level
      BY DEF SlotFind
    <3> QED  BY <2>1, <3>1
  <2>3. ASSUME NEW x \in SlotFind(d, j) PROVE DictGet(e, j) = DictGet(d, j)
    <3>1. x \in Level /\ Holds(d, j, x)
      BY DEF SlotFind
    <3>2. e[Place(j, x)] = d[Place(j, x)]
      BY <1>7, <3>1
    <3> QED  BY <2>2, <3>2, GetFound
  <2> QED  BY <2>2, <2>3 DEF DictGet
<1> QED  BY <1>11, <1>12, <1>13 DEF e

\* A bucket is made under the slot where the walk ends; it is empty, whatever
\* the slots at its place held when it was cut off.
LEMMA NewBucketInv ==
    ASSUME NEW d, SlotsInv(d), NEW k \in Key, NEW l \in Level,
           Passes(d, k, l), ~d[Place(k, l)].next
    PROVE  /\ SlotsInv(NewBucket(d, k, l))
           /\ \A j \in Key : DictGet(NewBucket(d, k, l), j) = DictGet(d, j)
           /\ \A m \in 0 .. l :
                 NewBucket(d, k, l)[Place(k, m)] =
                     IF m = l THEN [d[Place(k, m)] EXCEPT !.next = TRUE] ELSE d[Place(k, m)]
           /\ l + 1 \in Level => ~NewBucket(d, k, l)[Place(k, l + 1)].set
<1> DEFINE P == Place(k, l)
           e == NewBucket(d, k, l)
           q == [d[P] EXCEPT !.next = TRUE]
           New(p) == \E i \in Key : Place(i, l) = P /\ p = Place(i, l + 1)
<1>0. l \in Nat /\ l + 1 \in Nat /\ l + 1 # l
  BY LevelFacts
<1>1. P \in Places /\ d[P] \in Slot /\ d[P].set /\ d[P].key # k
  BY PlaceIn, SlotAt DEF Passes
<1>2. q \in Slot /\ q.set /\ q.key = d[P].key /\ q.value = d[P].value /\ q.next
  BY <1>1 DEF Slot
<1>3. EmptySlot \in Slot /\ ~EmptySlot.set /\ ~EmptySlot.next
  BY DEF EmptySlot, Slot
<1>4. /\ e \in [Places -> Slot] /\ e[P] = q
      /\ \A p \in Places \ {P} : e[p] = IF New(p) THEN EmptySlot ELSE d[p]
  <2> HIDE DEF P
  <2> QED  BY <1>1, <1>2, <1>3 DEF NewBucket, SlotsInv, P
<1>5. ASSUME NEW j \in Key, NEW x \in Level
      PROVE  /\ Place(j, x) = P <=> x = l /\ Place(j, l) = P
             /\ New(Place(j, x)) <=> x = l + 1 /\ Place(j, l) = P
  <2>1. Place(j, x) = P => x = l
    BY PlaceLevel, LevelFacts
  <2>2. ASSUME NEW i \in Key, Place(i, l) = P, Place(j, x) = Place(i, l + 1)
        PROVE  x = l + 1 /\ Place(j, l) = P
    <3>1. x = l + 1
      BY <1>0, <2>2, PlaceLevel, LevelFacts
    <3>2. l \in 0 .. (l + 1)
      BY <1>0
    <3> QED  BY <1>0, <2>2, <3>1, <3>2, PlacePrefix
  <2> HIDE DEF P
  <2> QED  BY <2>1, <2>2
<1> HIDE DEF q, e, New
\* What e holds, by key and level.
<1>6. ASSUME NEW j \in Key, NEW x \in Level
      PROVE  /\ x = l /\ Place(j, l) = P => e[Place(j, x)] = q
             /\ x = l + 1 /\ Place(j, l) = P => e[Place(j, x)] = EmptySlot
             /\ x \notin {l, l + 1} \/ Place(j, l) # P => e[Place(j, x)] = d[Place(j, x)]
  <2> HIDE DEF P
  <2> QED  BY <1>0, <1>4, <1>5, PlaceIn
<1>7. ASSUME NEW j \in Key, NEW x \in Level, Holds(e, j, x) PROVE Holds(d, j, x)
  BY <1>1, <1>2, <1>3, <1>6, <1>7 DEF Holds
\* Under the new bucket there is nothing.
<1>8. ASSUME NEW j \in Key, NEW x \in Level, Holds(e, j, x), Way(e, j, x)
      PROVE  Way(d, j, x)
  <2> SUFFICES ASSUME NEW m \in 0 .. (x - 1) PROVE d[Place(j, m)].next
    BY DEF Way
  <2>1. m \in Level /\ m < x /\ x \in Nat /\ m \in Nat /\ e[Place(j, m)].next
    BY <1>8, LevelFacts DEF Way
  <2>2. CASE m = l /\ Place(j, l) = P
    <3>1. x # l + 1
      BY <1>3, <1>6, <1>8, <2>2 DEF Holds
    <3>2. l + 1 \in 0 .. (x - 1)
      BY <1>0, <2>1, <2>2, <3>1
    <3>3. l + 1 \in Level /\ e[Place(j, l + 1)].next
      BY <1>8, <3>2, LevelFacts DEF Way
    <3> QED  BY <1>3, <1>6, <2>2, <3>3
  <2>3. CASE ~(m = l /\ Place(j, l) = P)
    BY <1>3, <1>6, <2>1, <2>3
  <2> QED  BY <2>2, <2>3
<1>9. SlotsInv(e)
  <2>1. ASSUME NEW j \in Key, NEW x \in Level
        PROVE  /\ e[Place(j, x)].next => e[Place(j, x)].set
               /\ e[Place(j, x)].set => /\ e[Place(j, x)].key \in Key
                                        /\ Place(e[Place(j, x)].key, x) = Place(j, x)
                                        /\ e[Place(j, x)].value \in Value
    <3>1. CASE x = l /\ Place(j, l) = P
      <4>1. /\ d[P].key \in Key /\ Place(d[P].key, l) = P /\ d[P].value \in Value
        BY <1>1 DEF SlotsInv
      <4> QED  BY <1>2, <1>6, <3>1, <4>1
    <3>2. CASE x = l + 1 /\ Place(j, l) = P
      BY <1>3, <1>6, <3>2
    <3>3. CASE x \notin {l, l + 1} \/ Place(j, l) # P
      BY <1>6, <3>3 DEF SlotsInv
    <3> QED  BY <3>1, <3>2, <3>3
  <2>2. ASSUME NEW j \in Key, NEW a \in Level, NEW b \in Level, a < b,
               Holds(e, j, a), Holds(e, j, b), Way(e, j, b)
        PROVE  FALSE
    BY <1>7, <1>8, <2>2 DEF SlotsInv
  <2> QED  BY <1>4, <2>1, <2>2 DEF SlotsInv
\* What was found is found still.
<1>10. ASSUME NEW j \in Key, NEW x \in Level, Holds(d, j, x), Way(d, j, x)
       PROVE  Holds(e, j, x) /\ Way(e, j, x) /\ e[Place(j, x)].value = d[Place(j, x)].value
  <2>1. ASSUME Place(j, l) = P PROVE ~(l < x)
    <3>1. l < x => l \in 0 .. (x - 1)
      BY <1>0, LevelFacts
    <3> QED  BY <1>10, <2>1, <3>1 DEF Way
  <2>2. ASSUME NEW m \in 0 .. (x - 1) PROVE e[Place(j, m)].next
    <3>1. m \in Level /\ m < x /\ m \in Nat /\ x \in Nat /\ d[Place(j, m)].next
      BY <1>10, LevelFacts DEF Way
    <3>2. CASE Place(j, l) = P
      BY <1>0, <1>6, <2>1, <3>1, <3>2
    <3>3. CASE Place(j, l) # P
      BY <1>6, <3>1, <3>3
    <3> QED  BY <3>2, <3>3
  <2>3. x = l + 1 => Place(j, l) # P
    BY <1>0, <2>1
  <2>4. /\ e[Place(j, x)].set = d[Place(j, x)].set /\ e[Place(j, x)].key = d[Place(j, x)].key
        /\ e[Place(j, x)].value = d[Place(j, x)].value
    <3>1. CASE x = l /\ Place(j, l) = P
      BY <1>1, <1>2, <1>6, <1>10, <3>1 DEF Holds
    <3>2. CASE ~(x = l /\ Place(j, l) = P)
      BY <1>6, <2>3, <3>2
    <3> QED  BY <3>1, <3>2
  <2> QED  BY <1>10, <2>2, <2>4 DEF Holds, Way
<1>11. ASSUME NEW j \in Key PROVE DictGet(e, j) = DictGet(d, j)
  <2>1. SlotFind(e, j) = SlotFind(d, j)
    <3>1. SlotFind(e, j) \subseteq Level /\ SlotFind(d, j) \subseteq Level
      BY DEF SlotFind
    <3>2. \A x \in Level : x \in SlotFind(e, j) <=> x \in SlotFind(d, j)
      BY <1>7, <1>8, <1>9, <1>10, FindWay
    <3> QED  BY <3>1, <3>2
  <2>2. ASSUME NEW x \in SlotFind(d, j) PROVE DictGet(e, j) = DictGet(d, j)
    <3>1. x \in Level /\ Holds(d, j, x) /\ Way(d, j, x)
      BY FindWay DEF SlotFind
    <3> QED  BY <1>10, <2>1, <3>1, GetFound
  <2> QED  BY <2>1, <2>2 DEF DictGet
<1>12. ASSUME NEW m \in 0 .. l
       PROVE  e[Place(k, m)] = IF m = l THEN [d[Place(k, m)] EXCEPT !.next = TRUE]
                               ELSE d[Place(k, m)]
  <2>1. m \in Level /\ m # l + 1
    BY DictAssumption DEF Level
  <2> QED  BY <1>6, <2>1 DEF q
<1>13. l + 1 \in Level => ~e[Place(k, l + 1)].set
  BY <1>3, <1>6
<1> QED  BY <1>9, <1>11, <1>12, <1>13 DEF e

\* patty_dict_set() maps the key to the value, or is refused and changes
\* nothing that can be found.
LEMMA DictSetInv ==
    ASSUME NEW d, SlotsInv(d), NEW k \in Key, NEW v \in Value
    PROVE  /\ SlotsInv(DictSet(d, k, v))
           /\ \A j \in Key \ {k} : DictGet(DictSet(d, k, v), j) = DictGet(d, j)
           /\ DictGet(DictSet(d, k, v), k) \in {v, DictGet(d, k)}
<1>1. CASE WalkEnd(d, k) = {}
  BY <1>1 DEF DictSet
<1>2. CASE WalkEnd(d, k) # {}
  <2> DEFINE l == CHOOSE l \in WalkEnd(d, k) : TRUE
             e == NewBucket(d, k, l)
  <2>1. /\ l \in Level /\ (~Passes(d, k, l) \/ ~d[Place(k, l)].next)
        /\ \A m \in 0 .. (l - 1) : Passes(d, k, m) /\ d[Place(k, m)].next
    <3>1. l \in WalkEnd(d, k)
      BY <1>2
    <3> HIDE DEF l
    <3> QED  BY <3>1 DEF WalkEnd
  <2>2. DictSet(d, k, v) = IF Passes(d, k, l) THEN Store(e, Place(k, l + 1), k, v)
                           ELSE Store(d, Place(k, l), k, v)
    BY <1>2 DEF DictSet
  <2> HIDE DEF l
  <2>3. CASE ~Passes(d, k, l)
    BY <2>1, <2>2, <2>3, StoreInv
  <2>4. CASE Passes(d, k, l)
    <3>1. /\ SlotsInv(e) /\ \A j \in Key : DictGet(e, j) = DictGet(d, j)
          /\ \A m \in 0 .. l :
                e[Place(k, m)] = IF m = l THEN [d[Place(k, m)] EXCEPT !.next = TRUE]
                                 ELSE d[Place(k, m)]
          /\ l + 1 \in Level => ~e[Place(k, l + 1)].set
      BY <2>1, <2>4, NewBucketInv
    <3> HIDE DEF e
    <3>2. CASE l + 1 \in Level
      <4>1. ASSUME NEW m \in 0 .. ((l + 1) - 1)
            PROVE  Passes(e, k, m) /\ e[Place(k, m)].next
        <5>1. m \in 0 .. l /\ (m = l \/ m \in 0 .. (l - 1)) /\ m \in Level
          BY <2>1, LevelFacts, DictAssumption DEF Level
        <5>2. d[Place(k, m)] \in Slot
          BY <5>1, SlotAt
        <5>3. CASE m = l
          BY <2>4, <3>1, <5>1, <5>2, <5>3 DEF Passes, Slot
        <5>4. CASE m # l
          BY <2>1, <3>1, <5>1, <5>4 DEF Passes
        <5> QED  BY <5>3, <5>4
      <4>2. ~Passes(e, k, l + 1)
        BY <3>1, <3>2 DEF Passes
      <4> QED  BY <2>2, <2>4, <3>1, <3>2, <4>1, <4>2, StoreInv
    <3>3. CASE l + 1 \notin Level
      <4>1. Place(k, l + 1) \notin Places
        <5>1. ASSUME NEW j \in Key, NEW x \in Level, Place(k, l + 1) = Place(j, x)
              PROVE  FALSE
          <6>1. l + 1 \in Nat /\ x \in Nat
            BY <2>1, LevelFacts
          <6> QED  BY <3>3, <5>1, <6>1, PlaceLevel
        <5> QED  BY <5>1 DEF Places
      <4>2. Store(e, Place(k, l + 1), k, v) = e
        BY <3>1, <4>1 DEF Store, SlotsInv
      <4> QED  BY <2>2, <2>4, <3>1, <4>2
    <3> QED  BY <3>2, <3>3
  <2> QED  BY <2>3, <2>4
<1> QED  BY <1>1, <1>2

---------------------------------------------------------------------------
(***************************************************************************)
(* Clearing slots.                                                          *)
(***************************************************************************)
\* Some slots are cleared: what is found afterwards was found before, at the
\* same place.
LEMMA ClearInv ==
    ASSUME NEW d, SlotsInv(d), NEW C \in SUBSET Places, NEW e,
           e = [p \in Places |-> IF p \in C THEN EmptySlot ELSE d[p]]
    PROVE  /\ SlotsInv(e)
           /\ \A j \in Key, x \in Level :
                 x \in SlotFind(e, j) <=> /\ x \in SlotFind(d, j)
                                          /\ \A m \in 0 .. x : Place(j, m) \notin C
           /\ \A j \in Key : DictGet(e, j) \in {DictGet(d, j), NoValue}
<1>1. EmptySlot \in Slot /\ ~EmptySlot.set /\ ~EmptySlot.next
  BY DEF EmptySlot, Slot
<1>2. e \in [Places -> Slot]
  BY <1>1 DEF SlotsInv
<1>3. ASSUME NEW j \in Key, NEW x \in Level
      PROVE  e[Place(j, x)] = IF Place(j, x) \in C THEN EmptySlot ELSE d[Place(j, x)]
  BY PlaceIn
<1>4. ASSUME NEW j \in Key, NEW x \in Level
      PROVE  /\ Holds(e, j, x) <=> Holds(d, j, x) /\ Place(j, x) \notin C
             /\ Way(e, j, x) <=> /\ Way(d, j, x)
                                 /\ \A m \in 0 .. (x - 1) : Place(j, m) \notin C
  <2>1. Holds(e, j, x) <=> Holds(d, j, x) /\ Place(j, x) \notin C
    BY <1>1, <1>3 DEF Holds
  <2>2. ASSUME NEW m \in 0 .. (x - 1)
        PROVE  e[Place(j, m)].next <=> d[Place(j, m)].next /\ Place(j, m) \notin C
    <3>1. m \in Level
      BY LevelFacts
    <3> QED  BY <1>1, <1>3, <3>1
  <2> QED  BY <2>1, <2>2 DEF Way
<1>5. SlotsInv(e)
  <2>1. ASSUME NEW j \in Key, NEW x \in Level
        PROVE  /\ e[Place(j, x)].next => e[Place(j, x)].set
               /\ e[Place(j, x)].set => /\ e[Place(j, x)].key \in Key
                                        /\ Place(e[Place(j, x)].key, x) = Place(j, x)
                                        /\ e[Place(j, x)].value \in Value
    BY <1>1, <1>3 DEF SlotsInv
  <2>2. ASSUME NEW j \in Key, NEW a \in Level, NEW b \in Level, a < b,
               Holds(e, j, a), Holds(e, j, b), Way(e, j, b)
        PROVE  FALSE
    BY <1>4, <2>2 DEF SlotsInv
  <2> QED  BY <1>2, <2>1, <2>2 DEF SlotsInv
<1>6. ASSUME NEW j \in Key, NEW x \in Level
      PROVE  x \in SlotFind(e, j) <=> /\ x \in SlotFind(d, j)
                                      /\ \A m \in 0 .. x : Place(j, m) \notin C
  <2>1. (\A m \in 0 .. x : Place(j, m) \notin C)
        <=> Place(j, x) \notin C /\ \A m \in 0 .. (x - 1) : Place(j, m) \notin C
    <3>1. x \in 0 .. x /\ \A m \in 0 .. x : m = x \/ m \in 0 .. (x - 1)
      BY LevelFacts
    <3>2. \A m \in 0 .. (x - 1) : m \in 0 .. x
      BY LevelFacts
    <3> QED  BY <3>1, <3>2
  <2> QED  BY <1>4, <1>5, <2>1, FindWay
<1>7. ASSUME NEW j \in Key PROVE DictGet(e, j) \in {DictGet(d, j), NoValue}
  <2>1. CASE SlotFind(e, j) = {}
    BY <2>1 DEF DictGet
  <2>2. ASSUME NEW x \in SlotFind(e, j) PROVE DictGet(e, j) = DictGet(d, j)
    <3>1. x \in Level
      BY DEF SlotFind
    <3>2. x \in SlotFind(d, j) /\ Place(j, x) \notin C
      <4>1. x \in 0 .. x
        BY <3>1, LevelFacts
      <4> QED  BY <1>6, <3>1, <4>1
    <3> QED  BY <1>3, <3>1, <3>2, GetFound
  <2> QED  BY <2>1, <2>2
<1> QED  BY <1>5, <1>6, <1>7

\* patty_dict_delete(): the key goes, and no key of another class.
LEMMA DictDeleteInv ==
    ASSUME NEW d, SlotsInv(d), NEW k \in Key, SlotFind(d, k) # {}
    PROVE  /\ SlotsInv(DictDelete(d, k))
           /\ DictGet(DictDelete(d, k), k) = NoValue
           /\ \A j \in Key : DictGet(DictDelete(d, k), j) \in {DictGet(d, j), NoValue}
           /\ \A j \in Key : DictGet(DictDelete(d, k), j) # DictGet(d, j)
                 => Class(j) = Class(k)
<1> DEFINE e == DictDelete(d, k)
<1>1. PICK l \in Level : l \in SlotFind(d, k)
  BY DEF SlotFind
<1> DEFINE C == {Place(k, l)}
<1>2. C \in SUBSET Places
  BY PlaceIn
<1>3. e = [p \in Places |-> IF p \in C THEN EmptySlot ELSE d[p]]
  <2>1. \A p : (\E m \in SlotFind(d, k) : p = Place(k, m)) <=> p \in C
    BY <1>1, FindOnce
  <2> HIDE DEF C
  <2> QED  BY <2>1 DEF DictDelete
<1> HIDE DEF e
<1>4. /\ SlotsInv(e)
      /\ \A j \in Key, x \in Level :
            x \in SlotFind(e, j) <=> /\ x \in SlotFind(d, j)
                                     /\ \A m \in 0 .. x : Place(j, m) \notin C
      /\ \A j \in Key : DictGet(e, j) \in {DictGet(d, j), NoValue}
  <2> HIDE DEF C
  <2> QED  BY <1>2, <1>3, ClearInv
<1>5. DictGet(e, k) = NoValue
  <2>1. ASSUME NEW x \in SlotFind(e, k) PROVE FALSE
    <3>1. x \in Level
      BY DEF SlotFind
    <3>2. x \in SlotFind(d, k) /\ Place(k, x) \notin C
      <4>1. x \in 0 .. x
        BY <3>1, LevelFacts
      <4> QED  BY <1>4, <2>1, <3>1, <4>1
    <3> QED  BY <1>1, <3>2, FindOnce
  <2> QED  BY <2>1 DEF DictGet
<1>6. ASSUME NEW j \in Key, Class(j) # Class(k) PROVE DictGet(e, j) = DictGet(d, j)
  <2>1. ASSUME NEW m \in Nat, Place(j, m) = Place(k, l) PROVE FALSE
    <3>1. m = l /\ 0 \in 0 .. l
      BY <2>1, PlaceLevel, LevelFacts
    <3>2. Place(j, l)[0] = j[0] /\ Place(k, l)[0] = k[0]
      BY <3>1 DEF Place
    <3> QED  BY <1>6, <2>1, <3>1, <3>2 DEF Class
  <2>2. \A x \in Level : \A m \in 0 .. x : Place(j, m) \notin C
    BY <2>1, LevelFacts
  <2>3. SlotFind(e, j) = SlotFind(d, j)
    <3>1. SlotFind(e, j) \subseteq Level /\ SlotFind(d, j) \subseteq Level
      BY DEF SlotFind
    <3>2. \A x \in Level : x \in SlotFind(e, j) <=> x \in SlotFind(d, j)
      <4> HIDE DEF C
      <4> QED  BY <1>4, <2>2
    <3> QED  BY <3>1, <3>2
  <2>4. DictGet(e, j) = NoValue => SlotFind(e, j) = {}
    BY <1>4, GetType
  <2> QED  BY <1>4, <2>3, <2>4 DEF DictGet
<1> QED  BY <1>4, <1>5, <1>6 DEF e

\* patty_dict_each() with a callback that deletes: the slots of the first
\* bucket are cleared, and with them the way to all others.
LEMMA DeleteEachInv ==
    ASSUME NEW d, SlotsInv(d), NEW e,
           e = [p \in Places |-> IF p \in VisitedDeleting(d) THEN EmptySlot ELSE d[p]]
    PROVE  SlotsInv(e) /\ \A k \in Key : DictGet(e, k) = NoValue
<1>1. VisitedDeleting(d) \in SUBSET Places
  BY DEF VisitedDeleting, Visited, Reached
<1>2. /\ SlotsInv(e)
      /\ \A j \in Key, x \in Level :
            x \in SlotFind(e, j) <=> /\ x \in SlotFind(d, j)
                                     /\ \A m \in 0 .. x : Place(j, m) \notin VisitedDeleting(d)
  BY <1>1, ClearInv
<1>3. ASSUME NEW k \in Key, NEW x \in SlotFind(e, k) PROVE FALSE
  <2>1. x \in Level /\ 0 \in Level /\ 0 \in 0 .. x /\ (x = 0 \/ 0 \in 0 .. (x - 1))
    BY LevelFacts DEF SlotFind
  <2>2. x \in SlotFind(d, k) /\ Place(k, 0) \notin VisitedDeleting(d)
    BY <1>2, <1>3, <2>1
  <2>3. d[Place(k, 0)].set
    BY <2>1, <2>2 DEF SlotFind, Holds, Passes
  <2>4. \A m \in 0 .. (0 - 1) : FALSE
    OBVIOUS
  <2>5. Place(k, 0) \in Reached(d)
    BY <2>1, <2>4, PlaceIn DEF Reached
  <2>6. Place(k, 0) \in VisitedDeleting(d)
    BY <2>1, <2>3, <2>4, <2>5 DEF VisitedDeleting, Visited
  <2> QED  BY <2>2, <2>6
<1>4. ASSUME NEW k \in Key PROVE DictGet(e, k) = NoValue
  BY <1>3 DEF DictGet
<1> QED  BY <1>2, <1>4

---------------------------------------------------------------------------
LEMMA InitDInv == Init => DInv /\ \A k \in Key : SlotFind(slot, k) = {}
<1> SUFFICES ASSUME Init PROVE DInv /\ \A k \in Key : SlotFind(slot, k) = {}
  OBVIOUS
<1>1. EmptySlot \in Slot /\ ~EmptySlot.set /\ ~EmptySlot.next
  BY DEF EmptySlot, Slot
<1>2. slot \in [Places -> Slot] /\ \A p \in Places : slot[p] = EmptySlot
  BY <1>1 DEF Init
<1>3. \A k \in Key, l \in Level : slot[Place(k, l)] = EmptySlot
  BY <1>2, PlaceIn
<1>4. \A k \in Key, l \in Level : ~Holds(slot, k, l)
  BY <1>1, <1>3 DEF Holds
<1>5. DInv
  BY <1>1, <1>2, <1>3, <1>4 DEF DInv, SlotsInv
<1> QED  BY <1>4, <1>5 DEF SlotFind

LEMMA NextDInv == DInv /\ [Next]_vars => DInv'
<1> SUFFICES ASSUME SlotsInv(slot), [Next]_vars PROVE SlotsInv(slot')
  BY DEF DInv
<1>1. ASSUME NEW k \in Key, Delete(k) PROVE SlotsInv(slot')
  BY <1>1, DictDeleteInv DEF Delete
<1>2. ASSUME NEW k \in Key, NEW v \in Value, Set(k, v) PROVE SlotsInv(slot')
  BY <1>2, DictSetInv DEF Set
<1>3. CASE DeleteEach
  BY <1>3, DeleteEachInv DEF DeleteEach
<1>4. CASE UNCHANGED vars
  BY <1>4 DEF vars
<1> QED  BY <1>1, <1>2, <1>3, <1>4 DEF Next

\* No order of patty_dict_set() and patty_dict_delete(), of whichever keys,
\* leaves a key in two slots that patty_dict_each() gets to, or in one that
\* patty_dict_slot_find() does not.
THEOREM DictVisitedOnce == Spec => []VisitedOnce
<1>1. DInv => VisitedOnce
  BY OnceFromInv
<1> QED  BY <1>1, InitDInv, NextDInv, PTL DEF Spec

---------------------------------------------------------------------------
(***************************************************************************)
(* The refinement: every step of the dictionary is a step of the map, or    *)
(* leaves it alone.                                                         *)
(***************************************************************************)
TheMap == [k \in Key |-> DictGet(slot, k)]

LEMMA NextMap == DInv /\ [Next]_vars => [Map!Next]_TheMap
<1> SUFFICES ASSUME SlotsInv(slot), [Next]_vars
             PROVE  Map!Next \/ TheMap' = TheMap
  BY DEF DInv
<1> DEFINE new == [k \in Key |-> DictGet(slot', k)]
<1>0. TheMap' = new
  BY DEF TheMap
<1>1. ASSUME NEW k \in Key, Delete(k) PROVE Map!Delete(k)
  <2>1. /\ new[k] = NoValue /\ TheMap[k] # NoValue
        /\ \A j \in Key : new[j] \in {TheMap[j], NoValue}
        /\ \A j \in Key : new[j] # TheMap[j] => Class(j) = Class(k)
    BY <1>1, DictDeleteInv, GetType DEF Delete, TheMap
  <2> DEFINE lost == {j \in Key \ {k} : new[j] # TheMap[j]}
  <2>2. new = [j \in Key |-> IF j = k \/ j \in lost THEN NoValue ELSE TheMap[j]]
    <3>1. \A j \in Key : new[j] = IF j = k \/ j \in lost THEN NoValue ELSE TheMap[j]
      <4> HIDE DEF new
      <4> QED  BY <2>1
    <3> HIDE DEF lost
    <3> QED  BY <3>1
  <2>3. lost \in SUBSET {j \in Key \ {k} : Class(j) = Class(k) /\ TheMap[j] # NoValue}
    <3> HIDE DEF new
    <3> QED  BY <2>1
  <2> HIDE DEF lost, new
  <2> QED  BY <1>0, <2>1, <2>2, <2>3 DEF Map!Delete, Map!Others, TheMap
<1>2. ASSUME NEW k \in Key, NEW v \in Value, Set(k, v)
      PROVE  Map!Set(k, v) \/ TheMap' = TheMap
  <2>1. /\ \A j \in Key \ {k} : new[j] = TheMap[j]
        /\ new[k] \in {v, TheMap[k]}
    BY <1>2, DictSetInv DEF Set, TheMap
  <2>2. new = [TheMap EXCEPT ![k] = v] \/ new = TheMap
    BY <2>1 DEF TheMap
  <2> QED  BY <1>0, <2>2 DEF Map!Set, TheMap
<1>3. CASE DeleteEach
  <2>1. new = [k \in Key |-> NoValue]
    BY <1>3, DeleteEachInv DEF DeleteEach
  <2> QED  BY <1>0, <2>1 DEF Map!Next, Map!Clear, TheMap
<1>4. CASE UNCHANGED vars
  BY <1>4 DEF vars, TheMap
<1> QED  BY <1>1, <1>2, <1>3, <1>4 DEF Next, Map!Next

\* The dictionary is a map for its callers: a set maps one key or is refused, a
\* delete takes the key away and at most others with the same low four bits,
\* and a patty_dict_each() that deletes empties it.
THEOREM DictImplementsMap == Spec => ImplementsMap
<1>1. Init => Map!Init
  <2> SUFFICES ASSUME Init PROVE TheMap = [k \in Key |-> NoValue]
    BY DEF Map!Init, TheMap
  <2> QED  BY InitDInv DEF TheMap, DictGet
<1>2. Spec => []DInv
  BY InitDInv, NextDInv, PTL DEF Spec
<1>3. DInv /\ [Next]_vars => [Map!Next]_[k \in Key |-> DictGet(slot, k)]
  BY NextMap DEF TheMap
<1> QED  BY <1>1, <1>2, <1>3, PTL DEF Spec, ImplementsMap, Map!Spec
=============================================================================
