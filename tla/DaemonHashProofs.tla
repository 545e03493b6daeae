-------------------------- MODULE DaemonHashProofs --------------------------
(* Proofs about DaemonHash, for every size, key set and set of objects.    *)
EXTENDS DaemonHash, FiniteSetTheorems, WellFoundedInduction, TLAPS

Entry == [key : Keys \cup {NULL}, value : Values \cup {NULL}]
Used == {i \in Slots : hash_table[i].key # NULL}

(* The table by itself: keys are unique, used elements and only they have  *)
(* a value, count counts them.                                             *)
TableInv ==
  /\ HashTypeOK
  /\ \A i \in Slots : hash_table[i].key = NULL <=> hash_table[i].value = NULL
  /\ \A i, j \in Slots : hash_table[i].key = hash_table[j].key /\ hash_table[i].key # NULL => i = j
  /\ count = Cardinality(Used)

(* The objects, one by one.                                                *)
OwnInv ==
  /\ \A i, j \in Slots : hash_table[i].value = hash_table[j].value /\ hash_table[i].value # NULL => i = j
  /\ \A i \in Slots : hash_table[i].value # NULL => hash_table[i].value \notin heap \cup freed
  /\ heap \cap freed = {}
  /\ \A v \in Values : v \in heap \cup freed \/ \E i \in Slots : hash_table[i].value = v

HashInv == TableInv /\ OwnInv

-----------------------------------------------------------------------------
(* The probe sequence of hash_find                                         *)

LEMMA Division ==
  ASSUME NEW n \in Nat \ {0}, NEW a \in Nat
  PROVE  a % n \in 0..(n - 1) /\ a = n * (a \div n) + (a % n) /\ a \div n \in Nat
OBVIOUS

LEMMA RemainderUnique ==
  ASSUME NEW n \in Nat \ {0}, NEW q \in Nat, NEW r \in 0..(n - 1),
         NEW p \in Nat, NEW s \in 0..(n - 1), n * q + r = n * p + s
  PROVE  r = s
<1>1. CASE q = p
  BY <1>1
<1>2. CASE q < p
  <2>1. n * (p - q) >= n
    BY <1>2
  <2>2. r - s = n * (p - q)
    OBVIOUS
  <2> QED
    BY <2>1, <2>2
<1>3. CASE q > p
  <2>1. n * (q - p) >= n
    BY <1>3
  <2>2. s - r = n * (q - p)
    OBVIOUS
  <2> QED
    BY <2>1, <2>2
<1> QED
  BY <1>1, <1>2, <1>3

LEMMA Remainder ==
  ASSUME NEW n \in Nat \ {0}, NEW q \in Nat, NEW r \in 0..(n - 1)
  PROVE  (n * q + r) % n = r
<1> DEFINE a == n * q + r
<1>1. a \in Nat
  OBVIOUS
<1>2. a % n \in 0..(n - 1) /\ a = n * (a \div n) + (a % n) /\ a \div n \in Nat
  BY <1>1, Division
<1> HIDE DEF a
<1>3. a = n * q + r
  BY DEF a
<1> QED
  BY <1>2, <1>3, RemainderUnique DEF a

(* The probe sequence of a key stays in the table and visits every slot.   *)
LEMMA ProbeCovers ==
  ASSUME NEW key \in Keys
  PROVE  /\ \A d \in Slots : Probe(key, d) \in Slots
         /\ \A i \in Slots : \E d \in Slots : Probe(key, d) = i
<1>1. Size \in Nat \ {0} /\ key \in Nat
  BY HashAssumption
<1>2. \A d \in Slots : Probe(key, d) \in Slots
  <2> SUFFICES ASSUME NEW d \in Slots PROVE (key + d) % Size \in Slots
    BY DEF Probe
  <2>1. key + d \in Nat
    BY <1>1 DEF Slots
  <2> QED
    BY <1>1, <2>1, Division DEF Slots
<1>3. ASSUME NEW i \in Slots PROVE \E d \in Slots : Probe(key, d) = i
  <2> DEFINE r == key % Size
             q == key \div Size
  <2>1. r \in 0..(Size - 1) /\ key = Size * q + r /\ q \in Nat
    BY <1>1, Division
  <2> HIDE DEF r, q
  <2>2. CASE i >= r
    <3>1. i - r \in Slots /\ key + (i - r) = Size * q + i
      BY <1>1, <2>1, <2>2 DEF Slots
    <3>2. (Size * q + i) % Size = i
      BY <1>1, <2>1, Remainder DEF Slots
    <3> QED
      BY <3>1, <3>2 DEF Probe
  <2>3. CASE i < r
    <3>1. (i - r) + Size \in Slots /\ key + ((i - r) + Size) = Size * (q + 1) + i /\ q + 1 \in Nat
      BY <1>1, <2>1, <2>3 DEF Slots
    <3>2. (Size * (q + 1) + i) % Size = i
      BY <1>1, <3>1, Remainder DEF Slots
    <3> QED
      BY <3>1, <3>2 DEF Probe
  <2> QED
    BY <1>1, <2>1, <2>2, <2>3 DEF Slots
<1> QED
  BY <1>2, <1>3

(* hash_find without the short-cut: the first slot that holds the wanted   *)
(* key, when there is one.                                                 *)
LEMMA FirstProbe ==
  ASSUME NEW key \in Keys, NEW wanted, NEW i \in Slots, hash_table[i].key = wanted
  PROVE  \E d \in Slots : /\ hash_table[Probe(key, d)].key = wanted
                          /\ \A e \in 0..(d - 1) : hash_table[Probe(key, e)].key # wanted
<1> DEFINE T == {d \in Slots : hash_table[Probe(key, d)].key = wanted}
<1>1. T # {}
  BY ProbeCovers
<1>2. T \subseteq Nat
  BY HashAssumption DEF Slots
<1>3. PICK d \in T : \A e \in T : ~ (<<e, d>> \in OpToRel(<, Nat))
  <2> HIDE DEF T
  <2> QED
    BY <1>1, <1>2, NatLessThanWellFounded, WFMin
<1>4. d \in Slots /\ d \in Nat /\ hash_table[Probe(key, d)].key = wanted
  BY <1>2
<1>5. ASSUME NEW e \in 0..(d - 1), hash_table[Probe(key, e)].key = wanted PROVE FALSE
  <2>1. e \in Slots /\ e \in Nat /\ e < d
    BY <1>4, HashAssumption DEF Slots
  <2>2. e \in T
    BY <1>5, <2>1
  <2>3. <<e, d>> \in OpToRel(<, Nat)
    BY <1>4, <2>1 DEF OpToRel
  <2> QED
    BY <1>3, <2>2, <2>3
<1> QED
  BY <1>4, <1>5

(* What hash_find returns: an element with the wanted key, or the last     *)
(* element when it has the key; nothing only when there is none.           *)
LEMMA FindResult ==
  ASSUME HashTypeOK, NEW key \in Keys, NEW wanted \in {key, NULL}
  PROVE  /\ HashFind(key, wanted) # NULL =>
              /\ HashFind(key, wanted) \in Slots
              /\ \/ hash_table[HashFind(key, wanted)].key = wanted
                 \/ last # NULL /\ hash_table[last].key = key /\ HashFind(key, wanted) = last
         /\ HashFind(key, wanted) = NULL => \A i \in Slots : hash_table[i].key # wanted
<1>1. CASE last # NULL /\ hash_table[last].key = key
  BY <1>1 DEF HashFind, HashTypeOK
<1>2. CASE ~(last # NULL /\ hash_table[last].key = key) /\ \E i \in Slots : hash_table[i].key = wanted
  <2> DEFINE First(d) == /\ hash_table[Probe(key, d)].key = wanted
                         /\ \A e \in 0..(d - 1) : hash_table[Probe(key, e)].key # wanted
             f == CHOOSE d \in Slots : First(d)
  <2>1. \E d \in Slots : First(d)
    BY <1>2, FirstProbe
  <2>2. f \in Slots /\ First(f)
    BY <2>1
  <2>3. HashFind(key, wanted) = Probe(key, f)
    BY <1>2 DEF HashFind
  <2>4. Probe(key, f) \in Slots /\ hash_table[Probe(key, f)].key = wanted
    BY <2>2, ProbeCovers
  <2> QED
    BY <2>3, <2>4, HashAssumption
<1>3. CASE ~(last # NULL /\ hash_table[last].key = key) /\ ~ \E i \in Slots : hash_table[i].key = wanted
  BY <1>3 DEF HashFind
<1> QED
  BY <1>1, <1>2, <1>3

(* The element of a key, and that of hash_put when the table is not full.  *)
LEMMA FindKey ==
  ASSUME HashTypeOK, NEW key \in Keys
  PROVE  /\ HashFind(key, key) # NULL => HashFind(key, key) \in Slots /\ hash_table[HashFind(key, key)].key = key
         /\ HashFind(key, key) = NULL => \A i \in Slots : hash_table[i].key # key
BY FindResult

LEMMA FindFree ==
  ASSUME TableInv, NEW key \in Keys, count < Size
  PROVE  /\ PutSlot(key) \in Slots
         /\ \/ hash_table[PutSlot(key)].key = key
            \/ hash_table[PutSlot(key)].key = NULL /\ \A i \in Slots : hash_table[i].key # key
<1>1. HashTypeOK
  BY DEF TableInv
<1>2. CASE HashFind(key, key) # NULL
  BY <1>1, <1>2, FindKey DEF PutSlot
<1>3. CASE HashFind(key, key) = NULL
  <2>1. PutSlot(key) = HashFind(key, NULL) /\ \A i \in Slots : hash_table[i].key # key
    BY <1>1, <1>3, FindKey DEF PutSlot
  <2>2. ~(last # NULL /\ hash_table[last].key = key)
    BY <1>1, <2>1 DEF HashTypeOK
  <2>3. \E i \in Slots : hash_table[i].key = NULL
    <3> SUFFICES ASSUME \A i \in Slots : hash_table[i].key # NULL PROVE FALSE
      OBVIOUS
    <3>1. Used = Slots
      BY DEF Used
    <3>2. Cardinality(Slots) = Size
      BY HashAssumption, FS_Interval DEF Slots
    <3> QED
      BY <3>1, <3>2, HashAssumption DEF TableInv
  <2>4. HashFind(key, NULL) # NULL
    BY <1>1, <2>3, FindResult
  <2> QED
    BY <1>1, <2>1, <2>2, <2>4, FindResult
<1> QED
  BY <1>2, <1>3

-----------------------------------------------------------------------------
(* What hash_put and hash_del do to the elements, one by one               *)

Written(s, e) ==
  /\ s \in Slots /\ e \in Entry
  /\ hash_table' \in [Slots -> Entry]
  /\ hash_table'[s] = e
  /\ \A j \in Slots : j # s => hash_table'[j] = hash_table[j]

LEMMA WriteEffect ==
  ASSUME HashTypeOK, NEW s \in Slots, NEW e \in Entry, hash_table' = [hash_table EXCEPT ![s] = e]
  PROVE  Written(s, e)
BY DEF Written, HashTypeOK, Entry

LEMMA PutFields ==
  ASSUME NEW key \in Keys, NEW v \in Values
  PROVE  /\ [key |-> key, value |-> v] \in Entry
         /\ [key |-> key, value |-> v].key = key /\ [key |-> key, value |-> v].value = v
         /\ key # NULL /\ v # NULL
BY HashAssumption DEF Entry

LEMMA EmptyFields == Empty \in Entry /\ Empty.key = NULL /\ Empty.value = NULL
BY DEF Entry, Empty

(* A put with room replaces the element of the key or fills a free one.    *)
LEMMA PutEffect ==
  ASSUME TableInv, NEW key \in Keys, NEW v \in Values, HashPut(key, v), count < Size
  PROVE  \E s \in Slots :
           /\ v \in heap /\ heap' = heap \ {v}
           /\ \/ hash_table[s].key = key /\ count' = count
              \/ hash_table[s].key = NULL /\ count' = count + 1 /\ \A i \in Slots : hash_table[i].key # key
           /\ Written(s, [key |-> key, value |-> v])
           /\ freed' = freed \cup Old(s)
           /\ last' = s /\ result' = v
<1> DEFINE s == PutSlot(key)
<1>1. /\ s \in Slots
      /\ \/ hash_table[s].key = key
         \/ hash_table[s].key = NULL /\ \A i \in Slots : hash_table[i].key # key
  BY FindFree
<1>2. /\ v \in heap /\ heap' = heap \ {v}
      /\ hash_table' = [hash_table EXCEPT ![s] = [key |-> key, value |-> v]]
      /\ freed' = freed \cup Old(s)
      /\ count' = IF hash_table[s].key = NULL THEN count + 1 ELSE count
      /\ last' = s /\ result' = v
  BY DEF HashPut
<1> HIDE DEF s
<1>3. Written(s, [key |-> key, value |-> v])
  BY <1>1, <1>2, PutFields, WriteEffect DEF TableInv
<1> QED
  BY <1>1, <1>2, <1>3, PutFields

(* A put without room frees the new object.                                *)
LEMMA RefusedEffect ==
  ASSUME NEW key, NEW v, HashPut(key, v), ~(count < Size)
  PROVE  /\ v \in heap /\ heap' = heap \ {v} /\ freed' = freed \cup {v} /\ result' = NULL
         /\ hash_table' = hash_table /\ last' = last /\ count' = count
BY DEF HashPut

(* A delete empties the element of the key and frees its object.           *)
LEMMA DelEffect ==
  ASSUME HashTypeOK, NEW key \in Keys, HashDel(key)
  PROVE  /\ heap' = heap /\ result' = NULL
         /\ \/ /\ \A i \in Slots : hash_table[i].key # key
               /\ hash_table' = hash_table /\ count' = count /\ freed' = freed /\ last' = last
            \/ \E s \in Slots : /\ hash_table[s].key = key
                                /\ Written(s, Empty)
                                /\ freed' = freed \cup Old(s)
                                /\ count' = count - 1 /\ last' = s
<1> DEFINE s == HashFind(key, key)
<1>1. /\ s # NULL => s \in Slots /\ hash_table[s].key = key
      /\ s = NULL => \A i \in Slots : hash_table[i].key # key
  BY FindKey
<1>2. /\ s = NULL => hash_table' = hash_table /\ count' = count /\ freed' = freed
      /\ s # NULL => /\ hash_table' = [hash_table EXCEPT ![s] = Empty]
                     /\ freed' = freed \cup Old(s) /\ count' = count - 1
      /\ last' = (IF s = NULL THEN last ELSE s) /\ result' = NULL /\ heap' = heap
  BY DEF HashDel, LastAfter
<1> HIDE DEF s
<1>3. CASE s = NULL
  BY <1>1, <1>2, <1>3
<1>4. CASE s # NULL
  <2>1. Written(s, Empty)
    BY <1>1, <1>2, <1>4, EmptyFields, WriteEffect
  <2> QED
    BY <1>1, <1>2, <1>4, <2>1
<1> QED
  BY <1>3, <1>4

(* A get moves only the short-cut.                                         *)
LEMMA GetEffect ==
  ASSUME HashTypeOK, NEW key \in Keys, HashGet(key)
  PROVE  /\ hash_table' = hash_table /\ count' = count /\ heap' = heap /\ freed' = freed
         /\ last' \in Slots \cup {NULL}
         /\ \/ result' = NULL /\ \A i \in Slots : hash_table[i].key # key
            \/ \E i \in Slots : hash_table[i].key = key /\ result' = hash_table[i].value
<1> DEFINE s == HashFind(key, key)
<1>1. /\ s # NULL => s \in Slots /\ hash_table[s].key = key
      /\ s = NULL => \A i \in Slots : hash_table[i].key # key
  BY FindKey
<1>2. /\ hash_table' = hash_table /\ count' = count /\ heap' = heap /\ freed' = freed
      /\ last' = (IF s = NULL THEN last ELSE s)
      /\ result' = IF s = NULL THEN NULL ELSE hash_table[s].value
  BY DEF HashGet, LastAfter
<1> HIDE DEF s
<1> QED
  BY <1>1, <1>2 DEF HashTypeOK

-----------------------------------------------------------------------------
(* The inductive invariant                                                 *)

LEMMA UsedFinite == IsFiniteSet(Slots) /\ IsFiniteSet(Used)
<1>1. IsFiniteSet(Slots)
  BY HashAssumption, FS_Interval DEF Slots
<1> QED
  BY <1>1, FS_Subset DEF Used

LEMMA HashInvInit == HashInit => HashInv
<1> SUFFICES ASSUME HashInit PROVE HashInv
  OBVIOUS
<1>1. HashTypeOK
  BY EmptyFields, HashAssumption DEF HashInit, HashTypeOK, Entry
<1>2. \A i \in Slots : hash_table[i].key = NULL /\ hash_table[i].value = NULL
  BY EmptyFields DEF HashInit
<1>3. Used = {} /\ count = 0
  BY <1>2 DEF Used, HashInit
<1>4. count = Cardinality(Used)
  BY <1>3, FS_EmptySet
<1> QED
  BY <1>1, <1>2, <1>4 DEF HashInv, TableInv, OwnInv, HashInit

(* The count after a write: one more when a free element is filled, one    *)
(* less when a used one is emptied.                                        *)
LEMMA CountKeeps ==
  ASSUME TableInv, NEW s \in Slots, NEW e \in Entry, Written(s, e),
         \/ hash_table[s].key # NULL /\ e.key # NULL /\ count' = count
         \/ hash_table[s].key = NULL /\ e.key # NULL /\ count' = count + 1
         \/ hash_table[s].key # NULL /\ e.key = NULL /\ count' = count - 1
  PROVE  count' = Cardinality(Used')
<1> USE DEF Written
<1>0. IsFiniteSet(Used) /\ Cardinality(Used) \in Nat /\ count = Cardinality(Used)
  BY UsedFinite, FS_CardinalityType DEF TableInv
<1>1. CASE hash_table[s].key # NULL /\ e.key # NULL /\ count' = count
  <2>1. Used' = Used
    BY <1>1 DEF Used
  <2> QED
    BY <1>0, <1>1, <2>1
<1>2. CASE hash_table[s].key = NULL /\ e.key # NULL /\ count' = count + 1
  <2>1. Used' = Used \cup {s} /\ s \notin Used
    BY <1>2 DEF Used
  <2>2. Cardinality(Used \cup {s}) = Cardinality(Used) + 1
    BY <1>0, <2>1, FS_AddElement
  <2> QED
    BY <1>0, <1>2, <2>1, <2>2
<1>3. CASE hash_table[s].key # NULL /\ e.key = NULL /\ count' = count - 1
  <2>1. Used' = Used \ {s} /\ s \in Used
    BY <1>3 DEF Used
  <2>2. Cardinality(Used \ {s}) = Cardinality(Used) - 1
    BY <1>0, <2>1, FS_RemoveElement
  <2> QED
    BY <1>0, <1>3, <2>1, <2>2
<1> QED
  BY <1>1, <1>2, <1>3

(* The bound of the count: there are not more used elements than slots.    *)
LEMMA CountBound == ASSUME NEW U \in SUBSET Slots PROVE Cardinality(U) \in 0..Size
<1>1. IsFiniteSet(Slots) /\ Cardinality(Slots) = Size
  BY HashAssumption, FS_Interval DEF Slots
<1> QED
  BY <1>1, FS_Subset, FS_CardinalityType, HashAssumption

LEMMA PutKeeps ==
  ASSUME HashInv, NEW key \in Keys, NEW v \in Values, HashPut(key, v), count < Size
  PROVE  HashInv'
<1>1. PICK s \in Slots :
        /\ v \in heap /\ heap' = heap \ {v}
        /\ \/ hash_table[s].key = key /\ count' = count
           \/ hash_table[s].key = NULL /\ count' = count + 1 /\ \A i \in Slots : hash_table[i].key # key
        /\ Written(s, [key |-> key, value |-> v])
        /\ freed' = freed \cup Old(s)
        /\ last' = s /\ result' = v
  BY PutEffect DEF HashInv
<1> DEFINE e == [key |-> key, value |-> v]
<1>2. e \in Entry /\ e.key = key /\ e.value = v /\ key # NULL /\ v # NULL
  BY PutFields
<1>3. Written(s, e)
  BY <1>1
<1> HIDE DEF e
<1>4. count' = Cardinality(Used')
  BY <1>1, <1>2, <1>3, CountKeeps DEF HashInv
<1>5. count' \in 0..Size
  <2>1. Cardinality(Used') \in 0..Size
    BY CountBound DEF Used
  <2> QED
    BY <1>4, <2>1
<1>6. HashTypeOK'
  BY <1>1, <1>3, <1>5 DEF HashInv, TableInv, HashTypeOK, Written, Old, Entry
<1>7. TableInv'
  BY <1>1, <1>2, <1>3, <1>4, <1>6 DEF HashInv, TableInv, Written
<1>8. OwnInv'
  <2> USE <1>1, <1>2, <1>3 DEF HashInv, OwnInv, Written, Old
  <2>1. \A i, j \in Slots : hash_table'[i].value = hash_table'[j].value /\ hash_table'[i].value # NULL => i = j
    OBVIOUS
  <2>2. \A i \in Slots : hash_table'[i].value # NULL => hash_table'[i].value \notin heap' \cup freed'
    OBVIOUS
  <2>3. heap' \cap freed' = {}
    OBVIOUS
  <2>4. \A w \in Values : w \in heap' \cup freed' \/ \E i \in Slots : hash_table'[i].value = w
    <3> SUFFICES ASSUME NEW w \in Values, w \notin heap', w \notin freed'
                 PROVE  \E i \in Slots : hash_table'[i].value = w
      OBVIOUS
    <3>1. CASE w = v
      BY <3>1
    <3>2. CASE w # v
      <4>1. PICK i \in Slots : hash_table[i].value = w
        BY <3>2
      <4>2. i # s
        BY <4>1, HashAssumption
      <4> QED
        BY <4>1, <4>2
    <3> QED
      BY <3>1, <3>2
  <2> QED
    BY <2>1, <2>2, <2>3, <2>4
<1> QED
  BY <1>7, <1>8 DEF HashInv

LEMMA DelKeeps ==
  ASSUME HashInv, NEW key \in Keys, HashDel(key)
  PROVE  HashInv'
<1>0. HashTypeOK /\ TableInv /\ OwnInv
  BY DEF HashInv, TableInv
<1>1. CASE hash_table' = hash_table /\ count' = count /\ freed' = freed /\ last' = last
  <2>1. heap' = heap /\ result' = NULL
    BY <1>0, DelEffect
  <2> QED
    BY <1>0, <1>1, <2>1 DEF HashInv, TableInv, OwnInv, HashTypeOK, Used
<1>2. ASSUME NEW s \in Slots, hash_table[s].key = key, Written(s, Empty),
             freed' = freed \cup Old(s), count' = count - 1, last' = s
      PROVE  HashInv'
  <2>1. heap' = heap /\ result' = NULL
    BY <1>0, DelEffect
  <2>2. Empty \in Entry /\ Empty.key = NULL /\ Empty.value = NULL /\ key # NULL
    BY EmptyFields, HashAssumption
  <2>3. count' = Cardinality(Used')
    BY <1>0, <1>2, <2>2, CountKeeps
  <2>4. count' \in 0..Size
    <3>1. Cardinality(Used') \in 0..Size
      BY CountBound DEF Used
    <3> QED
      BY <2>3, <3>1
  <2>5. HashTypeOK'
    BY <1>0, <1>2, <2>1, <2>4 DEF HashTypeOK, Written, Old, Entry
  <2>6. TableInv'
    BY <1>0, <1>2, <2>2, <2>3, <2>5 DEF TableInv, Written
  <2>7. OwnInv'
    BY <1>0, <1>2, <2>1, <2>2 DEF OwnInv, Written, Old, TableInv, HashTypeOK
  <2> QED
    BY <2>6, <2>7 DEF HashInv
<1> QED
  BY <1>0, <1>1, <1>2, DelEffect

LEMMA HashInvStep == HashInv /\ [HashNext]_hashVars => HashInv'
<1> SUFFICES ASSUME HashInv, [HashNext]_hashVars PROVE HashInv'
  OBVIOUS
<1>0. HashTypeOK
  BY DEF HashInv, TableInv
<1>1. ASSUME NEW key \in Keys, HashGet(key) PROVE HashInv'
  BY <1>0, <1>1, GetEffect DEF HashInv, TableInv, OwnInv, HashTypeOK, Used
<1>2. ASSUME NEW key \in Keys, NEW v \in Values, HashPut(key, v), ~(count < Size) PROVE HashInv'
  <2>1. /\ v \in heap /\ heap' = heap \ {v} /\ freed' = freed \cup {v} /\ result' = NULL
        /\ hash_table' = hash_table /\ last' = last /\ count' = count
    BY <1>2, RefusedEffect
  <2>2. TableInv'
    BY <2>1 DEF HashInv, TableInv, HashTypeOK, Used
  <2>3. OwnInv'
    BY <2>1 DEF HashInv, OwnInv
  <2> QED
    BY <2>2, <2>3 DEF HashInv
<1>3. CASE UNCHANGED hashVars
  BY <1>3 DEF hashVars, HashInv, TableInv, OwnInv, HashTypeOK, Used
<1> QED
  BY <1>1, <1>2, <1>3, PutKeeps, DelKeeps DEF HashNext

LEMMA HashIsInv == HashSpec => []HashInv
BY HashInvInit, HashInvStep, PTL DEF HashSpec

(* hash.c neither leaks an object nor frees one twice: whatever the calls  *)
(* and wherever the short-cut of hash_find points, every object given to   *)
(* hash_put is in exactly one element or has been freed exactly once.      *)
THEOREM ObjectsAreOwnedOnce == HashSpec => []NoLeakNoDoubleFree
<1>1. ASSUME HashInv PROVE NoLeakNoDoubleFree
  <2> USE <1>1 DEF HashInv, TableInv, OwnInv, HashTypeOK
  <2>1. ValuesInTable \subseteq Values
    BY DEF ValuesInTable
  <2>2. ValuesInTable \cup freed \cup heap = Values
    <3>1. ASSUME NEW v \in Values, v \notin heap \cup freed PROVE v \in ValuesInTable
      BY <3>1, HashAssumption DEF ValuesInTable
    <3> QED
      BY <2>1, <3>1
  <2>3. ValuesInTable \cap freed = {}
    BY DEF ValuesInTable
  <2> QED
    BY <2>2, <2>3 DEF NoLeakNoDoubleFree
<1> QED
  BY <1>1, HashIsInv, PTL

-----------------------------------------------------------------------------
(* Refinement: the table implements BoundedMap                             *)

(* MapOf and the part of TableInv it rests on, of any table.               *)
MapIn(t) == [k \in Keys |-> IF \E i \in Slots : t[i].key = k
                            THEN t[CHOOSE i \in Slots : t[i].key = k].value ELSE NULL]
Regular(t) ==
  /\ \A i \in Slots : t[i].key = NULL <=> t[i].value = NULL
  /\ \A i, j \in Slots : t[i].key = t[j].key /\ t[i].key # NULL => i = j

(* The map at a key is the value of its element, when it has one.          *)
LEMMA MapInAt ==
  ASSUME NEW t, Regular(t), NEW k \in Keys
  PROVE  /\ \A i \in Slots : t[i].key = k => MapIn(t)[k] = t[i].value /\ MapIn(t)[k] # NULL
         /\ (\A i \in Slots : t[i].key # k) => MapIn(t)[k] = NULL
<1>1. MapIn(t)[k] = IF \E i \in Slots : t[i].key = k
                    THEN t[CHOOSE i \in Slots : t[i].key = k].value ELSE NULL
  BY DEF MapIn
<1>2. ASSUME NEW i \in Slots, t[i].key = k PROVE (CHOOSE j \in Slots : t[j].key = k) = i
  BY <1>2, HashAssumption DEF Regular
<1> QED
  BY <1>1, <1>2, HashAssumption DEF Regular

LEMMA MapAt ==
  ASSUME TableInv, NEW k \in Keys
  PROVE  /\ \A i \in Slots : hash_table[i].key = k => MapOf[k] = hash_table[i].value /\ MapOf[k] # NULL
         /\ (\A i \in Slots : hash_table[i].key # k) => MapOf[k] = NULL
<1>1. Regular(hash_table) /\ MapOf = MapIn(hash_table)
  BY DEF TableInv, Regular, MapOf, MapIn
<1> QED
  BY <1>1, MapInAt

(* A write that keeps the table regular sets the map at one key.           *)
LEMMA MapAfter ==
  ASSUME TableInv, TableInv', NEW key \in Keys, NEW s \in Slots, NEW e, Written(s, e),
         \/ hash_table[s].key = key
         \/ hash_table[s].key = NULL /\ \A i \in Slots : hash_table[i].key # key,
         \/ e.key = key
         \/ e.key = NULL /\ e.value = NULL
  PROVE  MapOf' = [MapOf EXCEPT ![key] = e.value]
<1> USE DEF Written
<1> DEFINE t == hash_table
           u == hash_table'
<1>1. Regular(t) /\ MapOf = MapIn(t) /\ Regular(u) /\ MapOf' = MapIn(u)
  BY DEF TableInv, Regular, MapOf, MapIn
<1>2. u[s] = e /\ \A j \in Slots : j # s => u[j] = t[j]
  OBVIOUS
<1> HIDE DEF t, u
<1>3. ASSUME NEW k \in Keys, k # key PROVE MapIn(u)[k] = MapIn(t)[k]
  <2>1. t[s].key # k /\ u[s].key # k
    BY <1>2, <1>3, HashAssumption DEF t
  <2>2. CASE \E i \in Slots : t[i].key = k
    <3>1. PICK i \in Slots : t[i].key = k
      BY <2>2
    <3>2. u[i] = t[i]
      BY <1>2, <2>1, <3>1
    <3>3. MapIn(t)[k] = t[i].value
      BY <1>1, <3>1, MapInAt
    <3>4. MapIn(u)[k] = u[i].value
      BY <1>1, <3>1, <3>2, MapInAt
    <3> QED
      BY <3>2, <3>3, <3>4
  <2>3. CASE \A i \in Slots : t[i].key # k
    <3>1. \A i \in Slots : u[i].key # k
      BY <1>2, <2>1, <2>3
    <3>2. MapIn(t)[k] = NULL
      BY <1>1, <2>3, MapInAt
    <3>3. MapIn(u)[k] = NULL
      BY <1>1, <3>1, MapInAt
    <3> QED
      BY <3>2, <3>3
  <2> QED
    BY <2>2, <2>3
<1>4. MapIn(u)[key] = e.value
  <2>1. CASE e.key = key
    BY <1>1, <1>2, <2>1, MapInAt
  <2>2. CASE e.key # key
    <3>1. \A i \in Slots : u[i].key # key
      BY <1>1, <1>2, <2>2, HashAssumption DEF Regular, t
    <3> QED
      BY <1>1, <2>2, <3>1, MapInAt
  <2> QED
    BY <2>1, <2>2
<1>5. MapIn(u) = [MapIn(t) EXCEPT ![key] = e.value]
  <2>1. /\ MapIn(t) = [k \in Keys |-> MapIn(t)[k]] /\ DOMAIN MapIn(t) = Keys
        /\ MapIn(u) = [k \in Keys |-> MapIn(u)[k]] /\ DOMAIN MapIn(u) = Keys
    BY DEF MapIn
  <2> DEFINE m == MapIn(t)
             n == MapIn(u)
  <2> HIDE DEF m, n
  <2>2. /\ m = [k \in Keys |-> m[k]] /\ n = [k \in Keys |-> n[k]]
        /\ n[key] = e.value /\ \A k \in Keys : k # key => n[k] = m[k]
    BY <1>3, <1>4, <2>1 DEF m, n
  <2>3. n = [m EXCEPT ![key] = e.value]
    BY <2>2
  <2> QED
    BY <2>3 DEF m, n
<1> QED
  BY <1>1, <1>5

(* The map has as many entries as the table has used elements.             *)
LEMMA DomainCount ==
  ASSUME TableInv
  PROVE  count = Abstract!Cardinality(Abstract!Domain)
<1> DEFINE f == [i \in Used |-> hash_table[i].key]
           D == {k \in Keys : MapOf[k] # NULL}
<1>0. HashTypeOK
  BY DEF TableInv
<1>1. f \in [Used -> D]
  <2> SUFFICES ASSUME NEW i \in Used PROVE hash_table[i].key \in D
    OBVIOUS
  <2>1. i \in Slots /\ hash_table[i].key \in Keys
    BY <1>0 DEF Used, HashTypeOK
  <2> QED
    BY <2>1, MapAt
<1>2. \A i, j \in Used : f[i] = f[j] => i = j
  BY DEF TableInv, Used
<1>3. ASSUME NEW k \in D PROVE \E i \in Used : f[i] = k
  <2>1. PICK i \in Slots : hash_table[i].key = k
    BY <1>3, MapAt
  <2> QED
    BY <2>1, HashAssumption DEF Used
<1>4. ExistsBijection(Used, D)
  <2>1. f \in Bijection(Used, D)
    BY <1>1, <1>2, <1>3 DEF Bijection, Injection, IsInjective, Surjection
  <2> QED
    BY <2>1 DEF ExistsBijection
<1>5. Cardinality(D) = Cardinality(Used)
  BY <1>4, UsedFinite, FS_Bijection
<1>6. Cardinality(D) = Abstract!Cardinality(D)
  BY DEF Cardinality, Abstract!Cardinality
<1> QED
  BY <1>5, <1>6 DEF TableInv, Abstract!Domain

LEMMA PutRefines ==
  ASSUME HashInv, HashInv', NEW key \in Keys, NEW v \in Values, HashPut(key, v)
  PROVE  Abstract!Put(key, v)
<1>1. TableInv /\ TableInv' /\ count = Abstract!Cardinality(Abstract!Domain)
  BY DomainCount DEF HashInv
<1>2. CASE count < Size
  <2>1. PICK s \in Slots :
          /\ \/ hash_table[s].key = key
             \/ hash_table[s].key = NULL /\ \A i \in Slots : hash_table[i].key # key
          /\ Written(s, [key |-> key, value |-> v])
          /\ result' = v
    BY <1>1, <1>2, PutEffect
  <2> DEFINE e == [key |-> key, value |-> v]
  <2>2. e.key = key /\ e.value = v /\ Written(s, e)
    BY <2>1, PutFields
  <2> HIDE DEF e
  <2>3. MapOf' = [MapOf EXCEPT ![key] = v]
    BY <1>1, <2>1, <2>2, MapAfter
  <2> QED
    BY <1>1, <1>2, <2>1, <2>3 DEF Abstract!Put
<1>3. CASE ~(count < Size)
  <2>1. hash_table' = hash_table /\ result' = NULL
    BY <1>3, RefusedEffect
  <2>2. MapOf' = MapOf
    BY <2>1 DEF MapOf
  <2> QED
    BY <1>1, <1>3, <2>1, <2>2 DEF Abstract!Put
<1> QED
  BY <1>2, <1>3

LEMMA DelRefines ==
  ASSUME HashInv, HashInv', NEW key \in Keys, HashDel(key)
  PROVE  Abstract!Del(key)
<1>1. TableInv /\ TableInv' /\ HashTypeOK
  BY DEF HashInv, TableInv
<1>2. result' = NULL
  BY <1>1, DelEffect
<1>3. CASE hash_table' = hash_table /\ \A i \in Slots : hash_table[i].key # key
  <2>1. MapOf' = MapOf
    BY <1>3 DEF MapOf
  <2>2. MapOf[key] = NULL
    BY <1>1, <1>3, MapAt
  <2>3. MapOf = [MapOf EXCEPT ![key] = NULL]
    <3>1. MapOf = [k \in Keys |-> MapOf[k]]
      BY DEF MapOf
    <3> QED
      BY <2>2, <3>1
  <2> QED
    BY <1>2, <2>1, <2>3 DEF Abstract!Del
<1>4. ASSUME NEW s \in Slots, hash_table[s].key = key, Written(s, Empty) PROVE Abstract!Del(key)
  <2>1. MapOf' = [MapOf EXCEPT ![key] = Empty.value]
    BY <1>1, <1>4, EmptyFields, MapAfter
  <2> QED
    BY <1>2, <2>1, EmptyFields DEF Abstract!Del
<1> QED
  BY <1>1, <1>3, <1>4, DelEffect

LEMMA GetRefines ==
  ASSUME HashInv, NEW key \in Keys, HashGet(key)
  PROVE  Abstract!Get(key)
<1>1. TableInv /\ HashTypeOK
  BY DEF HashInv, TableInv
<1>2. MapOf' = MapOf
  <2>1. hash_table' = hash_table
    BY <1>1, GetEffect
  <2> QED
    BY <2>1 DEF MapOf
<1>3. result' = MapOf[key]
  BY <1>1, GetEffect, MapAt
<1> QED
  BY <1>2, <1>3 DEF Abstract!Get

(* The table of hash.c implements a bounded map: every hash_put, hash_get  *)
(* and hash_del, with the short-cut and the linear probing, changes and    *)
(* returns what the call on the map would, for every size and key set.     *)
THEOREM TableImplementsMap == HashSpec => Implements
<1>1. HashInit => Abstract!Init
  <2> SUFFICES ASSUME HashInit PROVE Abstract!Init
    OBVIOUS
  <2>1. \A i \in Slots : hash_table[i].key = NULL
    BY EmptyFields DEF HashInit
  <2>2. \A k \in Keys : ~ \E i \in Slots : hash_table[i].key = k
    BY <2>1, HashAssumption
  <2>3. MapOf = [k \in Keys |-> NULL]
    BY <2>2 DEF MapOf
  <2> QED
    BY <2>3 DEF Abstract!Init, HashInit
<1>2. HashInv /\ HashInv' /\ [HashNext]_hashVars => [Abstract!Next]_<<MapOf, result>>
  <2> SUFFICES ASSUME HashInv, HashInv', [HashNext]_hashVars PROVE [Abstract!Next]_<<MapOf, result>>
    OBVIOUS
  <2>1. CASE UNCHANGED hashVars
    BY <2>1 DEF hashVars, MapOf
  <2>2. CASE HashNext
    <3>1. PICK key \in Keys : HashGet(key) \/ HashDel(key) \/ \E v \in Values : HashPut(key, v)
      BY <2>2 DEF HashNext
    <3>2. Abstract!Get(key) \/ Abstract!Del(key) \/ \E v \in Values : Abstract!Put(key, v)
      BY <3>1, GetRefines, DelRefines, PutRefines
    <3> QED
      BY <3>2 DEF Abstract!Next
  <2> QED
    BY <2>1, <2>2
<1> QED
  BY <1>1, <1>2, HashIsInv, PTL DEF HashSpec, Implements, Abstract!Spec
=============================================================================
