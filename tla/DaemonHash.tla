----------------------------- MODULE DaemonHash -----------------------------
(***************************************************************************)
(* The hash container of vmad (hash.c): open addressing with linear        *)
(* probing, no tombstones (every search visits the whole table until it    *)
(* finds its key) and a pointer to the last accessed element that          *)
(* short-cuts the search.  Values are heap objects owned by the table.     *)
(***************************************************************************)
EXTENDS Naturals, FiniteSets

CONSTANTS
  Keys,     \* keys, a finite set of naturals
  Values,   \* heap objects
  Size,     \* number of elements, a prime
  NULL      \* no value, no key and no element

Slots == 0..(Size - 1)

ASSUME HashAssumption ==
  /\ Size \in Nat \ {0} /\ Keys \subseteq Nat
  /\ NULL \notin Keys /\ NULL \notin Values /\ NULL \notin Slots

Empty == [key |-> NULL, value |-> NULL]      \* HASH_KEY_INVALID

VARIABLES
  hash_table, \* the elements
  last,       \* slot of the last accessed element, or NULL
  count,      \* number of used elements
  heap,       \* values that no call has allocated yet
  freed,      \* values freed by the table or by the caller
  result      \* what the last call returned

hashVars == <<hash_table, last, count, heap, freed, result>>

HashInit ==
  /\ hash_table = [i \in Slots |-> Empty]
  /\ last = NULL /\ count = 0
  /\ heap = Values /\ freed = {} /\ result = NULL

-----------------------------------------------------------------------------
(* The slot at distance d of the home of a key.                            *)
Probe(key, d) == (key + d) % Size

(* Mutant of HashFind: the search stops at the first hole.                 *)
HashFindStopsAtHole(key, wanted) ==
  IF last # NULL /\ hash_table[last].key = key THEN last
  ELSE IF \E i \in Slots : hash_table[i].key \in {wanted, NULL}
  THEN LET d == CHOOSE d \in Slots : /\ hash_table[Probe(key, d)].key \in {wanted, NULL}
                                     /\ \A e \in 0..(d - 1) : hash_table[Probe(key, e)].key \notin {wanted, NULL}
       IN IF hash_table[Probe(key, d)].key = wanted THEN Probe(key, d) ELSE NULL
  ELSE NULL

(* hash_find: the last element, or the first slot of the probe sequence    *)
(* that holds the wanted key (NULL when looking for a free one).           *)
HashFind(key, wanted) ==
  IF last # NULL /\ hash_table[last].key = key THEN last
  ELSE IF \E i \in Slots : hash_table[i].key = wanted
  THEN LET d == CHOOSE d \in Slots : /\ hash_table[Probe(key, d)].key = wanted
                                     /\ \A e \in 0..(d - 1) : hash_table[Probe(key, e)].key # wanted
       IN Probe(key, d)
  ELSE NULL

(* What hash_find leaves in ht->last.                                      *)
LastAfter(found) == IF found = NULL THEN last ELSE found

Old(slot) == {hash_table[slot].value} \ {NULL}

(* The element hash_put writes to: that of the key, or a free one.         *)
PutSlot(key) == IF HashFind(key, key) # NULL THEN HashFind(key, key) ELSE HashFind(key, NULL)

(* Mutant of HashPut: the replaced value is not freed.                     *)
HashPutLeaks(key, v) ==
  LET slot == PutSlot(key)
  IN /\ v \in heap
     /\ heap' = heap \ {v}
     /\ IF count < Size
        THEN /\ hash_table' = [hash_table EXCEPT ![slot] = [key |-> key, value |-> v]]
             /\ count' = IF hash_table[slot].key = NULL THEN count + 1 ELSE count
             /\ last' = slot /\ result' = v /\ UNCHANGED freed
        ELSE /\ freed' = freed \cup {v} /\ result' = NULL
             /\ UNCHANGED <<hash_table, last, count>>

(* hash_put of a new object; the caller frees an object that is refused.   *)
HashPut(key, v) ==
  LET slot == PutSlot(key)
  IN /\ v \in heap
     /\ heap' = heap \ {v}
     /\ IF count < Size
        THEN /\ hash_table' = [hash_table EXCEPT ![slot] = [key |-> key, value |-> v]]
             /\ freed' = freed \cup Old(slot)
             /\ count' = IF hash_table[slot].key = NULL THEN count + 1 ELSE count
             /\ last' = slot /\ result' = v
        ELSE /\ freed' = freed \cup {v} /\ result' = NULL
             /\ UNCHANGED <<hash_table, last, count>>

HashGet(key) ==
  LET slot == HashFind(key, key)
  IN /\ result' = IF slot = NULL THEN NULL ELSE hash_table[slot].value
     /\ last' = LastAfter(slot)
     /\ UNCHANGED <<hash_table, count, heap, freed>>

HashDel(key) ==
  LET slot == HashFind(key, key)
  IN /\ IF slot = NULL
        THEN UNCHANGED <<hash_table, count, freed>>
        ELSE /\ hash_table' = [hash_table EXCEPT ![slot] = Empty]
             /\ freed' = freed \cup Old(slot)
             /\ count' = count - 1
     /\ last' = LastAfter(slot)
     /\ result' = NULL
     /\ UNCHANGED heap

HashNext == \E key \in Keys : HashGet(key) \/ HashDel(key) \/ \E v \in Values : HashPut(key, v)

HashSpec == HashInit /\ [][HashNext]_hashVars

-----------------------------------------------------------------------------
HashTypeOK ==
  /\ hash_table \in [Slots -> [key : Keys \cup {NULL}, value : Values \cup {NULL}]]
  /\ last \in Slots \cup {NULL}
  /\ count \in 0..Size
  /\ heap \subseteq Values /\ freed \subseteq Values
  /\ result \in Values \cup {NULL}

(* Every object given to the table is in exactly one place: in the table,  *)
(* or freed once.                                                          *)
ValuesInTable == {hash_table[i].value : i \in Slots} \ {NULL}
NoLeakNoDoubleFree ==
  /\ ValuesInTable \cup freed \cup heap = Values
  /\ ValuesInTable \cap freed = {}
  /\ \A i, j \in Slots : i # j /\ hash_table[i].value = hash_table[j].value => hash_table[i].value = NULL

(* The table implements a map, with or without the short-cut.              *)
MapOf == [k \in Keys |-> IF \E i \in Slots : hash_table[i].key = k
                         THEN hash_table[CHOOSE i \in Slots : hash_table[i].key = k].value
                         ELSE NULL]
Abstract == INSTANCE BoundedMap WITH map <- MapOf
Implements == Abstract!Spec
====
