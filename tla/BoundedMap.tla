----------------------------- MODULE BoundedMap -----------------------------
(***************************************************************************)
(* What hash.h promises: a map from keys to values with at most Size       *)
(* entries.  A put on a full map is refused, also for a key it holds.      *)
(***************************************************************************)
EXTENDS Naturals, FiniteSets

CONSTANTS Keys, Values, Size, NULL

VARIABLES map, result

Domain == {k \in Keys : map[k] # NULL}

Init == map = [k \in Keys |-> NULL] /\ result = NULL

Put(k, v) ==
  IF Cardinality(Domain) < Size
  THEN map' = [map EXCEPT ![k] = v] /\ result' = v
  ELSE UNCHANGED map /\ result' = NULL

Get(k) == result' = map[k] /\ UNCHANGED map

Del(k) == map' = [map EXCEPT ![k] = NULL] /\ result' = NULL

Next == \E k \in Keys : Get(k) \/ Del(k) \/ \E v \in Values : Put(k, v)

Spec == Init /\ [][Next]_<<map, result>>
====
