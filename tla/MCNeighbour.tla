---------------------------- MODULE MCNeighbour -----------------------------
(***************************************************************************)
(* Instances of a neighbour entry for TLC: over Ethernet, over InfiniBand, *)
(* or either in one run (Subjects).                                        *)
(***************************************************************************)
EXTENDS Neighbour

CONSTANTS a1, a2, intThread, macA, macB, none, free, Subjects

VARIABLE subject

MCOneApp  == {a1}
MCApps    == {a1, a2}
MCL2s     == {macA, macB}
MCNudEth  == {"REACHABLE", "STALE", "FAILED"}
MCNudAll  == {"REACHABLE", "STALE", "DELAY", "INCOMPLETE", "FAILED"}

Ib == INSTANCE Neighbour WITH Transport <- "IB"

MCInit == subject \in Subjects /\ Init
MCNext ==
  \/ subject = "ETH" /\ Next /\ UNCHANGED subject
  \/ subject = "IB" /\ Ib!Next /\ UNCHANGED subject
MCSpec == MCInit /\ [][MCNext]_<<subject, vars>>

(* With the fairness of the entry over InfiniBand (Subjects is {"IB"}).    *)
EntryFairSpec == MCSpec /\ Fairness

(* Neighbour: an entry that is used comes to rest in READY or NOT_ACTIVE,  *)
(* and the packets that wait for it leave or are dropped.                  *)
EntrySettles == Settles /\ UnsentLeaves
=============================================================================
