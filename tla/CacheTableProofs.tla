-------------------------- MODULE CacheTableProofs --------------------------
(* Proofs about CacheTable, for any number of destinations, keys, entries  *)
(* and any set of keys that lead to a device.                              *)
EXTENDS CacheTable, TLAPS

Places == {"out", "rekey", "create", "device", "attach", "in", "detach", "undevice"}
Inner == {"create", "device", "attach", "detach", "undevice"}

EntryType == [live : BOOLEAN, key : CKeys \cup {NoKey}, obs : SUBSET CDsts, inDev : BOOLEAN, inRule : BOOLEAN]
DstType == [pc : Places, key : CKeys \cup {NoKey}, ent : CIds \cup {NoEnt}, next : CKeys \cup {NoKey}]

(* The shapes of the records.                                              *)
Types ==
  /\ ctab \in [CKeys -> CIds \cup {NoEnt}]
  /\ ent \in [CIds -> EntryType]
  /\ busy \subseteq CIds /\ owed \subseteq CDsts
  /\ dst \in [CDsts -> DstType]
  /\ coll \in [pc : {"idle", "walk", "delete"}, ent : CIds \cup {NoEnt}]
  /\ note \in [pc : {"idle", "dev", "ent"}, left : SUBSET CIds, e : CIds \cup {NoEnt}, dl : SUBSET CDsts]
  /\ lockT \in CDsts \cup {Nobody, "gc"}

(* The table's lock is held by the destination inside register_observer or *)
(* unregister_observer, or by the collector.                               *)
Holder ==
  /\ \A d \in CDsts : dst[d].pc \in Inner <=> lockT = d
  /\ coll.pc # "idle" <=> lockT = "gc"

(* Entry i is on its way in: made, but not yet in the table.               *)
Coming(i) == lockT \in CDsts /\ dst[lockT].pc = "device" /\ dst[lockT].ent = i
(* Entry i is on its way out: out of the table, observed by nobody.        *)
Leaving(i) ==
  \/ lockT \in CDsts /\ dst[lockT].pc = "undevice" /\ dst[lockT].ent = i
  \/ coll.pc = "delete" /\ coll.ent = i

(* What the table holds is alive, and what is alive is in the table, or on *)
(* its way in or out.                                                      *)
TableInv ==
  /\ \A k \in CKeys : ctab[k] # NoEnt => /\ ent[ctab[k]].live /\ ent[ctab[k]].key = k
                                         /\ (ent[ctab[k]].inDev <=> k \in OnDevice)
  /\ \A i \in CIds : ent[i].live => /\ ent[i].inRule /\ ent[i].key \in CKeys
                                    /\ (ctab[ent[i].key] = i \/ Coming(i) \/ Leaving(i))
  /\ \A i \in CIds : ~ent[i].live => ~ent[i].inDev
  /\ \A i \in CIds : Coming(i) \/ Leaving(i) => ent[i].live /\ \A k \in CKeys : ctab[k] # i

(* What a destination, or the collector, holds or is about to hold.        *)
HeldInv ==
  /\ \A d \in CDsts :
       /\ dst[d].pc \in {"attach", "in", "detach"} => /\ dst[d].key \in CKeys /\ dst[d].ent \in CIds
                                                      /\ ctab[dst[d].key] = dst[d].ent
       /\ dst[d].pc = "create" => dst[d].key \in CKeys /\ ctab[dst[d].key] = NoEnt
       /\ dst[d].pc = "device" => /\ dst[d].key \in CKeys /\ ctab[dst[d].key] = NoEnt /\ dst[d].ent \in CIds
                                  /\ ent[dst[d].ent].key = dst[d].key /\ ~ent[dst[d].ent].inDev
       /\ dst[d].pc = "undevice" => dst[d].ent \in CIds
       /\ dst[d].pc = "rekey" => dst[d].next \in CKeys
  /\ coll.pc = "delete" => coll.ent \in CIds

(* Each entry is observed by exactly the destinations that hold it.        *)
ObsInv ==
  \A i \in CIds : \A d \in CDsts : d \in ent[i].obs <=> dst[d].pc \in {"in", "detach"} /\ dst[d].ent = i

(* The notification walks entries that are registered with the device and, *)
(* under the entry's lock, destinations that observe it; who was there     *)
(* when it began is told, is still ahead of it, or has left.               *)
NoteInv ==
  /\ \A i \in note.left : ent[i].inDev
  /\ note.pc = "ent" => /\ note.e \in CIds /\ ent[note.e].inDev /\ note.dl \subseteq ent[note.e].obs
  /\ note.pc = "idle" => owed = {} /\ note.left = {}
  /\ note.pc # "ent" => note.dl = {}
  /\ \A d \in owed : /\ dst[d].pc \in {"in", "detach"}
                     /\ dst[d].ent \in note.left \/ (note.pc = "ent" /\ note.e = dst[d].ent /\ d \in note.dl)

CacheInv == Types /\ Holder /\ TableInv /\ HeldInv /\ ObsInv /\ NoteInv

(* A change of fields leaves a record of the same shape.                   *)
LEMMA DstFields ==
  ASSUME NEW r \in DstType, NEW p \in Places, NEW i \in CIds \cup {NoEnt}, NEW k \in CKeys \cup {NoKey}
  PROVE  /\ [r EXCEPT !.pc = p] \in DstType
         /\ [r EXCEPT !.pc = p, !.ent = i] \in DstType
         /\ [r EXCEPT !.pc = p, !.next = k] \in DstType
BY DEF DstType

LEMMA EntryFields ==
  ASSUME NEW r \in EntryType, NEW b \in BOOLEAN, NEW o \in SUBSET CDsts
  PROVE  /\ [r EXCEPT !.inDev = b] \in EntryType
         /\ [r EXCEPT !.obs = o] \in EntryType
BY DEF EntryType

(* What a destination is once it has let go of its entry.                  *)
LEMMA LeftFields ==
  ASSUME Types, NEW d \in CDsts
  PROVE  /\ Left(d) \in DstType /\ Left(d).pc \in {"out", "rekey"}
         /\ Left(d).pc = "rekey" => Left(d).next \in CKeys
<1>1. dst[d] \in DstType /\ dst[d].next \in CKeys \cup {NoKey}
  BY DEF Types, DstType
<1>2. CASE dst[d].next = NoKey
  BY <1>2 DEF Left, Out, DstType, Places
<1>3. CASE dst[d].next # NoKey
  <2>1. Left(d) = [dst[d] EXCEPT !.pc = "rekey", !.ent = NoEnt]
    BY <1>3 DEF Left
  <2>2. Left(d) \in DstType
    <3>1. NoEnt \in CIds \cup {NoEnt} /\ "rekey" \in Places
      BY DEF Places
    <3>2. [dst[d] EXCEPT !.pc = "rekey", !.ent = NoEnt] \in DstType
      BY <1>1, <3>1, DstFields
    <3> QED
      BY <2>1, <3>2
  <2>3. Left(d).pc = "rekey" /\ Left(d).next = dst[d].next
    BY <1>1, <2>1 DEF DstType
  <2> QED
    BY <1>1, <1>3, <2>2, <2>3
<1> QED
  BY <1>2, <1>3

(* What the deletion of an entry changes.                                  *)
LEMMA DeletedFields ==
  ASSUME Types, NEW i \in CIds, ent' = Deleted(i)
  PROVE  /\ ent' \in [CIds -> EntryType]
         /\ \A j \in CIds : j # i => ent'[j] = ent[j]
         /\ ~ent'[i].inDev
         /\ ent[i].inDev => /\ ent'[i].live = ent[i].live /\ ent'[i].key = ent[i].key
                            /\ ent'[i].obs = ent[i].obs /\ ent'[i].inRule = ent[i].inRule
         /\ ~ent[i].inDev => ~ent'[i].live /\ ent'[i].obs = {}
<1>1. ent \in [CIds -> EntryType] /\ ent[i] \in EntryType
  BY DEF Types
<1>2. CASE ent[i].inDev
  <2>1. ent' = [ent EXCEPT ![i] = [ent[i] EXCEPT !.inDev = FALSE]]
    BY <1>1, <1>2 DEF Deleted
  <2>2. [ent[i] EXCEPT !.inDev = FALSE] \in EntryType
    BY <1>1, EntryFields
  <2>3. ent'[i] = [ent[i] EXCEPT !.inDev = FALSE]
    BY <1>1, <2>1
  <2>4. /\ ~ent'[i].inDev
        /\ ent'[i].live = ent[i].live /\ ent'[i].key = ent[i].key
        /\ ent'[i].obs = ent[i].obs /\ ent'[i].inRule = ent[i].inRule
    BY <1>1, <2>3 DEF EntryType
  <2>5. ent' \in [CIds -> EntryType] /\ \A j \in CIds : j # i => ent'[j] = ent[j]
    BY <1>1, <2>1, <2>2
  <2> QED
    BY <1>2, <2>4, <2>5
<1>3. CASE ~ent[i].inDev
  <2>1. ent' = [ent EXCEPT ![i] = NoEntry]
    BY <1>3 DEF Deleted
  <2>2. NoEntry \in EntryType /\ ~NoEntry.inDev /\ ~NoEntry.live /\ NoEntry.obs = {}
    BY DEF NoEntry, EntryType
  <2> QED
    BY <1>1, <1>3, <2>1, <2>2
<1> QED
  BY <1>2, <1>3

(* What a new entry's registration with the device changes.                *)
LEMMA DeviceFields ==
  ASSUME Types, HeldInv, NEW d \in CDsts, register_to_net_device(d)
  PROVE  /\ dst[d].ent \in CIds /\ dst[d].key \in CKeys
         /\ ent' \in [CIds -> EntryType]
         /\ \A j \in CIds : /\ j # dst[d].ent => ent'[j] = ent[j]
                            /\ ent'[j].live = ent[j].live /\ ent'[j].key = ent[j].key
                            /\ ent'[j].obs = ent[j].obs /\ ent'[j].inRule = ent[j].inRule
         /\ ent'[dst[d].ent].inDev <=> dst[d].key \in OnDevice
         /\ dst' \in [CDsts -> DstType]
         /\ \A x \in CDsts : /\ x # d => dst'[x] = dst[x]
                             /\ dst'[x].key = dst[x].key /\ dst'[x].ent = dst[x].ent
         /\ dst'[d].pc = "attach"
         /\ ctab' = [ctab EXCEPT ![dst[d].key] = dst[d].ent]
<1> DEFINE on == dst[d].key \in OnDevice
<1>1. dst[d].ent \in CIds /\ dst[d].key \in CKeys
  BY DEF register_to_net_device, HeldInv
<1>2. ent \in [CIds -> EntryType] /\ ent[dst[d].ent] \in EntryType /\ dst \in [CDsts -> DstType] /\ dst[d] \in DstType
  BY <1>1 DEF Types
<1>3. ent' = [ent EXCEPT ![dst[d].ent] = [ent[dst[d].ent] EXCEPT !.inDev = on]]
  BY <1>1, <1>2 DEF register_to_net_device
<1>4. dst' = [dst EXCEPT ![d] = [dst[d] EXCEPT !.pc = "attach"]]
  BY <1>2 DEF register_to_net_device
<1>5. [ent[dst[d].ent] EXCEPT !.inDev = on] \in EntryType
  <2>1. on \in BOOLEAN
    OBVIOUS
  <2> QED
    BY <1>2, <2>1, EntryFields
<1>6. [dst[d] EXCEPT !.pc = "attach"] \in DstType
  BY <1>2, DstFields, "attach" \in Places DEF Places
<1>7. ent' \in [CIds -> EntryType] /\ dst' \in [CDsts -> DstType]
  BY <1>1, <1>2, <1>3, <1>4, <1>5, <1>6
<1>8. ent'[dst[d].ent] = [ent[dst[d].ent] EXCEPT !.inDev = on] /\ \A j \in CIds : j # dst[d].ent => ent'[j] = ent[j]
  BY <1>1, <1>2, <1>3
<1>9. dst'[d] = [dst[d] EXCEPT !.pc = "attach"] /\ \A x \in CDsts : x # d => dst'[x] = dst[x]
  BY <1>2, <1>4
<1>10. /\ ent'[dst[d].ent].inDev = on
       /\ \A j \in CIds : /\ ent'[j].live = ent[j].live /\ ent'[j].key = ent[j].key
                          /\ ent'[j].obs = ent[j].obs /\ ent'[j].inRule = ent[j].inRule
  BY <1>1, <1>2, <1>8 DEF EntryType
<1>11. /\ dst'[d].pc = "attach"
       /\ \A x \in CDsts : dst'[x].key = dst[x].key /\ dst'[x].ent = dst[x].ent
  BY <1>2, <1>9 DEF DstType
<1>12. ctab' = [ctab EXCEPT ![dst[d].key] = dst[d].ent]
  BY DEF register_to_net_device
<1> QED
  BY <1>1, <1>7, <1>8, <1>9, <1>10, <1>11, <1>12

(* What a destination's departure changes: it was the last one, and the    *)
(* entry leaves the table, or the entry stays and the lock is released.    *)
LEMMA DetachFields ==
  ASSUME Types, HeldInv, NEW d \in CDsts, Detach(d)
  PROVE  /\ dst[d].ent \in CIds /\ dst[d].key \in CKeys /\ ctab[dst[d].key] = dst[d].ent
         /\ ent' \in [CIds -> EntryType]
         /\ \A j \in CIds : /\ j # dst[d].ent => ent'[j] = ent[j]
                            /\ ent'[j].live = ent[j].live /\ ent'[j].key = ent[j].key
                            /\ ent'[j].inDev = ent[j].inDev /\ ent'[j].inRule = ent[j].inRule
         /\ \A x : x \in ent'[dst[d].ent].obs <=> x \in ent[dst[d].ent].obs /\ x # d
         /\ dst' \in [CDsts -> DstType]
         /\ \A x \in CDsts : x # d => dst'[x] = dst[x]
         /\ \/ /\ \A x : x \in ent[dst[d].ent].obs <=> x = d
               /\ dst'[d].pc = "undevice" /\ dst'[d].ent = dst[d].ent /\ lockT' = lockT
               /\ ctab' = [ctab EXCEPT ![dst[d].key] = NoEnt]
            \/ /\ dst'[d].pc \in {"out", "rekey"} /\ (dst'[d].pc = "rekey" => dst'[d].next \in CKeys)
               /\ lockT' = Nobody /\ ctab' = ctab
<1> DEFINE i == dst[d].ent
           last == ent[i].obs = {d} /\ i \notin busy
<1>1. i \in CIds /\ dst[d].key \in CKeys /\ ctab[dst[d].key] = i
  BY DEF Detach, HeldInv
<1>2. ent \in [CIds -> EntryType] /\ ent[i] \in EntryType /\ dst \in [CDsts -> DstType] /\ dst[d] \in DstType
  BY <1>1 DEF Types
<1>3. ent' = [ent EXCEPT ![i] = [ent[i] EXCEPT !.obs = ent[i].obs \ {d}]]
  BY <1>1, <1>2 DEF Detach
<1>4. [ent[i] EXCEPT !.obs = ent[i].obs \ {d}] \in EntryType
  <2>1. ent[i].obs \ {d} \in SUBSET CDsts
    BY <1>2 DEF EntryType
  <2> QED
    BY <1>2, <2>1, EntryFields
<1>5. ent' \in [CIds -> EntryType] /\ \A j \in CIds : j # i => ent'[j] = ent[j]
  BY <1>1, <1>2, <1>3, <1>4
<1>6. ent'[i] = [ent[i] EXCEPT !.obs = ent[i].obs \ {d}]
  BY <1>1, <1>2, <1>3
<1>7. /\ \A x : x \in ent'[i].obs <=> x \in ent[i].obs /\ x # d
      /\ \A j \in CIds : /\ ent'[j].live = ent[j].live /\ ent'[j].key = ent[j].key
                         /\ ent'[j].inDev = ent[j].inDev /\ ent'[j].inRule = ent[j].inRule
  <2>1. ent'[i].obs = ent[i].obs \ {d} /\ ent'[i].live = ent[i].live /\ ent'[i].key = ent[i].key
    BY <1>2, <1>6 DEF EntryType
  <2>2. ent'[i].inDev = ent[i].inDev /\ ent'[i].inRule = ent[i].inRule
    BY <1>2, <1>6 DEF EntryType
  <2> QED
    BY <2>1, <2>2, <1>5
<1>8. CASE last
  <2>1. dst' = [dst EXCEPT ![d] = [dst[d] EXCEPT !.pc = "undevice"]]
    BY <1>2, <1>8 DEF Detach
  <2>2. [dst[d] EXCEPT !.pc = "undevice"] \in DstType
    BY <1>2, DstFields, "undevice" \in Places DEF Places
  <2>3. dst' \in [CDsts -> DstType] /\ (\A x \in CDsts : x # d => dst'[x] = dst[x]) /\ dst'[d] = [dst[d] EXCEPT !.pc = "undevice"]
    BY <1>2, <2>1, <2>2
  <2>4. dst'[d].pc = "undevice" /\ dst'[d].ent = i
    BY <1>2, <2>3 DEF DstType
  <2>5. lockT' = lockT /\ ctab' = [ctab EXCEPT ![dst[d].key] = NoEnt]
    BY <1>8 DEF Detach
  <2>6. \A x : x \in ent[i].obs <=> x = d
    BY <1>8
  <2> QED
    BY <1>1, <1>5, <1>7, <2>3, <2>4, <2>5, <2>6
<1>9. CASE ~last
  <2>1. dst' = [dst EXCEPT ![d] = Left(d)]
    BY <1>2, <1>9 DEF Detach
  <2>2. dst' \in [CDsts -> DstType] /\ (\A x \in CDsts : x # d => dst'[x] = dst[x]) /\ dst'[d] = Left(d)
    BY <1>2, <2>1, LeftFields
  <2>3. lockT' = Nobody /\ ctab' = ctab
    BY <1>9 DEF Detach
  <2> QED
    BY <1>1, <1>5, <1>7, <2>2, <2>3, LeftFields
<1> QED
  BY <1>8, <1>9

(* Every step keeps the shapes.                                            *)
LEMMA TypesStep == CacheInv /\ [CacheNext]_cacheVars => Types'
<1> SUFFICES ASSUME Types, Holder, TableInv, HeldInv, ObsInv, NoteInv, [CacheNext]_cacheVars PROVE Types'
  BY DEF CacheInv
<1> USE CacheAssumption DEF NoKey, Nobody
<1>1. ASSUME NEW d \in CDsts, NEW k \in CKeys, register_observer(d, k) PROVE Types'
  BY <1>1 DEF register_observer, Types, EntryType, DstType, Places, HeldInv
<1>2. ASSUME NEW d \in CDsts, create_new_entry(d) PROVE Types'
  <2>1. PICK i \in CIds :
          /\ ent' = [ent EXCEPT ![i] = [NoEntry EXCEPT !.live = TRUE, !.key = dst[d].key, !.inRule = TRUE]]
          /\ dst' = [dst EXCEPT ![d].pc = "device", ![d].ent = i]
    BY <1>2 DEF create_new_entry
  <2>2. dst[d] \in DstType /\ dst[d].key \in CKeys \cup {NoKey}
    BY DEF Types, DstType
  <2>3. [NoEntry EXCEPT !.live = TRUE, !.key = dst[d].key, !.inRule = TRUE] \in EntryType
    BY <2>2 DEF NoEntry, EntryType
  <2>4. ent' \in [CIds -> EntryType]
    BY <2>1, <2>3 DEF Types
  <2>5. dst' \in [CDsts -> DstType]
    BY <2>1, <2>2 DEF Types, DstType, Places
  <2> QED
    BY <1>2, <2>4, <2>5 DEF create_new_entry, Types
<1>3. ASSUME NEW d \in CDsts, register_to_net_device(d) PROVE Types'
  <2>1. ent' \in [CIds -> EntryType] /\ dst' \in [CDsts -> DstType] /\ ctab' \in [CKeys -> CIds \cup {NoEnt}]
    BY <1>3, DeviceFields DEF Types
  <2> QED
    BY <1>3, <2>1 DEF register_to_net_device, Types
<1>4. ASSUME NEW d \in CDsts, Attach(d) PROVE Types'
  BY <1>4 DEF Attach, EntryLocked, Types, EntryType, DstType, Places, HeldInv
<1>5. ASSUME NEW d \in CDsts, NEW next \in CKeys \cup {NoKey}, unregister_observer(d, next) PROVE Types'
  <2>1. dst \in [CDsts -> DstType] /\ dst[d] \in DstType /\ "detach" \in Places
    BY DEF Types, Places
  <2>2. [dst[d] EXCEPT !.pc = "detach", !.next = next] \in DstType
    BY <2>1, DstFields
  <2>3. dst' = [dst EXCEPT ![d] = [dst[d] EXCEPT !.pc = "detach", !.next = next]]
    BY <1>5, <2>1 DEF unregister_observer
  <2>4. dst' \in [CDsts -> DstType]
    BY <2>1, <2>2, <2>3
  <2> QED
    BY <1>5, <2>4 DEF unregister_observer, Types
<1>6. ASSUME NEW d \in CDsts, Detach(d) PROVE Types'
  <2>1. ent' \in [CIds -> EntryType] /\ dst' \in [CDsts -> DstType]
    BY <1>6, DetachFields
  <2>2. ctab' \in [CKeys -> CIds \cup {NoEnt}]
    BY <1>6 DEF Detach, Types
  <2> QED
    BY <1>6, <2>1, <2>2 DEF Detach, Types
<1>7. ASSUME NEW d \in CDsts, DeleteEntry(d) PROVE Types'
  <2>1. dst[d].ent \in CIds
    BY <1>7 DEF DeleteEntry, HeldInv
  <2>2. ent' \in [CIds -> EntryType]
    BY <1>7, <2>1, DeletedFields DEF DeleteEntry
  <2>3. dst' \in [CDsts -> DstType]
    BY <1>7, LeftFields DEF DeleteEntry, Types
  <2> QED
    BY <1>7, <2>2, <2>3 DEF DeleteEntry, Types
<1>8. ASSUME NEW i \in CIds, Works(i) \/ WorkEnds(i) PROVE Types'
  BY <1>8 DEF Works, WorkEnds, Types, EntryType, DstType, Places, HeldInv
<1>9. ASSUME CollectStart PROVE Types'
  BY <1>9 DEF CollectStart, Types, EntryType, DstType, Places, HeldInv
<1>10. ASSUME NEW i \in CIds, CollectOne(i) PROVE Types'
  BY <1>10 DEF CollectOne, Unused, Types, EntryType, DstType, Places, HeldInv
<1>11. ASSUME CollectDelete PROVE Types'
  <2>1. coll.ent \in CIds
    BY <1>11 DEF CollectDelete, HeldInv
  <2>2. ent' \in [CIds -> EntryType]
    BY <1>11, <2>1, DeletedFields DEF CollectDelete
  <2> QED
    BY <1>11, <2>2 DEF CollectDelete, Types
<1>12. ASSUME CollectEnd PROVE Types'
  BY <1>12 DEF CollectEnd, Types, EntryType, DstType, Places, HeldInv
<1>13. ASSUME NotifyDevice PROVE Types'
  BY <1>13 DEF NotifyDevice, Quiet, Types, EntryType, DstType, Places, HeldInv
<1>14. ASSUME NEW i \in CIds, NotifyEntry(i) PROVE Types'
  BY <1>14 DEF NotifyEntry, Types, EntryType, DstType, Places, HeldInv
<1>15. ASSUME NEW d \in CDsts, NotifyDst(d) PROVE Types'
  BY <1>15 DEF NotifyDst, Types, EntryType, DstType, Places, HeldInv
<1>16. ASSUME NotifyEnd PROVE Types'
  <2>1. CASE note' = [note EXCEPT !.pc = "dev", !.e = NoEnt]
    <3>1. note' \in [pc : {"idle", "dev", "ent"}, left : SUBSET CIds, e : CIds \cup {NoEnt}, dl : SUBSET CDsts]
      BY <2>1 DEF Types
    <3> QED
      BY <1>16, <3>1 DEF NotifyEnd, Types
  <2>2. CASE note' = Quiet
    <3>1. note' \in [pc : {"idle", "dev", "ent"}, left : SUBSET CIds, e : CIds \cup {NoEnt}, dl : SUBSET CDsts]
      BY <2>2 DEF Quiet
    <3> QED
      BY <1>16, <3>1 DEF NotifyEnd, Types
  <2> QED
    BY <1>16, <2>1, <2>2 DEF NotifyEnd
<1>17. CASE UNCHANGED cacheVars
  BY <1>17 DEF cacheVars, Types, EntryType, DstType, Places, HeldInv
<1> QED
  BY <1>1, <1>2, <1>3, <1>4, <1>5, <1>6, <1>7, <1>8, <1>9, <1>10, <1>11, <1>12, <1>13, <1>14, <1>15, <1>16, <1>17 DEF CacheNext, Leave, Inside, Collect, Notifying

(* Every step keeps the lock with whom it names.                           *)
LEMMA HolderStep == CacheInv /\ [CacheNext]_cacheVars => Holder'
<1> SUFFICES ASSUME Types, Holder, TableInv, HeldInv, ObsInv, NoteInv, [CacheNext]_cacheVars PROVE Holder'
  BY DEF CacheInv
<1> USE CacheAssumption DEF NoKey, Nobody
<1>1. ASSUME NEW d \in CDsts, NEW k \in CKeys, register_observer(d, k) PROVE Holder'
  BY <1>1 DEF register_observer, Types, EntryType, DstType, Holder, Places, Inner
<1>2. ASSUME NEW d \in CDsts, create_new_entry(d) PROVE Holder'
  BY <1>2 DEF create_new_entry, NoEntry, Types, EntryType, DstType, Holder, Places, Inner
<1>3. ASSUME NEW d \in CDsts, register_to_net_device(d) PROVE Holder'
  BY <1>3 DEF register_to_net_device, DeviceLocked, Types, EntryType, DstType, Holder, Places, Inner
<1>4. ASSUME NEW d \in CDsts, Attach(d) PROVE Holder'
  BY <1>4 DEF Attach, EntryLocked, Types, EntryType, DstType, Holder, Places, Inner
<1>5. ASSUME NEW d \in CDsts, NEW next \in CKeys \cup {NoKey}, unregister_observer(d, next) PROVE Holder'
  BY <1>5 DEF unregister_observer, Types, EntryType, DstType, Holder, Places, Inner
<1>6. ASSUME NEW d \in CDsts, Detach(d) PROVE Holder'
  BY <1>6 DEF Detach, Left, Out, EntryLocked, Types, EntryType, DstType, Holder, Places, Inner
<1>7. ASSUME NEW d \in CDsts, DeleteEntry(d) PROVE Holder'
  BY <1>7 DEF DeleteEntry, Deleted, CanDelete, DeviceLocked, Left, Out, NoEntry, Types, EntryType, DstType, Holder, Places, Inner
<1>8. ASSUME NEW i \in CIds, Works(i) \/ WorkEnds(i) PROVE Holder'
  BY <1>8 DEF Works, WorkEnds, Types, EntryType, DstType, Holder, Places, Inner
<1>9. ASSUME CollectStart PROVE Holder'
  BY <1>9 DEF CollectStart, Types, EntryType, DstType, Holder, Places, Inner
<1>10. ASSUME NEW i \in CIds, CollectOne(i) PROVE Holder'
  BY <1>10 DEF CollectOne, Unused, Types, EntryType, DstType, Holder, Places, Inner
<1>11. ASSUME CollectDelete PROVE Holder'
  BY <1>11 DEF CollectDelete, Deleted, CanDelete, DeviceLocked, NoEntry, Types, EntryType, DstType, Holder, Places, Inner
<1>12. ASSUME CollectEnd PROVE Holder'
  BY <1>12 DEF CollectEnd, Types, EntryType, DstType, Holder, Places, Inner
<1>13. ASSUME NotifyDevice PROVE Holder'
  BY <1>13 DEF NotifyDevice, Quiet, Types, EntryType, DstType, Holder, Places, Inner
<1>14. ASSUME NEW i \in CIds, NotifyEntry(i) PROVE Holder'
  BY <1>14 DEF NotifyEntry, Types, EntryType, DstType, Holder, Places, Inner
<1>15. ASSUME NEW d \in CDsts, NotifyDst(d) PROVE Holder'
  BY <1>15 DEF NotifyDst, Types, EntryType, DstType, Holder, Places, Inner
<1>16. ASSUME NotifyEnd PROVE Holder'
  BY <1>16 DEF NotifyEnd, Quiet, Types, EntryType, DstType, Holder, Places, Inner
<1>17. CASE UNCHANGED cacheVars
  BY <1>17 DEF cacheVars, Types, EntryType, DstType, Holder, Places, Inner
<1> QED
  BY <1>1, <1>2, <1>3, <1>4, <1>5, <1>6, <1>7, <1>8, <1>9, <1>10, <1>11, <1>12, <1>13, <1>14, <1>15, <1>16, <1>17 DEF CacheNext, Leave, Inside, Collect, Notifying

(* Every step keeps the table and the living entries together.             *)
LEMMA TableInvStep == CacheInv /\ [CacheNext]_cacheVars => TableInv'
<1> SUFFICES ASSUME Types, Holder, TableInv, HeldInv, ObsInv, NoteInv, [CacheNext]_cacheVars PROVE TableInv'
  BY DEF CacheInv
<1> USE CacheAssumption DEF NoKey, Nobody
<1>1. ASSUME NEW d \in CDsts, NEW k \in CKeys, register_observer(d, k) PROVE TableInv'
  BY <1>1 DEF register_observer, Types, EntryType, DstType, Holder, Places, Inner, TableInv, HeldInv, Coming, Leaving
<1>2. ASSUME NEW d \in CDsts, create_new_entry(d) PROVE TableInv'
  BY <1>2 DEF create_new_entry, NoEntry, Types, EntryType, DstType, Holder, Places, Inner, TableInv, HeldInv, Coming, Leaving
<1>3. ASSUME NEW d \in CDsts, register_to_net_device(d) PROVE TableInv'
  <2> DEFINE i == dst[d].ent
             k == dst[d].key
  <2>1. i \in CIds /\ k \in CKeys
    BY <1>3, DeviceFields
  <2>2. lockT = d /\ lockT' = d /\ coll' = coll /\ dst[d].pc = "device" /\ coll.pc = "idle"
    BY <1>3 DEF register_to_net_device, Holder, Inner
  <2>3. \A j \in CIds : (Coming(j) <=> j = i) /\ ~Leaving(j)
    BY <2>2 DEF Coming, Leaving
  <2>4. \A j \in CIds : ~Coming(j)' /\ ~Leaving(j)'
    <3>1. dst'[d].pc = "attach"
      BY <1>3, DeviceFields
    <3> QED
      BY <2>2, <3>1 DEF Coming, Leaving
  <2>5. ctab'[k] = i /\ \A x \in CKeys : x # k => ctab'[x] = ctab[x]
    <3>1. ctab' = [ctab EXCEPT ![k] = i]
      BY <1>3, DeviceFields
    <3> QED
      BY <2>1, <3>1 DEF Types
  <2>6. ctab[k] = NoEnt /\ ent[i].key = k /\ ent[i].live /\ \A x \in CKeys : ctab[x] # i
    BY <1>3, <2>1, <2>2, <2>3 DEF HeldInv, TableInv
  <2>7. /\ \A j \in CIds : /\ j # i => ent'[j] = ent[j]
                           /\ ent'[j].live = ent[j].live /\ ent'[j].key = ent[j].key /\ ent'[j].inRule = ent[j].inRule
        /\ ent'[i].inDev <=> k \in OnDevice
    BY <1>3, DeviceFields
  <2>8. \A x \in CKeys : ctab[x] \in CIds \cup {NoEnt}
    BY DEF Types
  <2>9. \A x \in CKeys : ctab'[x] # NoEnt => /\ ent'[ctab'[x]].live /\ ent'[ctab'[x]].key = x
                                             /\ (ent'[ctab'[x]].inDev <=> x \in OnDevice)
    BY <2>1, <2>5, <2>6, <2>7, <2>8 DEF TableInv
  <2>10. \A j \in CIds : ent'[j].live => ent'[j].inRule /\ ent'[j].key \in CKeys /\ ctab'[ent'[j].key] = j
    BY <2>1, <2>3, <2>5, <2>6, <2>7 DEF TableInv
  <2>11. \A j \in CIds : ~ent'[j].live => ~ent'[j].inDev
    BY <2>6, <2>7 DEF TableInv
  <2> QED
    BY <2>4, <2>9, <2>10, <2>11 DEF TableInv
<1>4. ASSUME NEW d \in CDsts, Attach(d) PROVE TableInv'
  BY <1>4 DEF Attach, EntryLocked, Types, EntryType, DstType, Holder, Places, Inner, TableInv, HeldInv, Coming, Leaving
<1>5. ASSUME NEW d \in CDsts, NEW next \in CKeys \cup {NoKey}, unregister_observer(d, next) PROVE TableInv'
  BY <1>5 DEF unregister_observer, Types, EntryType, DstType, Holder, Places, Inner, TableInv, HeldInv, Coming, Leaving
<1>6. ASSUME NEW d \in CDsts, Detach(d) PROVE TableInv'
  <2> DEFINE i == dst[d].ent
             k == dst[d].key
  <2>1. i \in CIds /\ k \in CKeys /\ ctab[k] = i
    BY <1>6, DetachFields
  <2>2. lockT = d /\ coll' = coll /\ dst[d].pc = "detach" /\ coll.pc = "idle"
    BY <1>6 DEF Detach, Holder, Inner
  <2>3. \A j \in CIds : ~Coming(j) /\ ~Leaving(j)
    BY <2>2 DEF Coming, Leaving
  <2>4. \A j \in CIds : /\ ent'[j].live = ent[j].live /\ ent'[j].key = ent[j].key
                        /\ ent'[j].inDev = ent[j].inDev /\ ent'[j].inRule = ent[j].inRule
    BY <1>6, DetachFields
  <2>5. \A x \in CKeys : ctab[x] \in CIds \cup {NoEnt}
    BY DEF Types
  <2>6. CASE /\ dst'[d].pc = "undevice" /\ dst'[d].ent = i /\ lockT' = lockT
             /\ ctab' = [ctab EXCEPT ![k] = NoEnt]
    <3>1. ctab'[k] = NoEnt /\ \A x \in CKeys : x # k => ctab'[x] = ctab[x]
      BY <2>1, <2>6 DEF Types
    <3>2. \A j \in CIds : ~Coming(j)' /\ (Leaving(j)' <=> j = i)
      BY <2>2, <2>6 DEF Coming, Leaving
    <3>3. \A x \in CKeys : ctab'[x] # NoEnt => /\ ent'[ctab'[x]].live /\ ent'[ctab'[x]].key = x
                                               /\ (ent'[ctab'[x]].inDev <=> x \in OnDevice)
      BY <2>4, <2>5, <3>1 DEF TableInv
    <3>4. \A j \in CIds : ent'[j].live => /\ ent'[j].inRule /\ ent'[j].key \in CKeys
                                          /\ (ctab'[ent'[j].key] = j \/ Leaving(j)')
      BY <2>1, <2>3, <2>4, <3>1, <3>2 DEF TableInv
    <3>5. \A j \in CIds : ~ent'[j].live => ~ent'[j].inDev
      BY <2>4 DEF TableInv
    <3>6. ent'[i].live /\ \A x \in CKeys : ctab'[x] # i
      BY <2>1, <2>4, <3>1, CacheAssumption DEF TableInv
    <3> QED
      BY <3>2, <3>3, <3>4, <3>5, <3>6 DEF TableInv
  <2>7. CASE lockT' = Nobody /\ ctab' = ctab
    <3>1. \A j \in CIds : ~Coming(j)' /\ ~Leaving(j)'
      BY <2>2, <2>7 DEF Coming, Leaving
    <3> QED
      BY <2>3, <2>4, <2>5, <2>7, <3>1 DEF TableInv
  <2> QED
    BY <1>6, <2>6, <2>7, DetachFields
<1>7. ASSUME NEW d \in CDsts, DeleteEntry(d) PROVE TableInv'
  <2> DEFINE i == dst[d].ent
  <2>1. i \in CIds /\ ctab' = ctab /\ coll' = coll /\ dst[d].pc = "undevice" /\ ent' = Deleted(i) /\ lockT = d /\ coll.pc = "idle"
    BY <1>7 DEF DeleteEntry, HeldInv, Holder, Inner
  <2>2. /\ \A j \in CIds : j # i => ent'[j] = ent[j]
        /\ ~ent'[i].inDev
        /\ ent[i].inDev => ent'[i].live = ent[i].live /\ ent'[i].key = ent[i].key /\ ent'[i].inRule = ent[i].inRule
        /\ ~ent[i].inDev => ~ent'[i].live
    BY <2>1, DeletedFields
  <2>3. \A j \in CIds : ~Coming(j) /\ (Leaving(j) <=> j = i)
    BY <2>1 DEF Coming, Leaving
  <2>4. ent[i].live /\ \A k \in CKeys : ctab[k] # i
    BY <2>1, <2>3 DEF TableInv
  <2>5. \A j \in CIds : ~Coming(j)' /\ (Leaving(j)' <=> j = i /\ ent[i].inDev)
    <3>1. CASE ent[i].inDev
      BY <1>7, <2>1, <3>1 DEF DeleteEntry, Coming, Leaving
    <3>2. CASE ~ent[i].inDev
      <4>1. lockT' = Nobody
        BY <1>7, <3>2 DEF DeleteEntry
      <4> QED
        BY <2>1, <3>2, <4>1 DEF Coming, Leaving
    <3> QED
      BY <3>1, <3>2
  <2>6. \A k \in CKeys : ctab[k] \in CIds \cup {NoEnt}
    BY DEF Types
  <2>7. \A k \in CKeys : ctab'[k] # NoEnt => /\ ent'[ctab'[k]].live /\ ent'[ctab'[k]].key = k
                                             /\ (ent'[ctab'[k]].inDev <=> k \in OnDevice)
    BY <2>1, <2>2, <2>4, <2>6 DEF TableInv
  <2>8. \A j \in CIds : ent'[j].live => /\ ent'[j].inRule /\ ent'[j].key \in CKeys
                                        /\ (ctab'[ent'[j].key] = j \/ Leaving(j)')
    <3>1. \A j \in CIds : j # i /\ ent'[j].live => ent'[j].inRule /\ ent'[j].key \in CKeys /\ ctab'[ent'[j].key] = j
      BY <2>1, <2>2, <2>3 DEF TableInv
    <3>2. \A j \in CIds : j = i /\ ent'[j].live => ent'[j].inRule /\ ent'[j].key \in CKeys /\ Leaving(j)'
      <4>1. ent[i].inRule /\ ent[i].key \in CKeys
        BY <2>1, <2>4 DEF TableInv
      <4> QED
        BY <2>1, <2>2, <2>5, <4>1
    <3> QED
      BY <2>1, <3>1, <3>2
  <2>9. \A j \in CIds : ~ent'[j].live => ~ent'[j].inDev
    BY <2>2 DEF TableInv
  <2>10. \A j \in CIds : Leaving(j)' => ent'[j].live /\ \A k \in CKeys : ctab'[k] # j
    BY <2>1, <2>2, <2>4, <2>5
  <2> QED
    BY <2>5, <2>7, <2>8, <2>9, <2>10 DEF TableInv
<1>8. ASSUME NEW i \in CIds, Works(i) \/ WorkEnds(i) PROVE TableInv'
  BY <1>8 DEF Works, WorkEnds, Types, EntryType, DstType, Holder, Places, Inner, TableInv, HeldInv, Coming, Leaving
<1>9. ASSUME CollectStart PROVE TableInv'
  BY <1>9 DEF CollectStart, Types, EntryType, DstType, Holder, Places, Inner, TableInv, HeldInv, Coming, Leaving
<1>10. ASSUME NEW i \in CIds, CollectOne(i) PROVE TableInv'
  BY <1>10 DEF CollectOne, Unused, Types, EntryType, DstType, Holder, Places, Inner, TableInv, HeldInv, Coming, Leaving
<1>11. ASSUME CollectDelete PROVE TableInv'
  BY <1>11 DEF CollectDelete, Deleted, CanDelete, DeviceLocked, NoEntry, Types, EntryType, DstType, Holder, Places, Inner, TableInv, HeldInv, Coming, Leaving
<1>12. ASSUME CollectEnd PROVE TableInv'
  BY <1>12 DEF CollectEnd, Types, EntryType, DstType, Holder, Places, Inner, TableInv, HeldInv, Coming, Leaving
<1>13. ASSUME NotifyDevice PROVE TableInv'
  BY <1>13 DEF NotifyDevice, Quiet, Types, EntryType, DstType, Holder, Places, Inner, TableInv, HeldInv, Coming, Leaving
<1>14. ASSUME NEW i \in CIds, NotifyEntry(i) PROVE TableInv'
  BY <1>14 DEF NotifyEntry, Types, EntryType, DstType, Holder, Places, Inner, TableInv, HeldInv, Coming, Leaving
<1>15. ASSUME NEW d \in CDsts, NotifyDst(d) PROVE TableInv'
  BY <1>15 DEF NotifyDst, Types, EntryType, DstType, Holder, Places, Inner, TableInv, HeldInv, Coming, Leaving
<1>16. ASSUME NotifyEnd PROVE TableInv'
  BY <1>16 DEF NotifyEnd, Quiet, Types, EntryType, DstType, Holder, Places, Inner, TableInv, HeldInv, Coming, Leaving
<1>17. CASE UNCHANGED cacheVars
  BY <1>17 DEF cacheVars, Types, EntryType, DstType, Holder, Places, Inner, TableInv, HeldInv, Coming, Leaving
<1> QED
  BY <1>1, <1>2, <1>3, <1>4, <1>5, <1>6, <1>7, <1>8, <1>9, <1>10, <1>11, <1>12, <1>13, <1>14, <1>15, <1>16, <1>17 DEF CacheNext, Leave, Inside, Collect, Notifying

(* Every step keeps what the holders rely on.                              *)
LEMMA HeldInvStep == CacheInv /\ [CacheNext]_cacheVars => HeldInv'
<1> SUFFICES ASSUME Types, Holder, TableInv, HeldInv, ObsInv, NoteInv, [CacheNext]_cacheVars PROVE HeldInv'
  BY DEF CacheInv
<1> USE CacheAssumption DEF NoKey, Nobody
<1>1. ASSUME NEW d \in CDsts, NEW k \in CKeys, register_observer(d, k) PROVE HeldInv'
  BY <1>1 DEF register_observer, Types, EntryType, DstType, Holder, Places, Inner, TableInv, HeldInv, ObsInv, Coming, Leaving
<1>2. ASSUME NEW d \in CDsts, create_new_entry(d) PROVE HeldInv'
  BY <1>2 DEF create_new_entry, NoEntry, Types, EntryType, DstType, Holder, Places, Inner, TableInv, HeldInv, ObsInv, Coming, Leaving
<1>3. ASSUME NEW d \in CDsts, register_to_net_device(d) PROVE HeldInv'
  BY <1>3 DEF register_to_net_device, DeviceLocked, Types, EntryType, DstType, Holder, Places, Inner, TableInv, HeldInv, ObsInv, Coming, Leaving
<1>4. ASSUME NEW d \in CDsts, Attach(d) PROVE HeldInv'
  BY <1>4 DEF Attach, EntryLocked, Types, EntryType, DstType, Holder, Places, Inner, TableInv, HeldInv, ObsInv, Coming, Leaving
<1>5. ASSUME NEW d \in CDsts, NEW next \in CKeys \cup {NoKey}, unregister_observer(d, next) PROVE HeldInv'
  BY <1>5 DEF unregister_observer, Types, EntryType, DstType, Holder, Places, Inner, TableInv, HeldInv, ObsInv, Coming, Leaving
<1>6. ASSUME NEW d \in CDsts, Detach(d) PROVE HeldInv'
  <2> DEFINE i == dst[d].ent
             k == dst[d].key
  <2>1. i \in CIds /\ k \in CKeys /\ ctab[k] = i /\ \A x \in CDsts : x # d => dst'[x] = dst[x]
    BY <1>6, DetachFields
  <2>2. lockT = d /\ coll' = coll /\ dst[d].pc = "detach" /\ coll.pc = "idle"
    BY <1>6 DEF Detach, Holder, Inner
  <2>3. \A x \in CDsts : x # d => dst[x].pc \in {"out", "rekey", "in"}
    BY <2>2 DEF Holder, Inner, Types, DstType, Places
  <2>4. CASE /\ \A x : x \in ent[i].obs <=> x = d
             /\ dst'[d].pc = "undevice" /\ dst'[d].ent = i /\ ctab' = [ctab EXCEPT ![k] = NoEnt]
    <3>1. \A x \in CKeys : x # k => ctab'[x] = ctab[x]
      BY <2>1, <2>4 DEF Types
    <3>2. \A x \in CDsts : x # d /\ dst[x].pc = "in" => dst[x].ent # i
      BY <2>1, <2>4 DEF ObsInv
    <3> QED
      BY <2>1, <2>2, <2>3, <2>4, <3>1, <3>2 DEF HeldInv
  <2>5. CASE /\ dst'[d].pc \in {"out", "rekey"} /\ (dst'[d].pc = "rekey" => dst'[d].next \in CKeys)
             /\ ctab' = ctab
    BY <2>1, <2>2, <2>3, <2>5 DEF HeldInv
  <2> QED
    BY <1>6, <2>4, <2>5, DetachFields
<1>7. ASSUME NEW d \in CDsts, DeleteEntry(d) PROVE HeldInv'
  <2> DEFINE i == dst[d].ent
  <2>1. i \in CIds /\ ctab' = ctab /\ coll' = coll /\ dst[d].pc = "undevice" /\ lockT = d
    BY <1>7 DEF DeleteEntry, HeldInv, Holder, Inner
  <2>2. \A x \in CDsts : x # d => dst'[x] = dst[x] /\ dst[x].pc \in {"out", "rekey", "in"}
    <3>1. \A x \in CDsts : x # d => dst'[x] = dst[x]
      BY <1>7 DEF DeleteEntry, Types
    <3> QED
      BY <2>1, <3>1 DEF Holder, Inner, Types, DstType, Places
  <2>3. dst'[d] = dst[d] \/ dst'[d] = Left(d)
    BY <1>7 DEF DeleteEntry, Types
  <2>4. dst'[d].pc \in {"out", "rekey", "undevice"} /\ (dst'[d].pc = "rekey" => dst'[d].next \in CKeys)
        /\ (dst'[d].pc = "undevice" => dst'[d].ent \in CIds)
    BY <2>1, <2>3, LeftFields
  <2> QED
    BY <2>1, <2>2, <2>4 DEF HeldInv
<1>8. ASSUME NEW i \in CIds, Works(i) \/ WorkEnds(i) PROVE HeldInv'
  BY <1>8 DEF Works, WorkEnds, Types, EntryType, DstType, Holder, Places, Inner, TableInv, HeldInv, ObsInv, Coming, Leaving
<1>9. ASSUME CollectStart PROVE HeldInv'
  BY <1>9 DEF CollectStart, Types, EntryType, DstType, Holder, Places, Inner, TableInv, HeldInv, ObsInv, Coming, Leaving
<1>10. ASSUME NEW i \in CIds, CollectOne(i) PROVE HeldInv'
  BY <1>10 DEF CollectOne, Unused, Types, EntryType, DstType, Holder, Places, Inner, TableInv, HeldInv, ObsInv, Coming, Leaving
<1>11. ASSUME CollectDelete PROVE HeldInv'
  BY <1>11 DEF CollectDelete, Deleted, CanDelete, DeviceLocked, NoEntry, Types, EntryType, DstType, Holder, Places, Inner, TableInv, HeldInv, ObsInv, Coming, Leaving
<1>12. ASSUME CollectEnd PROVE HeldInv'
  BY <1>12 DEF CollectEnd, Types, EntryType, DstType, Holder, Places, Inner, TableInv, HeldInv, ObsInv, Coming, Leaving
<1>13. ASSUME NotifyDevice PROVE HeldInv'
  BY <1>13 DEF NotifyDevice, Quiet, Types, EntryType, DstType, Holder, Places, Inner, TableInv, HeldInv, ObsInv, Coming, Leaving
<1>14. ASSUME NEW i \in CIds, NotifyEntry(i) PROVE HeldInv'
  BY <1>14 DEF NotifyEntry, Types, EntryType, DstType, Holder, Places, Inner, TableInv, HeldInv, ObsInv, Coming, Leaving
<1>15. ASSUME NEW d \in CDsts, NotifyDst(d) PROVE HeldInv'
  BY <1>15 DEF NotifyDst, Types, EntryType, DstType, Holder, Places, Inner, TableInv, HeldInv, ObsInv, Coming, Leaving
<1>16. ASSUME NotifyEnd PROVE HeldInv'
  BY <1>16 DEF NotifyEnd, Quiet, Types, EntryType, DstType, Holder, Places, Inner, TableInv, HeldInv, ObsInv, Coming, Leaving
<1>17. CASE UNCHANGED cacheVars
  BY <1>17 DEF cacheVars, Types, EntryType, DstType, Holder, Places, Inner, TableInv, HeldInv, ObsInv, Coming, Leaving
<1> QED
  BY <1>1, <1>2, <1>3, <1>4, <1>5, <1>6, <1>7, <1>8, <1>9, <1>10, <1>11, <1>12, <1>13, <1>14, <1>15, <1>16, <1>17 DEF CacheNext, Leave, Inside, Collect, Notifying

(* Every step keeps the observers of an entry.                             *)
LEMMA ObsInvStep == CacheInv /\ [CacheNext]_cacheVars => ObsInv'
<1> SUFFICES ASSUME Types, Holder, TableInv, HeldInv, ObsInv, NoteInv, [CacheNext]_cacheVars PROVE ObsInv'
  BY DEF CacheInv
<1> USE CacheAssumption DEF NoKey, Nobody
<1>1. ASSUME NEW d \in CDsts, NEW k \in CKeys, register_observer(d, k) PROVE ObsInv'
  BY <1>1 DEF register_observer, Types, EntryType, DstType, Holder, Places, Inner, TableInv, HeldInv, ObsInv, Coming, Leaving
<1>2. ASSUME NEW d \in CDsts, create_new_entry(d) PROVE ObsInv'
  BY <1>2 DEF create_new_entry, NoEntry, Types, EntryType, DstType, Holder, Places, Inner, TableInv, HeldInv, ObsInv, Coming, Leaving
<1>3. ASSUME NEW d \in CDsts, register_to_net_device(d) PROVE ObsInv'
  BY <1>3 DEF register_to_net_device, DeviceLocked, Types, EntryType, DstType, Holder, Places, Inner, TableInv, HeldInv, ObsInv, Coming, Leaving
<1>4. ASSUME NEW d \in CDsts, Attach(d) PROVE ObsInv'
  BY <1>4 DEF Attach, EntryLocked, Types, EntryType, DstType, Holder, Places, Inner, TableInv, HeldInv, ObsInv, Coming, Leaving
<1>5. ASSUME NEW d \in CDsts, NEW next \in CKeys \cup {NoKey}, unregister_observer(d, next) PROVE ObsInv'
  BY <1>5 DEF unregister_observer, Types, EntryType, DstType, Holder, Places, Inner, TableInv, HeldInv, ObsInv, Coming, Leaving
<1>6. ASSUME NEW d \in CDsts, Detach(d) PROVE ObsInv'
  BY <1>6 DEF Detach, Left, Out, EntryLocked, Types, EntryType, DstType, Holder, Places, Inner, TableInv, HeldInv, ObsInv, Coming, Leaving
<1>7. ASSUME NEW d \in CDsts, DeleteEntry(d) PROVE ObsInv'
  BY <1>7 DEF DeleteEntry, Deleted, CanDelete, DeviceLocked, Left, Out, NoEntry, Types, EntryType, DstType, Holder, Places, Inner, TableInv, HeldInv, ObsInv, Coming, Leaving
<1>8. ASSUME NEW i \in CIds, Works(i) \/ WorkEnds(i) PROVE ObsInv'
  BY <1>8 DEF Works, WorkEnds, Types, EntryType, DstType, Holder, Places, Inner, TableInv, HeldInv, ObsInv, Coming, Leaving
<1>9. ASSUME CollectStart PROVE ObsInv'
  BY <1>9 DEF CollectStart, Types, EntryType, DstType, Holder, Places, Inner, TableInv, HeldInv, ObsInv, Coming, Leaving
<1>10. ASSUME NEW i \in CIds, CollectOne(i) PROVE ObsInv'
  BY <1>10 DEF CollectOne, Unused, Types, EntryType, DstType, Holder, Places, Inner, TableInv, HeldInv, ObsInv, Coming, Leaving
<1>11. ASSUME CollectDelete PROVE ObsInv'
  BY <1>11 DEF CollectDelete, Deleted, CanDelete, DeviceLocked, NoEntry, Types, EntryType, DstType, Holder, Places, Inner, TableInv, HeldInv, ObsInv, Coming, Leaving
<1>12. ASSUME CollectEnd PROVE ObsInv'
  BY <1>12 DEF CollectEnd, Types, EntryType, DstType, Holder, Places, Inner, TableInv, HeldInv, ObsInv, Coming, Leaving
<1>13. ASSUME NotifyDevice PROVE ObsInv'
  BY <1>13 DEF NotifyDevice, Quiet, Types, EntryType, DstType, Holder, Places, Inner, TableInv, HeldInv, ObsInv, Coming, Leaving
<1>14. ASSUME NEW i \in CIds, NotifyEntry(i) PROVE ObsInv'
  BY <1>14 DEF NotifyEntry, Types, EntryType, DstType, Holder, Places, Inner, TableInv, HeldInv, ObsInv, Coming, Leaving
<1>15. ASSUME NEW d \in CDsts, NotifyDst(d) PROVE ObsInv'
  BY <1>15 DEF NotifyDst, Types, EntryType, DstType, Holder, Places, Inner, TableInv, HeldInv, ObsInv, Coming, Leaving
<1>16. ASSUME NotifyEnd PROVE ObsInv'
  BY <1>16 DEF NotifyEnd, Quiet, Types, EntryType, DstType, Holder, Places, Inner, TableInv, HeldInv, ObsInv, Coming, Leaving
<1>17. CASE UNCHANGED cacheVars
  BY <1>17 DEF cacheVars, Types, EntryType, DstType, Holder, Places, Inner, TableInv, HeldInv, ObsInv, Coming, Leaving
<1> QED
  BY <1>1, <1>2, <1>3, <1>4, <1>5, <1>6, <1>7, <1>8, <1>9, <1>10, <1>11, <1>12, <1>13, <1>14, <1>15, <1>16, <1>17 DEF CacheNext, Leave, Inside, Collect, Notifying

(* Every step leaves the notification among the living.                    *)
LEMMA NoteInvStep == CacheInv /\ [CacheNext]_cacheVars => NoteInv'
<1> SUFFICES ASSUME Types, Holder, TableInv, HeldInv, ObsInv, NoteInv, [CacheNext]_cacheVars PROVE NoteInv'
  BY DEF CacheInv
<1> USE CacheAssumption DEF NoKey, Nobody
<1>1. ASSUME NEW d \in CDsts, NEW k \in CKeys, register_observer(d, k) PROVE NoteInv'
  BY <1>1 DEF register_observer, Types, EntryType, DstType, Holder, Places, Inner, TableInv, HeldInv, ObsInv, NoteInv, Coming, Leaving
<1>2. ASSUME NEW d \in CDsts, create_new_entry(d) PROVE NoteInv'
  BY <1>2 DEF create_new_entry, NoEntry, Types, EntryType, DstType, Holder, Places, Inner, TableInv, HeldInv, ObsInv, NoteInv, Coming, Leaving
<1>3. ASSUME NEW d \in CDsts, register_to_net_device(d) PROVE NoteInv'
  <2> DEFINE i == dst[d].ent
  <2>1. /\ \A j \in CIds : (j # i => ent'[j] = ent[j]) /\ ent'[j].obs = ent[j].obs
        /\ \A x \in CDsts : (x # d => dst'[x] = dst[x]) /\ dst'[x].ent = dst[x].ent
        /\ i \in CIds
    BY <1>3, DeviceFields
  <2>2. note' = note /\ owed' = owed /\ dst[d].pc = "device"
    BY <1>3 DEF register_to_net_device
  <2>3. ~ent[i].inDev
    BY <2>2 DEF HeldInv
  <2>4. d \notin owed /\ i \notin note.left /\ (note.pc = "ent" => note.e # i)
    BY <2>2, <2>3 DEF NoteInv
  <2>5. note.left \subseteq CIds /\ owed \subseteq CDsts
    BY DEF Types
  <2> QED
    BY <2>1, <2>2, <2>4, <2>5 DEF NoteInv
<1>4. ASSUME NEW d \in CDsts, Attach(d) PROVE NoteInv'
  BY <1>4 DEF Attach, EntryLocked, Types, EntryType, DstType, Holder, Places, Inner, TableInv, HeldInv, ObsInv, NoteInv, Coming, Leaving
<1>5. ASSUME NEW d \in CDsts, NEW next \in CKeys \cup {NoKey}, unregister_observer(d, next) PROVE NoteInv'
  BY <1>5 DEF unregister_observer, Types, EntryType, DstType, Holder, Places, Inner, TableInv, HeldInv, ObsInv, NoteInv, Coming, Leaving
<1>6. ASSUME NEW d \in CDsts, Detach(d) PROVE NoteInv'
  BY <1>6 DEF Detach, Left, Out, EntryLocked, Types, EntryType, DstType, Holder, Places, Inner, TableInv, HeldInv, ObsInv, NoteInv, Coming, Leaving
<1>7. ASSUME NEW d \in CDsts, DeleteEntry(d) PROVE NoteInv'
  <2> DEFINE i == dst[d].ent
  <2>1. i \in CIds /\ note' = note /\ owed' = owed /\ dst[d].pc = "undevice" /\ ent' = Deleted(i)
    BY <1>7 DEF DeleteEntry, HeldInv
  <2>2. /\ \A j \in CIds : j # i => ent'[j] = ent[j]
        /\ ent[i].inDev => ent'[i].obs = ent[i].obs
    BY <2>1, DeletedFields
  <2>3. \A x \in CDsts : x # d => dst'[x] = dst[x]
    BY <1>7 DEF DeleteEntry, Types
  <2>4. note.left \subseteq CIds /\ owed \subseteq CDsts
    BY DEF Types
  <2>5. ent[i].inDev => note.pc = "idle"
    BY <1>7 DEF DeleteEntry, CanDelete, DeviceLocked
  <2>6. d \notin owed /\ i \notin note.left /\ (note.pc = "ent" => note.e # i)
    BY <2>1, <2>5 DEF NoteInv
  <2> QED
    BY <2>1, <2>2, <2>3, <2>4, <2>6 DEF NoteInv
<1>8. ASSUME NEW i \in CIds, Works(i) \/ WorkEnds(i) PROVE NoteInv'
  BY <1>8 DEF Works, WorkEnds, Types, EntryType, DstType, Holder, Places, Inner, TableInv, HeldInv, ObsInv, NoteInv, Coming, Leaving
<1>9. ASSUME CollectStart PROVE NoteInv'
  BY <1>9 DEF CollectStart, Types, EntryType, DstType, Holder, Places, Inner, TableInv, HeldInv, ObsInv, NoteInv, Coming, Leaving
<1>10. ASSUME NEW i \in CIds, CollectOne(i) PROVE NoteInv'
  BY <1>10 DEF CollectOne, Unused, Types, EntryType, DstType, Holder, Places, Inner, TableInv, HeldInv, ObsInv, NoteInv, Coming, Leaving
<1>11. ASSUME CollectDelete PROVE NoteInv'
  <2> DEFINE i == coll.ent
  <2>1. i \in CIds /\ note' = note /\ owed' = owed /\ dst' = dst /\ ent' = Deleted(i)
    BY <1>11 DEF CollectDelete, HeldInv
  <2>2. \A j \in CIds : j # i => ent'[j] = ent[j]
    BY <2>1, DeletedFields
  <2>3. note.left \subseteq CIds /\ owed \subseteq CDsts
    BY DEF Types
  <2>4. ent[i].inDev => note.pc = "idle"
    BY <1>11 DEF CollectDelete, CanDelete, DeviceLocked
  <2>5. i \notin note.left /\ (note.pc = "ent" => note.e # i)
    BY <2>1, <2>4 DEF NoteInv
  <2> QED
    BY <2>1, <2>2, <2>3, <2>5 DEF NoteInv
<1>12. ASSUME CollectEnd PROVE NoteInv'
  BY <1>12 DEF CollectEnd, Types, EntryType, DstType, Holder, Places, Inner, TableInv, HeldInv, ObsInv, NoteInv, Coming, Leaving
<1>13. ASSUME NotifyDevice PROVE NoteInv'
  BY <1>13 DEF NotifyDevice, Quiet, Types, EntryType, DstType, Holder, Places, Inner, TableInv, HeldInv, ObsInv, NoteInv, Coming, Leaving
<1>14. ASSUME NEW i \in CIds, NotifyEntry(i) PROVE NoteInv'
  BY <1>14 DEF NotifyEntry, Types, EntryType, DstType, Holder, Places, Inner, TableInv, HeldInv, ObsInv, NoteInv, Coming, Leaving
<1>15. ASSUME NEW d \in CDsts, NotifyDst(d) PROVE NoteInv'
  BY <1>15 DEF NotifyDst, Types, EntryType, DstType, Holder, Places, Inner, TableInv, HeldInv, ObsInv, NoteInv, Coming, Leaving
<1>16. ASSUME NotifyEnd PROVE NoteInv'
  <2>1. CASE note.pc = "ent" /\ note.dl = {} /\ note' = [note EXCEPT !.pc = "dev", !.e = NoEnt]
    <3>1. note'.pc = "dev" /\ note'.left = note.left /\ note'.dl = note.dl
      BY <2>1 DEF Types
    <3> QED
      BY <1>16, <2>1, <3>1 DEF NotifyEnd, NoteInv
  <2>2. CASE note.pc = "dev" /\ note.left = {} /\ note' = Quiet
    <3>1. note'.pc = "idle" /\ note'.left = {} /\ note'.dl = {}
      BY <2>2 DEF Quiet
    <3> QED
      BY <1>16, <2>2, <3>1 DEF NotifyEnd, NoteInv
  <2> QED
    BY <1>16, <2>1, <2>2 DEF NotifyEnd
<1>17. CASE UNCHANGED cacheVars
  BY <1>17 DEF cacheVars, Types, EntryType, DstType, Holder, Places, Inner, TableInv, HeldInv, ObsInv, NoteInv, Coming, Leaving
<1> QED
  BY <1>1, <1>2, <1>3, <1>4, <1>5, <1>6, <1>7, <1>8, <1>9, <1>10, <1>11, <1>12, <1>13, <1>14, <1>15, <1>16, <1>17 DEF CacheNext, Leave, Inside, Collect, Notifying

(* The invariant holds throughout.                                         *)
LEMMA CacheIsInv == CacheSpec => []CacheInv
<1>1. CacheInit => CacheInv
  <2> SUFFICES ASSUME CacheInit PROVE CacheInv
    OBVIOUS
  <2> USE CacheAssumption DEF NoKey, Nobody
  <2>1. Types
    BY DEF CacheInit, Types, NoEntry, Out, Quiet, EntryType, DstType, Places
  <2>2. Holder
    BY DEF CacheInit, Holder, Out, Inner
  <2>3. TableInv
    BY DEF CacheInit, TableInv, NoEntry, Out, Coming, Leaving
  <2>4. HeldInv
    BY DEF CacheInit, HeldInv, Out
  <2>5. ObsInv
    BY DEF CacheInit, ObsInv, NoEntry, Out
  <2>6. NoteInv
    BY DEF CacheInit, NoteInv, Quiet
  <2> QED
    BY <2>1, <2>2, <2>3, <2>4, <2>5, <2>6 DEF CacheInv
<1>2. CacheInv /\ [CacheNext]_cacheVars => CacheInv'
  BY TypesStep, HolderStep, TableInvStep, HeldInvStep, ObsInvStep, NoteInvStep DEF CacheInv
<1> QED
  BY <1>1, <1>2, PTL DEF CacheSpec

(* subject::notify_observers of the device calls only what still exists:   *)
(* an entry leaves the device's observers, under the device's lock, before *)
(* it is freed, and a destination leaves its entry's; whoever was there    *)
(* when the walk began and stayed is told by its end.                      *)
THEOREM NotificationIsSafe == CacheSpec => []NotifiesTheLiving
<1>1. CacheInv => NotifiesTheLiving
  <2> SUFFICES ASSUME Types, TableInv, ObsInv, NoteInv PROVE NotifiesTheLiving
    BY DEF CacheInv
  <2>1. \A i \in CIds : ent[i].inDev => ent[i].live
    BY DEF TableInv
  <2>2. note.left \subseteq CIds /\ note.dl \subseteq CDsts
    BY DEF Types
  <2>3. \A i \in note.left : ent[i].live
    BY <2>1, <2>2 DEF NoteInv
  <2>4. note.pc = "ent" => ent[note.e].live /\ \A d \in note.dl : dst[d].pc # "out"
    BY <2>1, <2>2 DEF NoteInv, ObsInv
  <2> QED
    BY <2>3, <2>4 DEF NotifiesTheLiving, NoteInv
<1> QED
  BY <1>1, CacheIsInv, PTL

(* With the table's lock free, cache_table_mgr's table and the living      *)
(* entries are the same, each entry is observed by exactly the             *)
(* destinations that hold it, and it is registered with its rule and, when *)
(* its key leads there, with the device.                                   *)
THEOREM TableIsExact == CacheSpec => []EntriesAccounted
<1>1. CacheInv => EntriesAccounted
  <2> SUFFICES ASSUME Types, Holder, TableInv, ObsInv, lockT = Nobody, NEW i \in CIds
               PROVE  /\ ent[i].live <=> \E k \in CKeys : ctab[k] = i
                      /\ ent[i].obs = {d \in CDsts : dst[d].pc = "in" /\ dst[d].ent = i}
                      /\ ent[i].live => ent[i].inRule /\ (ent[i].inDev <=> ent[i].key \in OnDevice)
    BY DEF CacheInv, EntriesAccounted
  <2>1. ~Coming(i) /\ ~Leaving(i)
    BY CacheAssumption DEF Holder, Coming, Leaving, Nobody
  <2>2. ent[i].live <=> \E k \in CKeys : ctab[k] = i
    BY <2>1, CacheAssumption DEF TableInv
  <2>3. ent[i].live => ent[i].inRule /\ (ent[i].inDev <=> ent[i].key \in OnDevice)
    BY <2>1, CacheAssumption DEF TableInv
  <2>4. \A d \in CDsts : dst[d].pc # "detach"
    BY CacheAssumption DEF Holder, Inner
  <2>5. ent[i].obs \subseteq CDsts
    BY DEF Types, EntryType
  <2>6. ent[i].obs = {d \in CDsts : dst[d].pc = "in" /\ dst[d].ent = i}
    BY <2>4, <2>5 DEF ObsInv
  <2> QED
    BY <2>2, <2>3, <2>6
<1> QED
  BY <1>1, CacheIsInv, PTL

=============================================================================
