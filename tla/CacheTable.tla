----------------------------- MODULE CacheTable -----------------------------
(***************************************************************************)
(* The caches behind a destination (infra/cache_subject_observer.h,        *)
(* subject_observer.cpp) with the route entries that live in one: a        *)
(* destination registers with the entry of its key, the first registration *)
(* creates the entry, which observes a rule and a network device in turn;  *)
(* the last one to leave deletes it, or the garbage collector does when    *)
(* the entry could not be deleted then.  The device's timer notifies its   *)
(* observers, each under its own lock, down to the destinations.           *)
(***************************************************************************)
EXTENDS Naturals, FiniteSets

CONSTANTS
  CDsts,        \* the destinations (cache_observer)
  CKeys,        \* keys of the table
  OnDevice,     \* keys whose route leads to an offloaded device
  CIds,         \* memory for entries
  BusyIds,      \* entries that may be undeletable for a while
  NoEnt

NoKey == "none"
Nobody == "free"

ASSUME CacheAssumption ==
  /\ NoEnt \notin CIds /\ NoKey \notin CKeys
  /\ Nobody \notin CDsts /\ "gc" \notin CDsts

VARIABLES
  lockT,        \* holder of the table's m_lock
  ctab,         \* m_cache_tbl
  ent,          \* entries: [live, key, obs, inDev, inRule]
  busy,         \* entries whose is_deletable() is false now
  dst,          \* destinations: [pc, key, ent, next]
  coll,         \* the collector: [pc, ent]
  note,         \* the device's notification: [pc, left, e, dl]
  owed          \* destinations registered before the notification, not told yet

cacheVars == <<lockT, ctab, ent, busy, dst, coll, note, owed>>

NoEntry == [live |-> FALSE, key |-> NoKey, obs |-> {}, inDev |-> FALSE, inRule |-> FALSE]
Out == [pc |-> "out", key |-> NoKey, ent |-> NoEnt, next |-> NoKey]
Quiet == [pc |-> "idle", left |-> {}, e |-> NoEnt, dl |-> {}]

CacheInit ==
  /\ lockT = Nobody /\ ctab = [k \in CKeys |-> NoEnt]
  /\ ent = [i \in CIds |-> NoEntry] /\ busy = {}
  /\ dst = [d \in CDsts |-> Out]
  /\ coll = [pc |-> "idle", ent |-> NoEnt] /\ note = Quiet /\ owed = {}

DeviceLocked == note.pc # "idle"                 \* net_device_entry::m_lock
EntryLocked(i) == note.pc = "ent" /\ note.e = i  \* the entry's subject lock

-----------------------------------------------------------------------------
(* cache_table_mgr::register_observer                                       *)

register_observer(d, k) ==
  /\ dst[d].pc \in {"out", "rekey"} /\ (dst[d].pc = "rekey" => k = dst[d].next)
  /\ lockT = Nobody
  /\ lockT' = d
  /\ dst' = [dst EXCEPT ![d] = [pc |-> IF ctab[k] = NoEnt THEN "create" ELSE "attach",
                                key |-> k, ent |-> ctab[k], next |-> NoKey]]
  /\ UNCHANGED <<ctab, ent, busy, coll, note, owed>>

\* create_new_entry: the route entry registers with its rule entry.
create_new_entry(d) ==
  /\ dst[d].pc = "create"
  /\ \E i \in CIds :
       /\ ~ent[i].live
       /\ ent' = [ent EXCEPT ![i] = [NoEntry EXCEPT !.live = TRUE, !.key = dst[d].key, !.inRule = TRUE]]
       /\ dst' = [dst EXCEPT ![d].pc = "device", ![d].ent = i]
  /\ UNCHANGED <<lockT, ctab, busy, coll, note, owed>>

\* register_to_net_device, which waits for the device's lock; then the entry
\* is put into the table.
register_to_net_device(d) ==
  LET i == dst[d].ent
      on == dst[d].key \in OnDevice
  IN /\ dst[d].pc = "device" /\ (on => ~DeviceLocked)
     /\ ent' = [ent EXCEPT ![i].inDev = on]
     /\ ctab' = [ctab EXCEPT ![dst[d].key] = i]
     /\ dst' = [dst EXCEPT ![d].pc = "attach"]
     /\ UNCHANGED <<lockT, busy, coll, note, owed>>

\* subject::register_observer
Attach(d) ==
  /\ dst[d].pc = "attach" /\ ~EntryLocked(dst[d].ent)
  /\ ent' = [ent EXCEPT ![dst[d].ent].obs = @ \cup {d}]
  /\ dst' = [dst EXCEPT ![d].pc = "in"]
  /\ lockT' = Nobody
  /\ UNCHANGED <<ctab, busy, coll, note, owed>>

-----------------------------------------------------------------------------
(* cache_table_mgr::unregister_observer; next is the key a connecting        *)
(* destination registers with once it knows its source (NoKey: it is deleted).  *)

unregister_observer(d, next) ==
  /\ dst[d].pc = "in" /\ lockT = Nobody
  /\ lockT' = d
  /\ dst' = [dst EXCEPT ![d].pc = "detach", ![d].next = next]
  /\ UNCHANGED <<ctab, ent, busy, coll, note, owed>>

Left(d) == IF dst[d].next = NoKey THEN Out ELSE [dst[d] EXCEPT !.pc = "rekey", !.ent = NoEnt]

(* Mutant: the entry's observer list is not touched when the entry stays.    *)
DetachLast(d) ==
  LET i == dst[d].ent
      last == ent[i].obs = {d} /\ i \notin busy
  IN /\ dst[d].pc = "detach" /\ ~EntryLocked(i)
     /\ ent' = [ent EXCEPT ![i].obs = IF last THEN {} ELSE @]
     /\ owed' = owed \ {d}
     /\ dst' = [dst EXCEPT ![d] = IF last THEN [@ EXCEPT !.pc = "undevice"] ELSE Left(d)]
     /\ ctab' = IF last THEN [ctab EXCEPT ![dst[d].key] = NoEnt] ELSE ctab
     /\ lockT' = IF last THEN lockT ELSE Nobody
     /\ UNCHANGED <<busy, coll, note>>

\* subject::unregister_observer and try_to_remove_cache_entry
Detach(d) ==
  LET i == dst[d].ent
      last == ent[i].obs = {d} /\ i \notin busy
  IN /\ dst[d].pc = "detach" /\ ~EntryLocked(i)
     /\ ent' = [ent EXCEPT ![i].obs = @ \ {d}]
     /\ owed' = owed \ {d}
     /\ dst' = [dst EXCEPT ![d] = IF last THEN [@ EXCEPT !.pc = "undevice"] ELSE Left(d)]
     /\ ctab' = IF last THEN [ctab EXCEPT ![dst[d].key] = NoEnt] ELSE ctab
     /\ lockT' = IF last THEN lockT ELSE Nobody
     /\ UNCHANGED <<busy, coll, note>>

\* ~route_entry: leave the device (under its lock), then the rule.
Deleted(i) == IF ent[i].inDev THEN [ent EXCEPT ![i].inDev = FALSE] ELSE [ent EXCEPT ![i] = NoEntry]

(* Mutant: the observer is taken out without the subject's lock.             *)
UnregisterUnlocked(i) == TRUE

\* subject::unregister_observer of the device waits for its lock.
CanDelete(i) == ent[i].inDev => ~DeviceLocked

DeleteEntry(d) ==
  LET i == dst[d].ent IN
  /\ dst[d].pc = "undevice" /\ CanDelete(i)
  /\ ent' = Deleted(i)
  /\ dst' = IF ent[i].inDev THEN dst ELSE [dst EXCEPT ![d] = Left(d)]
  /\ lockT' = IF ent[i].inDev THEN lockT ELSE Nobody
  /\ UNCHANGED <<ctab, busy, coll, note, owed>>

-----------------------------------------------------------------------------
(* run_garbage_collector, from the table's timer                             *)

Unused(i) == ent[i].live /\ ctab[ent[i].key] = i /\ ent[i].obs = {}
CollectStart ==
  /\ coll.pc = "idle" /\ lockT = Nobody /\ \E i \in CIds : Unused(i)
  /\ lockT' = "gc" /\ coll' = [coll EXCEPT !.pc = "walk"]
  /\ UNCHANGED <<ctab, ent, busy, dst, note, owed>>
CollectOne(i) ==
  /\ coll.pc = "walk" /\ Unused(i) /\ i \notin busy
  /\ ctab' = [ctab EXCEPT ![ent[i].key] = NoEnt]
  /\ coll' = [pc |-> "delete", ent |-> i]
  /\ UNCHANGED <<lockT, ent, busy, dst, note, owed>>
CollectDelete ==
  /\ coll.pc = "delete" /\ CanDelete(coll.ent)
  /\ ent' = Deleted(coll.ent)
  /\ coll' = IF ent[coll.ent].inDev THEN coll ELSE [pc |-> "walk", ent |-> NoEnt]
  /\ UNCHANGED <<lockT, ctab, busy, dst, note, owed>>
CollectEnd ==
  /\ coll.pc = "walk" /\ ~ \E i \in CIds : Unused(i) /\ i \notin busy
  /\ lockT' = Nobody /\ coll' = [coll EXCEPT !.pc = "idle"]
  /\ UNCHANGED <<ctab, ent, busy, dst, note, owed>>

\* An entry cannot be deleted while its own work goes on (is_deletable).
Works(i) ==
  /\ i \in BusyIds /\ ent[i].live /\ ctab[ent[i].key] = i /\ ent[i].obs # {}
  /\ busy' = busy \cup {i}
  /\ UNCHANGED <<lockT, ctab, ent, dst, coll, note, owed>>
WorkEnds(i) ==
  /\ i \in busy
  /\ busy' = busy \ {i}
  /\ UNCHANGED <<lockT, ctab, ent, dst, coll, note, owed>>

-----------------------------------------------------------------------------
(* subject::notify_observers of the device, from its timer                   *)

NotifyDevice ==
  /\ note.pc = "idle"
  /\ note' = [Quiet EXCEPT !.pc = "dev", !.left = {i \in CIds : ent[i].inDev}]
  /\ owed' = {d \in CDsts : dst[d].pc = "in" /\ ent[dst[d].ent].inDev}
  /\ UNCHANGED <<lockT, ctab, ent, busy, dst, coll>>
NotifyEntry(i) ==                                \* route_entry::notify_cb
  /\ note.pc = "dev" /\ i \in note.left
  /\ note' = [note EXCEPT !.pc = "ent", !.e = i, !.left = @ \ {i}, !.dl = ent[i].obs]
  /\ UNCHANGED <<lockT, ctab, ent, busy, dst, coll, owed>>
NotifyDst(d) ==
  /\ note.pc = "ent" /\ d \in note.dl
  /\ note' = [note EXCEPT !.dl = @ \ {d}]
  /\ owed' = owed \ {d}
  /\ UNCHANGED <<lockT, ctab, ent, busy, dst, coll>>
NotifyEnd ==
  /\ \/ note.pc = "ent" /\ note.dl = {} /\ note' = [note EXCEPT !.pc = "dev", !.e = NoEnt]
     \/ note.pc = "dev" /\ note.left = {} /\ note' = Quiet
  /\ UNCHANGED <<lockT, ctab, ent, busy, dst, coll, owed>>

Leave(d) == \E next \in CKeys \cup {NoKey} : next # dst[d].key /\ unregister_observer(d, next)
Inside(d) == create_new_entry(d) \/ register_to_net_device(d) \/ Attach(d) \/ Detach(d) \/ DeleteEntry(d)
Collect == CollectStart \/ CollectDelete \/ CollectEnd \/ \E i \in CIds : CollectOne(i)
Notifying == NotifyEnd \/ (\E i \in CIds : NotifyEntry(i)) \/ \E d \in CDsts : NotifyDst(d)

CacheNext ==
  \/ \E d \in CDsts : (\E k \in CKeys : register_observer(d, k)) \/ Leave(d) \/ Inside(d)
  \/ \E i \in CIds : Works(i) \/ WorkEnds(i)
  \/ Collect \/ NotifyDevice \/ Notifying

CacheFairness ==
  /\ \A d \in CDsts : SF_cacheVars(Inside(d))
  /\ SF_cacheVars(Collect)
  /\ WF_cacheVars(Notifying)
CacheSpec == CacheInit /\ [][CacheNext]_cacheVars /\ CacheFairness

-----------------------------------------------------------------------------
CacheTypeOK ==
  /\ lockT \in CDsts \cup {Nobody, "gc"} /\ busy \subseteq CIds /\ owed \subseteq CDsts
  /\ \A k \in CKeys : ctab[k] \in CIds \cup {NoEnt}
  /\ \A i \in CIds : ent[i].obs \subseteq CDsts

(* A notification that walks the device's observers calls only entries and    *)
(* destinations that still exist, and tells every destination that was        *)
(* registered when it began and stayed.                                       *)
NotifiesTheLiving ==
  /\ \A i \in note.left : ent[i].live
  /\ note.pc = "ent" => ent[note.e].live /\ \A d \in note.dl : dst[d].pc # "out"
  /\ note.pc = "idle" => owed = {}

(* The table, the entries and their registrations agree: with the lock free,  *)
(* the living entries are those of the table, each observed by exactly the    *)
(* destinations that hold it and registered with the device and its rule.     *)
EntriesAccounted ==
  lockT = Nobody =>
    \A i \in CIds :
      /\ ent[i].live <=> \E k \in CKeys : ctab[k] = i
      /\ ent[i].obs = {d \in CDsts : dst[d].pc = "in" /\ dst[d].ent = i}
      /\ ent[i].live => ent[i].inRule /\ (ent[i].inDev <=> ent[i].key \in OnDevice)

(* An entry nobody observes does not stay for ever once it can be deleted.    *)
UnusedIsCollected == \A i \in CIds : ~ <>[](Unused(i) /\ i \notin busy)

=============================================================================
