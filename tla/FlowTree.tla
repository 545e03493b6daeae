------------------------------ MODULE FlowTree ------------------------------
(***************************************************************************)
(* The tree of tc elements that vmad keeps for an interface (flow.c):      *)
(* interface -> hash table per flow type and address -> bucket -> node,    *)
(* each with a reference count, and the kernel's filters that it mirrors.  *)
(* add_flow takes a reference on every level and does not give it back     *)
(* when a later level fails; del_flow walks the same path down.            *)
(*                                                                         *)
(* An element of the tree with no reference and no child is freed, so its  *)
(* presence is derived from its count and its children.                    *)
(***************************************************************************)
EXTENDS Integers, Sequences, FiniteSets, SequencesExt, FiniteSetsExt

CONSTANTS
  Pids,       \* processes with flows on the interface
  Flows,      \* records [type, ip, port, src]; src is 0 for a 3-tuple
  Divisor,    \* buckets of a hash table (0x100 in the code)
  MaxId,      \* largest node id (MAX_ID, 0xFFF)
  TcMayFail,  \* may a tc command fail
  MaxAdds     \* bound on the calls of add_flow

HtKeys == {<<f.type, f.ip>> : f \in Flows}
KeyOf(f) == <<f.type, f.ip>>
EINVAL == 22
Bkts == 0..(Divisor - 1)
Tables == 1..(MaxAdds + 1)                   \* ids of the hash tables
NodeIds == 1..MaxId

VARIABLES
  stored,   \* the flow_lists of the processes: [pid, flow, ht, bkt, id]
  if_ref,   \* reference count of the interface element
  ht_ref,   \* reference count of each hash table element
  ht_id,    \* the table id of each hash table element
  bkt_ref,  \* reference count of each bucket element
  nodes,    \* node ids of each bucket, in list order
  bitmap,   \* used table ids of the interface
  filters,  \* kernel: filters [ht, bkt, id, flow]
  links,    \* kernel: rules that send an address to a table
  adds      \* number of calls of add_flow

vars == <<stored, if_ref, ht_ref, ht_id, bkt_ref, nodes, bitmap, filters, links, adds>>

Init ==
  /\ stored = {} /\ if_ref = 0
  /\ ht_ref = [k \in HtKeys |-> 0] /\ ht_id = [k \in HtKeys |-> 0]
  /\ bkt_ref = [k \in HtKeys |-> [b \in Bkts |-> 0]]
  /\ nodes = [k \in HtKeys |-> [b \in Bkts |-> <<>>]]
  /\ bitmap = {} /\ filters = {} /\ links = {} /\ adds = 0

-----------------------------------------------------------------------------
BktPresent(k, b) == bkt_ref[k][b] > 0 \/ nodes[k][b] # <<>>
HtPresent(k) == ht_ref[k] > 0 \/ \E b \in Bkts : BktPresent(k, b)
IfPresent == if_ref > 0 \/ \E k \in HtKeys : HtPresent(k)

(* get_htid: the first free table id; id 0 is not used.                    *)
GetHtid == Min(Tables \ bitmap)

GetBkt(f) == f.port % Divisor

(* The place of a new node id: the list is kept in ascending order.        *)
FirstAbove(s) == CHOOSE i \in 1..Len(s) : s[i] > i /\ \A j \in 1..(i - 1) : s[j] <= j

(* get_node: the id of a new node in a bucket with nodes s.                *)
GetNode(f, s) ==
  LET id == IF f.type = "3T" THEN ((f.port \div (Divisor - 1)) % Divisor) + 1
            ELSE IF s = <<>> THEN 1
            ELSE IF Last(s) < MaxId THEN Last(s) + 1
            ELSE IF \E i \in 1..Len(s) : s[i] > i THEN FirstAbove(s)
            ELSE Len(s) + 1
  IN IF id > MaxId THEN -EINVAL ELSE id

(* The list with the new node: at the end, or before the entry of the gap. *)
WithNode(f, s, id) ==
  IF f.type = "5T" /\ s # <<>> /\ Last(s) >= MaxId THEN InsertAt(s, id, id) ELSE Append(s, id)

(* HANDLE_SET keeps the low bits of the id.                                *)
HandleId(id) == id % (MaxId + 1)

Fails(steps) == {"none"} \cup IF TcMayFail THEN steps ELSE {}

-----------------------------------------------------------------------------
(* add_flow, up to the bucket: the interface and the table take a reference*)
(* (a new interface removes what an earlier daemon left).                  *)
NewQdisc == ~IfPresent
KernelFilters == IF NewQdisc THEN {} ELSE filters
KernelLinks == IF NewQdisc THEN {} ELSE links

(* The interface is unknown to the kernel, or its qdisc is refused.        *)
AddFailsAtIf(f) ==
  /\ "if" \in Fails({"if"})
  /\ filters' = KernelFilters /\ links' = KernelLinks
  /\ UNCHANGED <<stored, if_ref, ht_ref, ht_id, bkt_ref, nodes, bitmap>>

(* The table cannot be created or linked: the interface keeps the          *)
(* reference and the bitmap the id.                                        *)
AddFailsAtTable(f) ==
  /\ "ht" \in Fails({"ht"}) /\ ~HtPresent(KeyOf(f))
  /\ if_ref' = if_ref + 1
  /\ bitmap' = bitmap \cup {GetHtid}
  /\ filters' = KernelFilters /\ links' = KernelLinks
  /\ UNCHANGED <<stored, ht_ref, ht_id, bkt_ref, nodes>>

TableOf(f) == IF HtPresent(KeyOf(f)) THEN ht_id[KeyOf(f)] ELSE GetHtid

RefTable(f) ==
  /\ if_ref' = if_ref + 1
  /\ ht_ref' = [ht_ref EXCEPT ![KeyOf(f)] = @ + 1]
  /\ ht_id' = [ht_id EXCEPT ![KeyOf(f)] = TableOf(f)]
  /\ bitmap' = bitmap \cup {TableOf(f)}
  /\ links' = KernelLinks \cup IF HtPresent(KeyOf(f)) THEN {} ELSE {<<TableOf(f), KeyOf(f)>>}

Store(p, f, id) ==
  stored' = stored \cup {[pid |-> p, flow |-> f, ht |-> TableOf(f), bkt |-> GetBkt(f), id |-> HandleId(id)]}

(* Bucket 0 is refused with a warning, but the flow counts as added.       *)
AddWithoutBucket(p, f) ==
  /\ GetBkt(f) = 0
  /\ RefTable(f)
  /\ Store(p, f, 0)
  /\ filters' = KernelFilters
  /\ UNCHANGED <<bkt_ref, nodes>>

(* A valid bucket: the node is added, refused by tc (the references stay), *)
(* or there is no id left (a warning, and the flow counts as added).       *)
AddToBucket(p, f) ==
  LET k == KeyOf(f)
      b == GetBkt(f)
      id == GetNode(f, nodes[k][b])
      exists == \E x \in KernelFilters : x.ht = TableOf(f) /\ x.bkt = b /\ x.id = id
  IN /\ b # 0
     /\ RefTable(f)
     /\ bkt_ref' = [bkt_ref EXCEPT ![k][b] = @ + 1]
     /\ \/ /\ id <= 0
           /\ Store(p, f, id)
           /\ filters' = KernelFilters /\ UNCHANGED nodes
        \/ /\ id > 0 /\ (exists \/ "filter" \in Fails({"filter"}))
           /\ filters' = KernelFilters /\ UNCHANGED <<nodes, stored>>
        \/ /\ id > 0 /\ ~exists
           /\ nodes' = [nodes EXCEPT ![k][b] = WithNode(f, @, id)]
           /\ filters' = KernelFilters \cup {[ht |-> TableOf(f), bkt |-> b, id |-> id, flow |-> f]}
           /\ Store(p, f, id)

(* proc_msg_flow calls add_flow for a flow the process does not have.      *)
AddFlow(p, f) ==
  /\ adds < MaxAdds
  /\ ~\E s \in stored : s.pid = p /\ s.flow = f
  /\ adds' = adds + 1
  /\ AddFailsAtIf(f) \/ AddFailsAtTable(f) \/ AddWithoutBucket(p, f) \/ AddToBucket(p, f)

-----------------------------------------------------------------------------
(* Mutant of PutRefs: the bucket gives back two references.                *)
PutRefsTwice(k, b) ==
  /\ if_ref' = if_ref - 1
  /\ ht_ref' = [ht_ref EXCEPT ![k] = @ - 1]
  /\ bkt_ref' = IF BktPresent(k, b) THEN [bkt_ref EXCEPT ![k][b] = IF @ > 1 THEN @ - 2 ELSE 0] ELSE bkt_ref

(* The references that del_flow gives back, on the levels it finds.        *)
PutRefs(k, b) ==
  /\ if_ref' = if_ref - 1
  /\ ht_ref' = [ht_ref EXCEPT ![k] = @ - 1]
  /\ bkt_ref' = IF BktPresent(k, b) THEN [bkt_ref EXCEPT ![k][b] = @ - 1] ELSE bkt_ref

(* del_flow: the node of the handle goes with its filter, then each level  *)
(* loses a reference; an unused table is unlinked and its id freed, an     *)
(* unused interface loses its qdisc and everything in it.                  *)
DelFlow(s) ==
  LET k == KeyOf(s.flow)
      found == BktPresent(k, s.bkt) /\ Contains(nodes[k][s.bkt], s.id)
  IN /\ s \in stored /\ IfPresent /\ HtPresent(k)
     /\ stored' = stored \ {s}
     /\ nodes' = IF found THEN [nodes EXCEPT ![k][s.bkt] = SelectSeq(@, LAMBDA n : n # s.id)] ELSE nodes
     /\ PutRefs(k, s.bkt)
     /\ \E fail \in Fails({"filter", "unlink"}) :
          LET left == IF found /\ fail # "filter"
                      THEN {x \in filters : x.ht # ht_id[k] \/ x.bkt # s.bkt \/ x.id # s.id}
                      ELSE filters
          IN /\ bitmap' = IF ~IfPresent' THEN {} ELSE IF HtPresent(k)' THEN bitmap ELSE bitmap \ {ht_id[k]}
             /\ filters' = IF ~IfPresent' THEN {} ELSE IF HtPresent(k)' THEN left
                           ELSE {x \in left : x.ht # ht_id[k]}
             /\ links' = IF ~IfPresent' THEN {}
                         ELSE IF HtPresent(k)' \/ fail = "unlink" THEN links ELSE links \ {<<ht_id[k], k>>}
     /\ ht_id' = [ht_id EXCEPT ![k] = IF HtPresent(k)' THEN @ ELSE 0]
     /\ UNCHANGED adds

(* The interface has gone: the flow leaves the store, the tree stays.      *)
DelFlowNoInterface(s) ==
  /\ s \in stored /\ TcMayFail
  /\ stored' = stored \ {s}
  /\ UNCHANGED <<if_ref, ht_ref, ht_id, bkt_ref, nodes, bitmap, filters, links, adds>>

Next ==
  \/ \E p \in Pids, f \in Flows : AddFlow(p, f)
  \/ \E s \in stored : DelFlow(s) \/ DelFlowNoInterface(s)

Spec == Init /\ [][Next]_vars

-----------------------------------------------------------------------------
StoredFlow == [pid : Pids, flow : Flows, ht : Tables, bkt : Bkts, id : 0..MaxId]

TypeOK ==
  /\ stored \subseteq StoredFlow
  /\ if_ref \in Nat
  /\ ht_ref \in [HtKeys -> Nat] /\ ht_id \in [HtKeys -> Tables \cup {0}]
  /\ bkt_ref \in [HtKeys -> [Bkts -> Nat]]
  /\ \A k \in HtKeys, b \in Bkts : nodes[k][b] \in Seq(NodeIds)
  /\ bitmap \subseteq Tables
  /\ filters \subseteq [ht : Tables, bkt : Bkts, id : NodeIds, flow : Flows]
  /\ links \subseteq Tables \X HtKeys
  /\ adds \in 0..MaxAdds

Under(k, b) == {s \in stored : KeyOf(s.flow) = k /\ GetBkt(s.flow) = b /\ b # 0}

(* No element of the tree is freed while a stored flow needs it: each level*)
(* counts at least the flows below it, whatever add_flow failed before.    *)
RefsCoverFlows ==
  /\ if_ref >= Cardinality(stored)
  /\ \A k \in HtKeys :
       /\ ht_ref[k] >= Cardinality({s \in stored : KeyOf(s.flow) = k})
       /\ \A b \in Bkts : bkt_ref[k][b] >= Cardinality(Under(k, b)) /\ bkt_ref[k][b] >= Len(nodes[k][b])

(* Every flow that was added to a bucket has its own filter in the kernel, *)
(* at the handle kept in its store_flow, below a table linked to its       *)
(* address: ids are not given out twice.                                   *)
HandleIsItsFilter ==
  \A s \in stored : s.bkt # 0 =>
    /\ [ht |-> s.ht, bkt |-> s.bkt, id |-> s.id, flow |-> s.flow] \in filters
    /\ <<s.ht, KeyOf(s.flow)>> \in links
    /\ \A r \in stored \ {s} : <<r.ht, r.bkt, r.id>> # <<s.ht, s.bkt, s.id>>

(* When no tc command failed, the last flow to go takes the whole tree and *)
(* the kernel's filters with it.                                           *)
NothingLeftBehind == stored = {} => ~IfPresent /\ filters = {} /\ links = {} /\ bitmap = {}
====
