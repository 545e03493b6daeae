----------------------------- MODULE NetDevice ------------------------------
(***************************************************************************)
(* The rings of one network device (net_device_val): sockets reserve and   *)
(* release rings by key, with an optional limit that redirects keys; the   *)
(* internal thread follows the state of a bond's slaves and restarts the   *)
(* rings (net_device_entry); threads that wait for any ring use the global *)
(* descriptor (net_device_table_mgr).                                      *)
(***************************************************************************)
EXTENDS Integers, FiniteSets, FiniteSetsExt, Sequences, SequencesExt

CONSTANTS
  Users,        \* sockets
  RingKeys,     \* allocation keys: [prof, id]
  Slaves,       \* the slaves of the bond
  RingLimits,   \* values of ring_limit_per_interface
  Pollers,      \* threads that wait on all rings
  FastTicks,    \* SLAVE_CHECK_FAST_NUM_TIMES
  MaxEvents     \* bound: changes of the links and packets

VARIABLES
  limit,        \* ring_limit_per_interface
  rings,        \* m_h_ring_map: key -> [ref, act]
  redir,        \* m_h_ring_key_redirection_map: key -> [to, ref]
  usr,          \* what each socket holds: [key, got, new]; new: a ring being created, with its active slaves
  link,         \* the slaves that are up, as the system reports them
  slaves,       \* m_slaves: the ones taken as active
  timer,        \* the entry's timer: [fast, count]
  gep,          \* rings in the global epoll set
  pipeIn,       \* the wake-up pipe is in the global epoll set
  unarmed,      \* rings whose completion queue is not armed
  pkt,          \* rings with a packet that nobody polled
  pol,          \* pollers: "idle", "armed" (about to sleep), "asleep", "woken"
  events

ndVars == <<limit, rings, redir, usr, link, slaves, timer, gep, pipeIn, unarmed, pkt, pol, events>>

None == [prof |-> -1, id |-> -1]
NoUse == [key |-> None, got |-> None, new |-> {}, at |-> "idle"]
Put(f, x, v) == [y \in DOMAIN f \cup {x} |-> IF y = x THEN v ELSE f[y]]
Drop(f, x) == [y \in DOMAIN f \ {x} |-> f[y]]
Keys == DOMAIN rings

(* get_up_and_active_slaves: the slaves that are up and active; if there   *)
(* is none, the first one that is up.                                      *)
get_up_and_active_slaves(up, active) ==
  IF up \cap active # {} \/ up = {} THEN up \cap active ELSE {Min(up)}

NdInit ==
  /\ limit \in RingLimits /\ rings = <<>> /\ redir = <<>> /\ usr = [u \in Users |-> NoUse]
  /\ link = Slaves /\ slaves = Slaves /\ timer = [fast |-> FALSE, count |-> -1]
  /\ gep = {} /\ pipeIn = FALSE /\ unarmed = {} /\ pkt = {} /\ pol = [p \in Pollers |-> "idle"] /\ events = 0

-----------------------------------------------------------------------------
(* ring_key_redirection_reserve: [the key to use, the redirections]; a set *)
(* because the map is walked in the order of its hash.                     *)
ring_key_redirection_reserve(k) ==
  IF limit = 0 THEN {[to |-> k, map |-> redir]}
  ELSE IF k \in DOMAIN redir
  THEN {[to |-> redir[k].to, map |-> [redir EXCEPT ![k].ref = @ + 1]]}
  ELSE IF limit > Cardinality(Keys)
  THEN LET k2 == [k EXCEPT !.id = Cardinality(Keys)] IN {[to |-> k2, map |-> Put(redir, k, [to |-> k2, ref |-> 1])]}
  ELSE {[to |-> m, map |-> Put(redir, k, [to |-> m, ref |-> 1])] :
          m \in {x \in Keys : \A y \in Keys : y.prof = k.prof => rings[x].ref <= rings[y].ref}}

(* Bound: leaked references do not pile up.                                *)
Bounded ==
  /\ \A k \in Keys : rings[k].ref <= Cardinality(Users)
  /\ \A k \in DOMAIN redir : redir[k].ref <= Cardinality(Users)

(* reserve_ring, first part: the redirection, and the slaves that a new    *)
(* ring will start with.                                                   *)
reserve_ring(u, k) ==
  /\ usr[u].at = "idle" /\ usr[u].key = None /\ Bounded
  /\ \A v \in Users : usr[v].at = "idle"                         \* m_lock
  /\ \E r \in ring_key_redirection_reserve(k) :
       /\ redir' = r.map
       /\ usr' = [usr EXCEPT ![u] = [key |-> k, got |-> r.to, new |-> slaves, at |-> "reserve"]]
  /\ UNCHANGED <<limit, rings, link, slaves, timer, gep, pipeIn, unarmed, pkt, pol, events>>

(* create_ring failed                                                      *)
CreateFails(u) ==
  /\ usr[u].at = "reserve" /\ usr[u].got \notin Keys
  /\ usr' = [usr EXCEPT ![u] = NoUse]
  /\ UNCHANGED <<limit, rings, redir, link, slaves, timer, gep, pipeIn, unarmed, pkt, pol, events>>

(* reserve_ring, the rest: a new ring joins the map and the global epoll   *)
(* set, and the sleepers are woken; one more reference.                    *)
Reserved(u) ==
  /\ usr[u].at = "reserve"
  /\ LET k == usr[u].got IN
     IF k \in Keys THEN rings' = [rings EXCEPT ![k].ref = @ + 1] /\ UNCHANGED <<gep, pipeIn, unarmed>>
     ELSE /\ rings' = Put(rings, k, [ref |-> 1, act |-> usr[u].new])
          /\ gep' = gep \cup {k} /\ pipeIn' = TRUE /\ unarmed' = unarmed \cup {k}
  /\ usr' = [usr EXCEPT ![u].at = "idle"]
  /\ UNCHANGED <<limit, redir, link, slaves, timer, pkt, pol, events>>

(* ring_key_redirection_release.  With the last use of a redirection the   *)
(* key it leads to is deleted, and then still used for the search: what    *)
(* the search finds is undefined.                                          *)
ring_key_redirection_release(k) ==
  IF limit = 0 \/ k \notin DOMAIN redir THEN {[to |-> k, map |-> redir]}
  ELSE IF redir[k].ref > 1 THEN {[to |-> redir[k].to, map |-> [redir EXCEPT ![k].ref = @ - 1]]}
  ELSE {[to |-> t, map |-> Drop(redir, k)] : t \in {redir[k].to, None}}

(* Mutant: the deleted ring stays in the global epoll set.                 *)
ReleaseKeepsPolled(u) ==
  /\ usr[u].at = "idle" /\ usr[u].key # None /\ \A v \in Users : usr[v].at = "idle"
  /\ \E r \in ring_key_redirection_release(usr[u].key) :
       /\ redir' = r.map
       /\ IF r.to \notin Keys THEN UNCHANGED <<rings, unarmed, pkt>>
          ELSE IF rings[r.to].ref > 1
          THEN rings' = [rings EXCEPT ![r.to].ref = @ - 1] /\ UNCHANGED <<unarmed, pkt>>
          ELSE rings' = Drop(rings, r.to) /\ unarmed' = unarmed \ {r.to} /\ pkt' = pkt \ {r.to}
  /\ usr' = [usr EXCEPT ![u] = NoUse]
  /\ UNCHANGED <<gep, limit, link, slaves, timer, pipeIn, pol, events>>

release_ring(u) ==
  /\ usr[u].at = "idle" /\ usr[u].key # None /\ \A v \in Users : usr[v].at = "idle"
  /\ \E r \in ring_key_redirection_release(usr[u].key) :
       /\ redir' = r.map
       /\ IF r.to \notin Keys THEN UNCHANGED <<rings, gep, unarmed, pkt>>
          ELSE IF rings[r.to].ref > 1
          THEN rings' = [rings EXCEPT ![r.to].ref = @ - 1] /\ UNCHANGED <<gep, unarmed, pkt>>
          ELSE /\ rings' = Drop(rings, r.to) /\ gep' = gep \ {r.to}
               /\ unarmed' = unarmed \ {r.to} /\ pkt' = pkt \ {r.to}
  /\ usr' = [usr EXCEPT ![u] = NoUse]
  /\ UNCHANGED <<limit, link, slaves, timer, pipeIn, pol, events>>

-----------------------------------------------------------------------------
(* A port event shortens the period of the timer for some ticks.           *)
LinkChanges(s) ==
  /\ events < MaxEvents /\ events' = events + 1
  /\ link' = IF s \in link THEN link \ {s} ELSE link \cup {s}
  /\ UNCHANGED <<limit, rings, redir, usr, slaves, timer, gep, pipeIn, unarmed, pkt, pol>>

handle_event_ibverbs_cb ==
  /\ link # slaves /\ timer.count # 0 /\ timer' = [fast |-> TRUE, count |-> 0]
  /\ UNCHANGED <<limit, rings, redir, usr, link, slaves, gep, pipeIn, unarmed, pkt, pol, events>>

(* update_active_slaves: a change restarts every ring in the map, which    *)
(* may also arm it.  The map is not locked.                                *)
update_active_slaves(now) ==
  /\ slaves' = now
  /\ IF now = slaves THEN UNCHANGED <<rings, unarmed>>
     ELSE rings' = [k \in Keys |-> [rings[k] EXCEPT !.act = now]] /\ unarmed' \in {unarmed, unarmed \cap pkt}

handle_timer_expired ==
  /\ LET now == get_up_and_active_slaves(link, Slaves) IN
     /\ update_active_slaves(now)
     /\ timer' = IF now # slaves THEN [timer EXCEPT !.fast = FALSE]
                 ELSE IF timer.count < 0 THEN timer
                 ELSE IF timer.count + 1 = FastTicks THEN [fast |-> FALSE, count |-> -1]
                 ELSE [timer EXCEPT !.count = @ + 1]
  /\ UNCHANGED <<limit, redir, usr, link, gep, pipeIn, pkt, pol, events>>

-----------------------------------------------------------------------------
(* A thread that waits for any ring: poll all of them, arm all of them (a  *)
(* ring with an unpolled completion refuses), sleep on the global epoll    *)
(* set, and take the notifications.                                        *)
PacketArrives(k) ==
  /\ events < MaxEvents /\ events' = events + 1 /\ k \in Keys /\ pkt' = pkt \cup {k}
  /\ UNCHANGED <<limit, rings, redir, usr, link, slaves, timer, gep, pipeIn, unarmed, pol>>

global_ring_poll_and_process_element(p) ==
  /\ pol[p] \in {"idle", "woken"} /\ pkt # {} /\ pkt' = {} /\ unarmed' = unarmed \cup pkt
  /\ pol' = [pol EXCEPT ![p] = "idle"]
  /\ UNCHANGED <<limit, rings, redir, usr, link, slaves, timer, gep, pipeIn, events>>

global_ring_request_notification(p) ==
  /\ pol[p] = "idle" /\ pkt = {} /\ unarmed' = {} /\ pol' = [pol EXCEPT ![p] = "armed"]
  /\ UNCHANGED <<limit, rings, redir, usr, link, slaves, timer, gep, pipeIn, pkt, events>>

(* What makes the global epoll set readable: an armed queue with a         *)
(* completion, or the pipe.                                                *)
Readable == pipeIn \/ \E k \in gep : k \in pkt /\ k \notin unarmed

SleepsOn(p) ==
  /\ pol[p] = "armed" /\ pol' = [pol EXCEPT ![p] = IF Readable THEN "woken" ELSE "asleep"]
  /\ UNCHANGED <<limit, rings, redir, usr, link, slaves, timer, gep, pipeIn, unarmed, pkt, events>>

WakesUp(p) ==
  /\ pol[p] = "asleep" /\ Readable /\ pol' = [pol EXCEPT ![p] = "woken"]
  /\ UNCHANGED <<limit, rings, redir, usr, link, slaves, timer, gep, pipeIn, unarmed, pkt, events>>

(* global_ring_wait_for_notification_and_process_element                   *)
global_ring_wait_for_notification(p) ==
  /\ pol[p] = "woken"
  /\ LET hot == {k \in gep : k \in pkt /\ k \notin unarmed} IN
     /\ pkt' = pkt \ hot /\ unarmed' = unarmed \cup hot
     /\ pipeIn' = FALSE /\ pol' = [pol EXCEPT ![p] = "idle"]
  /\ UNCHANGED <<limit, rings, redir, usr, link, slaves, timer, gep, events>>

NdNext ==
  \/ \E u \in Users : \/ \E k \in RingKeys : reserve_ring(u, k)
                      \/ CreateFails(u) \/ Reserved(u) \/ release_ring(u)
  \/ \E s \in Slaves : LinkChanges(s)
  \/ handle_event_ibverbs_cb \/ handle_timer_expired
  \/ \E k \in Keys : PacketArrives(k)
  \/ \E p \in Pollers : \/ global_ring_poll_and_process_element(p) \/ global_ring_request_notification(p)
                        \/ SleepsOn(p) \/ WakesUp(p) \/ global_ring_wait_for_notification(p)

NdSpec == NdInit /\ [][NdNext]_ndVars

-----------------------------------------------------------------------------
NdTypeOK ==
  /\ limit \in RingLimits /\ slaves \subseteq Slaves /\ gep = Keys /\ unarmed \subseteq Keys /\ pkt \subseteq Keys
  /\ timer.count \in -1..(FastTicks - 1) /\ \A k \in Keys : rings[k].ref > 0

(* Without a limit every ring has exactly the references of the sockets    *)
(* that hold it, so it lives as long as one of them and no longer.         *)
ReferencesExact ==
  limit = 0 => \A k \in RingKeys :
    Cardinality({u \in Users : usr[u].key = k /\ usr[u].at = "idle"}) = IF k \in Keys THEN rings[k].ref ELSE 0

(* A thread that sleeps on all rings hears of a packet on any ring that    *)
(* exists, also one created while it was going to sleep (one such thread). *)
SleeperHears ==
  \A p \in Pollers : pol[p] = "asleep" => \A k \in pkt : pipeIn \/ k \notin unarmed

-----------------------------------------------------------------------------
(***************************************************************************)
(* Finding the network interfaces that can be offloaded                    *)
(* (net_device_table_mgr::map_net_devices) and configuring a device for    *)
(* each (net_device_val::configure).  The interfaces are visited in the    *)
(* order of the system's list; every call to the verbs library may fail.   *)
(***************************************************************************)


CONSTANTS
  IfList,       \* the interfaces: sequence of [name, inet, slave, kind, type, lower, active, vlan, mac1, running]
  HasCtx,       \* names of physical interfaces with a verbs context
  NameIn,     \* <<a, b>>: the name a contains the name b
  IpoibOn,      \* enable_ipoib
  Datagram      \* names of InfiniBand interfaces in datagram mode without umcast

VARIABLES
  pos,          \* interfaces visited
  table,        \* m_net_device_map: [state, bond, slaves] per interface
  open          \* verbs and rdma-cm objects in existence

tblVars == <<pos, table, open>>

TblInit == pos = 0 /\ table = <<>> /\ open = {}

-----------------------------------------------------------------------------
(* verify_eth_qp_creation: make a channel, a completion queue and a queue  *)
(* pair, and destroy what was made; last is the last one that could be     *)
(* made ("undestroyed": a destruction failed).                             *)
verify_eth_qp_creation(name, last) ==
  IF name \notin HasCtx THEN [ok |-> FALSE, left |-> {}]
  ELSE [ok |-> last = "qp", left |-> IF last = "undestroyed" THEN {"qp"} ELSE {}]

(* verify_enable_ipoib, verify_ipoib_mode                                  *)
verify_ipoib(master) == IpoibOn /\ master \in Datagram

(* verify_ipoib_or_eth_qp_creation: a slave with its own type, the IPoIB   *)
(* mode of the interface that has the address.                             *)
verify_ipoib_or_eth_qp_creation(name, type, master, last) ==
  IF type = "ib" THEN [ok |-> verify_ipoib(master), left |-> {}] ELSE verify_eth_qp_creation(name, last)

(* verify_bond_ipoib_or_eth_qp_creation: every slave is checked.           *)
verify_bond_ipoib_or_eth_qp_creation(ifa, last) ==
  LET each == [s \in ifa.lower |-> verify_ipoib_or_eth_qp_creation(s, ifa.type, ifa.name, last[s])]
  IN [ok |-> ifa.lower # {} /\ \A s \in ifa.lower : each[s].ok, left |-> UNION {each[s].left : s \in ifa.lower}]

verify_netvsc_ipoib_or_eth_qp_creation(ifa, last) ==
  IF ifa.type = "ib" THEN [ok |-> FALSE, left |-> {}]
  ELSE LET s == CHOOSE x \in ifa.lower : TRUE IN verify_eth_qp_creation(s, last[s])

-----------------------------------------------------------------------------
(* verify_bonding_mode: an unknown mode is warned about and goes on as no  *)
(* bond.                                                                   *)
verify_bonding_mode(ifa) == IF ifa.kind \in {"active_backup", "lag"} THEN ifa.kind ELSE "none"

(* configure: the slaves with their states.                                *)
configure(ifa, lowerUp) ==
  LET bond == IF ifa.kind = "netvsc" THEN "netvsc" ELSE IF ifa.kind = "single" THEN "none" ELSE verify_bonding_mode(ifa)
      names == IF ifa.kind = "single" THEN {ifa.name} ELSE ifa.lower
      act == CASE bond = "active_backup" -> {s \in names : <<ifa.active, s>> \in NameIn}
               [] bond = "lag" -> names \cap lowerUp
               [] bond = "netvsc" -> names
               [] bond = "none" -> {}
      bad == (bond = "netvsc" /\ names \cap lowerUp = {}) \/ (ifa.vlan /\ bond # "none" /\ ifa.mac1)
  IN [state |-> IF bad THEN "invalid" ELSE IF ifa.running THEN "running" ELSE "up", bond |-> bond, type |-> ifa.type,
      slaves |-> names, active |-> act]

(* One interface.  bound: the rdma-cm id could be bound and has a context; *)
(* every path destroys the id.                                             *)
Visit(bound, last, lowerUp) ==
  /\ pos' = pos + 1
  /\ LET ifa == IfList[pos + 1]
         v == CASE ifa.kind = "netvsc" -> verify_netvsc_ipoib_or_eth_qp_creation(ifa, last)
                [] ifa.kind = "single" -> verify_ipoib_or_eth_qp_creation(ifa.name, ifa.type, ifa.name, last[ifa.name])
                [] ifa.kind \notin {"netvsc", "single"} -> verify_bond_ipoib_or_eth_qp_creation(ifa, last)
     IN IF ~ifa.inet \/ ifa.slave \/ ~bound \/ (ifa.kind = "netvsc" /\ ifa.lower = {})
        THEN UNCHANGED <<table, open>>
        ELSE /\ open' = open \cup v.left
             /\ table' = IF v.ok THEN Append(table, configure(ifa, lowerUp)) ELSE table

(* map_net_devices                                                         *)
map_net_devices ==
  /\ pos < Len(IfList)
  /\ LET names == IfList[pos + 1].lower \cup {IfList[pos + 1].name} IN
     \E bound \in BOOLEAN, last \in [names -> {"channel", "qp", "undestroyed"}], lowerUp \in SUBSET names :
       Visit(bound, last, lowerUp)

(* get_net_device_val: only devices that are not invalid.                  *)
get_net_device_val == {d \in {table[i] : i \in DOMAIN table} : d.state # "invalid"}

TblNext == map_net_devices
TblSpec == TblInit /\ [][TblNext]_tblVars

TblTypeOK == pos \in 0..Len(IfList) /\ Len(table) <= pos

(* A device that is offered to sockets can make rings: it has a slave, and *)
(* on Ethernet every slave has a verbs context.                            *)
DevicesCanMakeRings ==
  \A d \in get_net_device_val : d.slaves # {} /\ (d.type = "eth" => d.slaves \subseteq HasCtx)

-----------------------------------------------------------------------------
(***************************************************************************)
(* A ring of a bond (ring_bond): one ring per slave, and per user id the   *)
(* ring that is used to send.  Senders take a buffer, build a packet and   *)
(* send it without the bond's locks while the internal thread restarts the *)
(* ring after a failover.  The netvsc kind also reads a TAP device.        *)
(***************************************************************************)
CONSTANTS
  NumRings,      \* m_n_num_resources
  TxPool,        \* buffers of each ring
  Senders,
  Lag,           \* 802.3ad, not active-backup
  MaxRestarts,   \* bound
  MaxTapPackets  \* bound: packets that the TAP device receives

Ids == 0..(NumRings - 1)
NoRing == -1

VARIABLES
  active,        \* m_active_rings
  upRings,       \* rings whose queue pair is up
  free,          \* free buffers of each ring
  posted,        \* buffers given to each queue pair
  snd,           \* senders: [at, id, own]
  rst,           \* the restart: [at, i, want]
  flow,          \* rings that have the flow's rule
  known,         \* the socket believes the flow attached
  tap,           \* TAP device: [pkts, flag, armed, pool]
  restarts, tapped

bondVars == <<active, upRings, free, posted, snd, rst, flow, known, tap, restarts, tapped>>

Quiet == [at |-> "idle", i |-> 0, want |-> {}]

(* close_gaps_active_rings: from the first entry downwards, cyclically,    *)
(* every empty entry takes the ring of the entry after it.                 *)
close_gaps_active_rings(a) ==
  IF \A i \in Ids : a[i] = NoRing THEN a
  ELSE LET first == Min({i \in Ids : a[i] # NoRing})
           step(acc, d) == LET i == (first - d) % NumRings IN
             IF acc.a[i] # NoRing THEN [acc EXCEPT !.cur = acc.a[i]] ELSE [acc EXCEPT !.a[i] = acc.cur]
       IN FoldLeft(step, [a |-> a, cur |-> a[first]], [d \in 1..(NumRings - 1) |-> d]).a

(* create_slave_list                                                       *)
create_slave_list(act) == close_gaps_active_rings([i \in Ids |-> IF i \in act THEN i ELSE NoRing])

BondInit ==
  \E act \in (IF Lag THEN SUBSET Ids \ {{}} ELSE {{i} : i \in Ids}) :
    /\ active = create_slave_list(act) /\ upRings = act
    /\ free = [i \in Ids |-> TxPool] /\ posted = [i \in Ids |-> 0]
    /\ snd = [s \in Senders |-> [at |-> "idle", id |-> 0, own |-> NoRing]] /\ rst = Quiet
    /\ flow = {} /\ known = FALSE
    /\ tap = [pkts |-> 0, flag |-> FALSE, armed |-> TRUE, pool |-> 1] /\ restarts = 0 /\ tapped = 0

(* generate_id: a hash of the packet's addresses, for 802.3ad only.        *)
generate_id == IF Lag THEN Ids ELSE {0}

-----------------------------------------------------------------------------
(* Sending: a buffer of the active ring of the id, or of the id's own ring *)
(* while there is none.                                                    *)
mem_buf_tx_get(s, id) ==
  /\ snd[s].at = "idle"
  /\ LET r == IF active[id] # NoRing THEN active[id] ELSE id IN
     /\ free[r] > 0
     /\ free' = [free EXCEPT ![r] = @ - 1]
     /\ snd' = [snd EXCEPT ![s] = [at |-> "filled", id |-> id, own |-> r]]
  /\ UNCHANGED <<active, upRings, posted, rst, flow, known, tap, restarts, tapped>>

(* send_ring_buffer: posted if the buffer is still of the active ring, and *)
(* otherwise given back to the ring it is from.                            *)
send_ring_buffer(s) ==
  /\ snd[s].at = "filled"
  /\ IF active[snd[s].id] = snd[s].own
     THEN posted' = [posted EXCEPT ![snd[s].own] = @ + 1] /\ UNCHANGED free
     ELSE free' = [free EXCEPT ![snd[s].own] = @ + 1] /\ UNCHANGED posted
  /\ snd' = [snd EXCEPT ![s].at = "idle"]
  /\ UNCHANGED <<active, upRings, rst, flow, known, tap, restarts, tapped>>

(* send_lwip_buffer: the completion has a reference of its own, so that a  *)
(* packet that is dropped stays with the caller, which frees it later.     *)
send_lwip_buffer(s) ==
  /\ snd[s].at = "filled" /\ active[snd[s].id] # snd[s].own
  /\ snd' = [snd EXCEPT ![s].at = "acked"]
  /\ UNCHANGED <<active, upRings, free, posted, rst, flow, known, tap, restarts, tapped>>

(* devide_buffers_helper and mem_buf_tx_release: buffers go to the ring    *)
(* that owns them.                                                         *)
devide_buffers_helper(owners) == [i \in Ids |-> Cardinality({j \in DOMAIN owners : owners[j] = i})]

mem_buf_tx_release ==
  LET held == {s \in Senders : snd[s].at = "acked"}
      share == devide_buffers_helper([s \in held |-> snd[s].own])
  IN /\ held # {}
     /\ free' = [i \in Ids |-> free[i] + share[i]]
     /\ snd' = [s \in Senders |-> IF s \in held THEN [snd[s] EXCEPT !.at = "idle"] ELSE snd[s]]
     /\ UNCHANGED <<active, upRings, posted, rst, flow, known, tap, restarts, tapped>>

(* A completion of a ring returns its buffer, also that of a flushed       *)
(* request.                                                                *)
Completes(r) ==
  /\ posted[r] > 0
  /\ posted' = [posted EXCEPT ![r] = @ - 1] /\ free' = [free EXCEPT ![r] = @ + 1]
  /\ UNCHANGED <<active, upRings, snd, rst, flow, known, tap, restarts, tapped>>

-----------------------------------------------------------------------------
(* restart, entry by entry: the senders see every intermediate state.      *)
restart(want) ==
  /\ rst.at = "idle" /\ restarts < MaxRestarts /\ restarts' = restarts + 1
  /\ want # {} /\ (Lag \/ Cardinality(want) = 1)
  /\ rst' = [at |-> "slaves", i |-> 0, want |-> want]
  /\ UNCHANGED <<active, upRings, free, posted, snd, flow, known, tap, tapped>>

(* One slave: start or stop its queue pair (stopping flushes what was      *)
(* posted).                                                                *)
RestartSlave ==
  /\ rst.at = "slaves"
  /\ IF rst.i \in rst.want
     THEN upRings' = upRings \cup {rst.i} /\ active' = [active EXCEPT ![rst.i] = rst.i] /\ UNCHANGED <<posted, free>>
     ELSE /\ upRings' = upRings \ {rst.i} /\ active' = [active EXCEPT ![rst.i] = NoRing]
          /\ IF rst.i \in upRings
             THEN posted' = [posted EXCEPT ![rst.i] = 0] /\ free' = [free EXCEPT ![rst.i] = @ + posted[rst.i]]
             ELSE UNCHANGED <<posted, free>>
  /\ rst' = IF rst.i = NumRings - 1 THEN [rst EXCEPT !.at = "gaps"] ELSE [rst EXCEPT !.i = @ + 1]
  /\ UNCHANGED <<snd, flow, known, tap, restarts, tapped>>

RestartGaps ==
  /\ rst.at = "gaps" /\ active' = close_gaps_active_rings(active) /\ rst' = Quiet
  /\ UNCHANGED <<upRings, free, posted, snd, flow, known, tap, restarts, tapped>>

-----------------------------------------------------------------------------
(* attach_flow: on every ring, some of which may fail; the rule is left    *)
(* where it was made.  With the rings' lock.                               *)
bond_attach_flow(done) ==
  /\ rst.at = "idle" /\ ~known /\ flow' = flow \cup done /\ known' = (done = Ids)
  /\ UNCHANGED <<active, upRings, free, posted, snd, rst, tap, restarts, tapped>>

bond_detach_flow ==
  /\ rst.at = "idle" /\ known /\ flow' = {} /\ known' = FALSE
  /\ UNCHANGED <<active, upRings, free, posted, snd, rst, tap, restarts, tapped>>

(* The TAP device: its event is one-shot and only sets a flag; a poll of   *)
(* the ring reads one packet and asks for the next event.                  *)
TapReceives ==
  /\ tapped < MaxTapPackets /\ tapped' = tapped + 1 /\ tap' = [tap EXCEPT !.pkts = @ + 1]
  /\ UNCHANGED <<active, upRings, free, posted, snd, rst, flow, known, restarts>>

set_tap_data_available ==
  /\ tap.armed /\ tap.pkts > 0 /\ tap' = [tap EXCEPT !.armed = FALSE, !.flag = TRUE]
  /\ UNCHANGED <<active, upRings, free, posted, snd, rst, flow, known, restarts, tapped>>

(* poll_and_process_element_tap_rx; request_more_rx_buffers may fail, and  *)
(* a packet that nobody wants leaves its buffer in the pool.               *)
poll_and_process_element_tap_rx(ok) ==
  /\ rst.at = "idle" /\ tap.flag
  /\ IF tap.pool > 0
     THEN tap' = [tap EXCEPT !.pkts = @ - 1, !.pool = IF ok THEN @ - 1 ELSE @, !.flag = FALSE, !.armed = TRUE]
     ELSE tap' = [tap EXCEPT !.pool = IF ok THEN 1 ELSE 0]
  /\ UNCHANGED <<active, upRings, free, posted, snd, rst, flow, known, restarts, tapped>>

BondNext ==
  \/ \E s \in Senders : \/ \E id \in generate_id : mem_buf_tx_get(s, id)
                        \/ send_ring_buffer(s) \/ send_lwip_buffer(s)
  \/ mem_buf_tx_release \/ \E r \in Ids : Completes(r)
  \/ \E want \in SUBSET Ids : restart(want)
  \/ RestartSlave \/ RestartGaps
  \/ \E done \in SUBSET Ids : bond_attach_flow(done)
  \/ bond_detach_flow \/ TapReceives \/ set_tap_data_available
  \/ \E ok \in BOOLEAN : poll_and_process_element_tap_rx(ok)

BondSpec == BondInit /\ [][BondNext]_bondVars

-----------------------------------------------------------------------------
BondTypeOK ==
  /\ active \in [Ids -> Ids \cup {NoRing}] /\ upRings \subseteq Ids /\ flow \subseteq Ids
  /\ \A i \in Ids : free[i] \in 0..TxPool /\ posted[i] \in 0..TxPool

(* Outside a restart every user id sends on a ring that is up: its own if  *)
(* that is up, and otherwise the next one that is.                         *)
SendsOnUpRing ==
  rst.at = "idle" => \A i \in Ids :
    LET d == Min({e \in Ids : (i + e) % NumRings \in upRings}) IN active[i] = (i + d) % NumRings

(* However failovers interleave with sending, no buffer is lost or goes to *)
(* the pool of another ring.                                               *)
TxBuffersHome ==
  \A i \in Ids : free[i] + posted[i] + Cardinality({s \in Senders : snd[s].at # "idle" /\ snd[s].own = i}) = TxPool

(* A packet in the TAP device is announced, or its event is still to come. *)
TapIsHeard == tap.pkts > 0 => (tap.flag \/ tap.armed)
====
