------------------------------ MODULE DstEntry ------------------------------
(***************************************************************************)
(* A destination of a socket (dst_entry and its udp, multicast and tcp     *)
(* forms): how it resolves the route, the device, the ring and the         *)
(* neighbour before it sends, how notifications of the route and of the    *)
(* neighbour invalidate it, how it moves to another ring, and the tx       *)
(* buffers it caches.  prepare_to_send runs under the socket's lock; the   *)
(* notifications come from the internal thread and take no lock.           *)
(***************************************************************************)
EXTENDS Integers, FiniteSets

CONSTANTS
  Devs,         \* offloaded devices
  Gws,          \* gateways
  RKeys,        \* ring keys of the allocation logic
  Macs,         \* link addresses of a neighbour; 0: not resolved
  DThreads,     \* threads that send
  Batch,        \* tx buffers taken at a time
  MaxEnv        \* bound: changes of the route, neighbours and options, failures and migrations

NoDev == "none"
Rings == Devs \X RKeys
Hops == Gws \cup {"self"}                    \* "self": the address itself, no gateway
Routes == [dev : Devs \cup {NoDev}, gw : Hops]

VARIABLES
  route,    \* value of the route entry
  nbr,      \* link address of each neighbour
  observed, \* neighbours that list this destination as an observer
  refs,     \* references on each ring taken by this destination
  alive,
  d,        \* the destination
  th,       \* threads: at, old and new ring while migrating
  lock,     \* holder of the socket's lock
  env

dstVars == <<route, nbr, observed, refs, alive, d, th, lock, env>>

RingNone == <<NoDev, NoDev>>
NKeys == Hops \X Devs
NoNbr == <<NoDev, NoDev>>
Idle == [at |-> "idle", old |-> NoDev, new |-> RingNone]

(* dst_entry::dst_entry and init_members.  mc is the device of             *)
(* IP_MULTICAST_IF for a multicast destination; rules is the verdict of    *)
(* the configuration for the address.                                      *)
DstInit ==
  /\ route \in [dev : Devs, gw : Hops] /\ \E m \in Macs \cup {0} : nbr = [k \in NKeys |-> m]
  /\ observed = {} /\ refs = [r \in Rings |-> 0] /\ alive = TRUE
  /\ \E mc \in Devs \cup {NoDev}, os \in BOOLEAN, k \in RKeys :
       d = [valid |-> FALSE, init |-> FALSE, force |-> FALSE, offl |-> TRUE, os |-> os, mc |-> mc, bindDev |-> NoDev,
            rt |-> FALSE, rtv |-> [dev |-> NoDev, gw |-> "self"], nd |-> NoDev, ndEntry |-> FALSE, ring |-> RingNone, key |-> k,
            ngh |-> NoNbr, hdr |-> 0, list |-> 0, owner |-> RingNone, pend |-> FALSE]
  /\ th = [t \in DThreads |-> Idle] /\ lock = NoDev /\ env = 0

(* The key under which the neighbour is looked up: the gateway of the      *)
(* route value, or the address itself if it has none or is multicast.      *)
NeighKey(x) == <<IF x.mc # NoDev THEN "self" ELSE x.rtv.gw, x.nd>>

-----------------------------------------------------------------------------
(* release_ring: the cached buffers go back to the ring and the reference  *)
(* of the current key is dropped, if the device has a ring of that key.    *)
Unref(rf, r) == IF r \in Rings /\ rf[r] > 0 THEN [rf EXCEPT ![r] = @ - 1] ELSE rf

dst_release_ring(x, rf) ==
  IF x.nd = NoDev \/ x.ring = RingNone THEN [x |-> x, rf |-> rf]
  ELSE [x |-> [x EXCEPT !.list = 0, !.ring = RingNone], rf |-> Unref(rf, <<x.nd, x.key>>)]

(* update_rt_val and update_net_dev_val: the device of SO_BINDTODEVICE or  *)
(* of the route; a change drops the neighbour and the ring.                *)
update_net_dev_val(x0) ==
  LET x == [x0 EXCEPT !.rtv = route]
      new == IF x.bindDev # NoDev THEN x.bindDev ELSE x.rtv.dev
      gone == IF x.ngh # NoNbr THEN {NeighKey(x)} ELSE {}
      rel == dst_release_ring([x EXCEPT !.ngh = NoNbr], refs)
  IN IF new = x.nd THEN [x |-> x, rf |-> refs, obs |-> observed, ok |-> x.nd # NoDev]
     ELSE [x |-> [rel.x EXCEPT !.nd = new], rf |-> rel.rf, obs |-> observed \ gone, ok |-> new # NoDev]

(* dst_entry_udp_mc::resolve_net_dev with an interface; otherwise          *)
(* dst_entry::resolve_net_dev.                                             *)
resolve_net_dev(x) ==
  IF x.mc # NoDev THEN [x |-> [x EXCEPT !.ndEntry = TRUE, !.nd = x.mc],
                       rf |-> refs, obs |-> observed, ok |-> TRUE]
  ELSE update_net_dev_val([x EXCEPT !.rt = TRUE])

(* The first part of prepare_to_send: the rules decide once, and the state *)
(* is set before anything is looked up.                                    *)
Prepare(t) ==
  /\ alive /\ lock = NoDev /\ th[t].at = "idle"
  /\ LET x == IF d.init THEN d ELSE [d EXCEPT !.init = TRUE, !.offl = ~d.os, !.force = d.os] IN
     IF x.force \/ x.valid THEN d' = x /\ ~d.init /\ UNCHANGED <<observed, refs, th, lock>>
     ELSE LET r == resolve_net_dev([x EXCEPT !.valid = TRUE]) IN
          IF r.ok THEN /\ d' = r.x /\ refs' = r.rf /\ observed' = r.obs
                       /\ lock' = t /\ th' = [th EXCEPT ![t].at = "ring"]
          ELSE /\ d' = [r.x EXCEPT !.offl = FALSE, !.valid = FALSE]
               /\ refs' = r.rf /\ observed' = r.obs /\ UNCHANGED <<th, lock>>
  /\ UNCHANGED <<route, nbr, alive, env>>

(* resolve_ring: a ring of the key, which may fail.                        *)
resolve_ring(t, ok) ==
  /\ lock = t /\ th[t].at = "ring"
  /\ IF d.ring = RingNone /\ ~ok
     THEN d' = [d EXCEPT !.offl = FALSE, !.valid = FALSE] /\ lock' = NoDev /\ th' = [th EXCEPT ![t] = Idle] /\ UNCHANGED refs
     ELSE /\ th' = [th EXCEPT ![t].at = "neigh"] /\ UNCHANGED lock
          /\ IF d.ring = RingNone THEN d' = [d EXCEPT !.ring = <<d.nd, d.key>>] /\ refs' = [refs EXCEPT ![<<d.nd, d.key>>] = @ + 1]
             ELSE UNCHANGED <<d, refs>>
  /\ UNCHANGED <<route, nbr, observed, alive, env>>

(* resolve_neigh: register with the neighbour once and copy its address if *)
(* it has one.                                                             *)
resolve_neigh(t) ==
  /\ lock = t /\ th[t].at = "neigh"
  /\ LET k == IF d.ngh # NoNbr THEN d.ngh ELSE NeighKey(d) IN
     /\ observed' = IF d.ngh # NoNbr THEN observed ELSE observed \cup {k}
     /\ IF nbr[k] # 0
        THEN d' = [d EXCEPT !.ngh = k, !.hdr = nbr[k]] /\ th' = [th EXCEPT ![t].at = "hdr"] /\ UNCHANGED lock
        ELSE d' = [d EXCEPT !.ngh = k, !.valid = FALSE, !.offl = TRUE] /\ th' = [th EXCEPT ![t] = Idle] /\ lock' = NoDev
  /\ UNCHANGED <<route, nbr, refs, alive, env>>

(* The headers are built and the cached buffers dropped.                   *)
configure_headers(t) ==
  /\ lock = t /\ th[t].at = "hdr"
  /\ d' = [d EXCEPT !.list = 0, !.offl = TRUE] /\ lock' = NoDev /\ th' = [th EXCEPT ![t] = Idle]
  /\ UNCHANGED <<route, nbr, observed, refs, alive, env>>

(* slow_send: where the data goes once the destination was prepared.       *)
slow_send == IF d.force \/ ~d.offl THEN "os" ELSE IF ~d.valid THEN "neigh" ELSE "wire"

-----------------------------------------------------------------------------
(* fast_send of udp: take a batch if none is cached, use one, and take the *)
(* next batch when the last was used; none may be free.                    *)
fast_send(t, some) ==
  /\ alive /\ lock = NoDev /\ th[t].at = "idle" /\ d.valid /\ ~d.force
  /\ LET have == IF d.list > 0 THEN d.list ELSE IF some THEN Batch ELSE 0
         left == IF have > 1 THEN have - 1 ELSE IF have = 1 /\ some THEN Batch ELSE 0
     IN d' = [d EXCEPT !.list = left, !.owner = IF left > 0 /\ d.list < 2 THEN d.ring ELSE @,
                       !.pend = IF have = 0 THEN @ ELSE FALSE]
  /\ UNCHANGED <<route, nbr, observed, refs, alive, th, lock, env>>

(* return_buffers_pool, from the socket's timer: a list not used since the *)
(* last call goes back if the ring can be locked.                          *)
return_buffers_pool(ok) ==
  /\ alive /\ lock = NoDev /\ d.list > 0
  /\ d' = IF d.pend /\ d.ring # RingNone /\ ok THEN [d EXCEPT !.list = 0, !.pend = FALSE] ELSE [d EXCEPT !.pend = TRUE]
  /\ UNCHANGED <<route, nbr, observed, refs, alive, th, lock, env>>

(* do_ring_migration: the key changes first; then, without the socket's    *)
(* lock, a ring of the key is reserved.                                    *)
do_ring_migration(t, k) ==
  /\ alive /\ lock = NoDev /\ th[t].at = "idle" /\ d.nd # NoDev /\ d.ring # RingNone /\ d.valid /\ k # d.key
  /\ env < MaxEnv /\ env' = env + 1
  /\ th' = [th EXCEPT ![t] = [at |-> "reserve", old |-> d.key, new |-> RingNone]]
  /\ d' = [d EXCEPT !.key = k]
  /\ UNCHANGED <<route, nbr, observed, refs, alive, lock>>

MigrateReserve(t, ok) ==
  /\ th[t].at = "reserve" /\ d.nd # NoDev
  /\ LET new == <<d.nd, d.key>> IN
     IF ~ok THEN th' = [th EXCEPT ![t] = Idle] /\ UNCHANGED refs
     ELSE IF new = d.ring
     THEN refs' = Unref([refs EXCEPT ![new] = @ + 1], <<d.nd, th[t].old>>) /\ th' = [th EXCEPT ![t] = Idle]
     ELSE refs' = [refs EXCEPT ![new] = @ + 1] /\ th' = [th EXCEPT ![t].at = "swap", ![t].new = new]
  /\ UNCHANGED <<route, nbr, observed, alive, d, lock, env>>

(* With both locks again: the new ring, no cached buffers, not valid.      *)
MigrateSwap(t) ==
  /\ th[t].at = "swap" /\ lock = NoDev
  /\ d' = [d EXCEPT !.valid = FALSE, !.ring = th[t].new, !.list = 0]
  /\ th' = [th EXCEPT ![t].at = "release"]
  /\ UNCHANGED <<route, nbr, observed, refs, alive, lock, env>>

(* The buffers go to the old ring, whose reference is released.            *)
MigrateRelease(t) ==
  /\ th[t].at = "release"
  /\ refs' = Unref(refs, <<d.nd, th[t].old>>) /\ th' = [th EXCEPT ![t] = Idle]
  /\ UNCHANGED <<route, nbr, observed, alive, d, lock, env>>

-----------------------------------------------------------------------------

(* notify_cb, from the route entry and from the neighbour's entry.         *)
notify_cb(x) == [x EXCEPT !.valid = FALSE]

RouteChanges(r) ==
  /\ env < MaxEnv /\ env' = env + 1 /\ r # route /\ route' = r
  /\ d' = IF d.rt /\ alive THEN notify_cb(d) ELSE d
  /\ UNCHANGED <<nbr, observed, refs, alive, th, lock>>

NeighChanges(k, m) ==
  /\ env < MaxEnv /\ env' = env + 1 /\ nbr[k] # m /\ nbr' = [nbr EXCEPT ![k] = m]
  /\ d' = IF k \in observed /\ alive THEN notify_cb(d) ELSE d
  /\ UNCHANGED <<route, observed, refs, alive, th, lock>>

(* set_bound_addr, set_so_bindtodevice_addr.                               *)
set_so_bindtodevice_addr(v) ==
  /\ alive /\ lock = NoDev /\ env < MaxEnv /\ env' = env + 1
  /\ v # d.bindDev /\ d' = notify_cb([d EXCEPT !.bindDev = v])
  /\ UNCHANGED <<route, nbr, observed, refs, alive, th, lock>>

(* dst_entry::~dst_entry, with the socket.                                 *)
Destroy ==
  /\ alive /\ lock = NoDev /\ \A t \in DThreads : th[t].at = "idle"
  /\ alive' = FALSE /\ observed' = IF d.ngh # NoNbr THEN observed \ {NeighKey(d)} ELSE observed
  /\ LET r == dst_release_ring(d, refs) IN d' = [r.x EXCEPT !.rt = FALSE, !.ndEntry = FALSE, !.valid = FALSE] /\ refs' = r.rf
  /\ UNCHANGED <<route, nbr, th, lock, env>>

DstNext ==
  \/ \E t \in DThreads : \/ Prepare(t) \/ resolve_neigh(t) \/ configure_headers(t) \/ MigrateSwap(t) \/ MigrateRelease(t)
                         \/ \E ok \in BOOLEAN : resolve_ring(t, ok) \/ fast_send(t, ok) \/ MigrateReserve(t, ok)
                         \/ \E k \in RKeys : do_ring_migration(t, k)
  \/ \E ok \in BOOLEAN : return_buffers_pool(ok)
  \/ \E r \in Routes : RouteChanges(r)
  \/ \E k \in NKeys, m \in Macs \cup {0} : NeighChanges(k, m)
  \/ \E v \in Devs \cup {NoDev} : set_so_bindtodevice_addr(v)
  \/ Destroy

DstSpec == DstInit /\ [][DstNext]_dstVars

-----------------------------------------------------------------------------
DstTypeOK ==
  /\ d.ring \in Rings \cup {RingNone} /\ d.key \in RKeys /\ d.ngh \in NKeys \cup {NoNbr} /\ observed \subseteq NKeys
  /\ \A r \in Rings : refs[r] \in Nat

(* A destination never uses a ring on which it holds no reference, in      *)
(* whatever step a migration is and even if one has failed.                *)
HoldsItsRing == d.ring # RingNone => refs[d.ring] > 0

(* The state is set before the lookups, so that a change of the neighbour  *)
(* that comes in between is not lost: what goes to the wire goes through a *)
(* ring and to the current address of the observed neighbour.              *)
NoStaleHeader == (alive /\ lock = NoDev /\ slow_send = "wire") => (d.ring # RingNone /\ d.hdr = nbr[d.ngh])

(* Cached tx buffers belong to the destination's ring, to which they are   *)
(* returned.                                                               *)
ListIsRings == d.list > 0 => d.owner = d.ring

=============================================================================
