----------------------------- MODULE SockRings ------------------------------
(***************************************************************************)
(* How a socket (sockinfo) holds on to the rings it receives from: one     *)
(* flow per bound address, one reserved ring per local interface, a        *)
(* reference per flow in its ring map, and the references of the epoll set *)
(* that polls those rings on its behalf.  One thread owns the socket (it   *)
(* binds, joins, receives, migrates, closes) and drops m_lock_rcv between  *)
(* the steps below; another one puts the socket into an epoll set and      *)
(* takes it out.                                                           *)
(***************************************************************************)
EXTENDS Integers, FiniteSets, Sequences, FiniteSetsExt

CONSTANTS
  Ifs,          \* local interfaces
  Flows,        \* [if: Ifs, five: BOOLEAN]: 3 and 5 tuples on an interface
  Keys,         \* values of the ring allocation key (per thread, per core)
  Shared,       \* interfaces at their ring limit: every key gets the same ring
  NoRing        \* model value

Rings == Ifs \X Keys

VARIABLES
  flow,         \* m_rx_flow_map
  nd,           \* m_rx_nd_map: refcnt and p_ring of each interface
  refs,         \* m_rx_ring_map: refcnt of each ring
  key,          \* m_ring_alloc_logic's key
  ctx,          \* m_econtext is set
  ep,           \* the epoll set's m_ring_map
  rsv,          \* references the net_device counts for each ring
  att,          \* flows attached to rings
  own,          \* what the owner is in the middle of
  sockClosed,
  migrFailed,   \* history: a migration met an error
  raced         \* history: the epoll set changed between a ring map update and its notification

ringVars == <<flow, nd, refs, key, ctx, ep, rsv, att, own, sockClosed, migrFailed, raced>>

Idle == [at |-> "idle"]
RingOf(i, k) == <<i, IF i \in Shared THEN CHOOSE x \in Keys : TRUE ELSE k>>
(* Bound: after a failed migration only the close is followed, and after a *)
(* race the socket is not put into the epoll set again.                    *)
Callable == own = Idle /\ ~sockClosed /\ ~migrFailed
Mapped == {f \in Flows : flow[f] # NoRing}

RingsInit ==
  /\ flow = [f \in Flows |-> NoRing]
  /\ nd = [i \in Ifs |-> [cnt |-> 0, ring |-> NoRing]]
  /\ refs = [r \in Rings |-> 0] /\ ep = [r \in Rings |-> 0] /\ rsv = [r \in Rings |-> 0]
  /\ key \in Keys /\ ctx = FALSE /\ att = {}
  /\ own = Idle /\ sockClosed = FALSE /\ migrFailed = FALSE /\ raced = FALSE

-----------------------------------------------------------------------------
(* increase_ring_ref_count and decrease_ring_ref_count of the epoll set,   *)
(* called only when m_econtext is set.                                     *)
notify_epoll_context_add_ring(r, isNew) ==
  ep' = IF isNew /\ ctx THEN [ep EXCEPT ![r] = @ + 1] ELSE ep

notify_epoll_context_remove_ring(r, isLast) ==
  ep' = IF isLast /\ ctx /\ ep[r] > 0 THEN [ep EXCEPT ![r] = @ - 1] ELSE ep

(* rx_add_ring_cb, up to the release of its locks.                         *)
rx_add_ring_cb(r) == refs' = [refs EXCEPT ![r] = @ + 1]

(* rx_del_ring_cb, up to the release of its locks.                         *)
rx_del_ring_cb(r) == refs' = [refs EXCEPT ![r] = @ - 1]

(* create_nd_resources(i): the ring is reserved once per interface.        *)
create_nd_resources(i) ==
  IF nd[i].ring = NoRing
  THEN /\ nd' = [nd EXCEPT ![i] = [cnt |-> 1, ring |-> RingOf(i, key)]]
       /\ rsv' = [rsv EXCEPT ![RingOf(i, key)] = @ + 1]
  ELSE /\ nd' = [nd EXCEPT ![i].cnt = @ + 1] /\ UNCHANGED rsv

(* destroy_nd_resources(i): the last flow gives the ring back, under the   *)
(* key of now; an entry whose ring cannot be given back stays.             *)
destroy_nd_resources(i) ==
  LET r == RingOf(i, key) IN
  IF nd[i].cnt > 1 THEN nd' = [nd EXCEPT ![i].cnt = @ - 1] /\ UNCHANGED rsv
  ELSE IF rsv[r] = 0 THEN nd' = [nd EXCEPT ![i].cnt = @ - 1] /\ UNCHANGED rsv
  ELSE nd' = [nd EXCEPT ![i] = [cnt |-> 0, ring |-> NoRing]] /\ rsv' = [rsv EXCEPT ![r] = @ - 1]

-----------------------------------------------------------------------------
(* attach_receiver(f): the map, the interface, the ring map; then the      *)
(* epoll set is told without a lock; then the ring attaches the flow.      *)
attach_receiver(f) ==
  /\ Callable /\ flow[f] = NoRing
  /\ create_nd_resources(f.if)
  /\ LET r == nd'[f.if].ring IN
     /\ flow' = [flow EXCEPT ![f] = r]
     /\ rx_add_ring_cb(r)
     /\ own' = [at |-> "added", f |-> f, r |-> r, new |-> refs[r] = 0]
  /\ UNCHANGED <<key, ctx, ep, att, sockClosed, migrFailed, raced>>

AttachNotify ==
  /\ own.at = "added"
  /\ notify_epoll_context_add_ring(own.r, own.new)
  /\ own' = [at |-> "attach", f |-> own.f, r |-> own.r]
  /\ UNCHANGED <<flow, nd, refs, key, ctx, rsv, att, sockClosed, migrFailed, raced>>

(* A failure leaves the flow in the maps: it is taken out on close.  A 5   *)
(* tuple replaces the 3 tuple of its interface.                            *)
AttachFlow(ok) ==
  /\ own.at = "attach"
  /\ att' = IF ok THEN att \cup {<<own.r, own.f>>} ELSE att
  /\ LET lesser == [own.f EXCEPT !.five = FALSE] IN
     own' = IF ok /\ own.f.five /\ lesser \in Mapped THEN [at |-> "detach", f |-> lesser] ELSE Idle
  /\ UNCHANGED <<flow, nd, refs, key, ctx, ep, rsv, sockClosed, migrFailed, raced>>

(* detach_receiver(f), in the same steps.                                  *)
DetachFrom(f) ==
  LET r == flow[f] IN
  /\ att' = att \ {<<r, f>>}
  /\ rx_del_ring_cb(r)
  /\ own' = [at |-> "deleted", f |-> f, r |-> r, last |-> refs[r] = 1]
  /\ UNCHANGED <<flow, nd, key, ctx, ep, rsv, migrFailed, raced>>

detach_receiver(f) == Callable /\ f \in Mapped /\ DetachFrom(f) /\ UNCHANGED sockClosed

DetachLesser == own.at = "detach" /\ DetachFrom(own.f) /\ UNCHANGED sockClosed

DetachDone ==
  /\ own.at = "deleted"
  /\ notify_epoll_context_remove_ring(own.r, own.last)
  /\ flow' = [flow EXCEPT ![own.f] = NoRing]
  /\ destroy_nd_resources(own.f.if)
  /\ own' = Idle
  /\ UNCHANGED <<refs, key, ctx, att, sockClosed, migrFailed, raced>>

(* destructor_helper: detach every flow; no call follows.                  *)
destructor_helper ==
  /\ own = Idle
  /\ IF Mapped = {} THEN ~sockClosed /\ sockClosed' = TRUE /\ UNCHANGED <<flow, nd, refs, key, ctx, ep, rsv, att, own, migrFailed, raced>>
     ELSE sockClosed' = TRUE /\ \E f \in Mapped : DetachFrom(f)

-----------------------------------------------------------------------------
(* do_rings_migration: the key changes, then interface by interface a ring *)
(* is reserved under the new key, every flow of the old ring is attached   *)
(* to the new one and detached from the old one, and the old ring is given *)
(* back under the old key.                                                 *)
do_rings_migration(k) ==
  /\ Callable /\ k # key
  /\ key' = k
  /\ own' = [at |-> "migrate", old |-> key, todo |-> {i \in Ifs : nd[i].ring # NoRing}]
  /\ UNCHANGED <<flow, nd, refs, ctx, ep, rsv, att, sockClosed, migrFailed, raced>>

(* reserve_ring(new_key) on interface i: it may fail, or be the old ring.  *)
MigrateReserve(i, ok) ==
  /\ own.at = "migrate" /\ i \in own.todo
  /\ LET r == RingOf(i, key)
         rest == [own EXCEPT !.todo = @ \ {i}]
     IN IF ~ok THEN own' = rest /\ migrFailed' = TRUE /\ UNCHANGED rsv
        ELSE IF r = nd[i].ring THEN own' = rest /\ UNCHANGED <<rsv, migrFailed>>
        ELSE /\ rsv' = [rsv EXCEPT ![r] = @ + 1] /\ UNCHANGED migrFailed
             /\ own' = [at |-> "flows", i |-> i, r |-> r, old |-> own.old, rest |-> own.todo \ {i},
                        flows |-> {f \in Flows : flow[f] = nd[i].ring}]
  /\ UNCHANGED <<flow, nd, refs, key, ctx, ep, att, sockClosed, raced>>

(* One flow of the migration: rx_add_ring_cb on the new ring ...           *)
MigrateAdd(f) ==
  /\ own.at = "flows" /\ f \in own.flows
  /\ rx_add_ring_cb(own.r)
  /\ own' = [at |-> "moving", f |-> f, new |-> refs[own.r] = 0, then |-> [own EXCEPT !.flows = @ \ {f}]]
  /\ UNCHANGED <<flow, nd, key, ctx, ep, rsv, att, sockClosed, migrFailed, raced>>

(* ... the epoll set is told, the new ring attaches the flow, the old one  *)
(* detaches it; when the attach fails the flow stays where it was ...      *)
MigrateAttach(ok) ==
  /\ own.at = "moving"
  /\ LET old == flow[own.f]
         r == own.then.r
     IN
     /\ notify_epoll_context_add_ring(r, own.new)
     /\ IF ok
        THEN /\ flow' = [flow EXCEPT ![own.f] = r]
             /\ att' = (att \ {<<old, own.f>>}) \cup {<<r, own.f>>}
             /\ rx_del_ring_cb(old)
             /\ own' = [at |-> "moved", r |-> old, last |-> refs[old] = 1, then |-> own.then]
             /\ UNCHANGED migrFailed
        ELSE own' = own.then /\ migrFailed' = TRUE /\ UNCHANGED <<flow, att, refs>>
  /\ UNCHANGED <<nd, key, ctx, rsv, sockClosed, raced>>

(* ... and the epoll set is told about the ring that is gone.              *)
MigrateNotify ==
  /\ own.at = "moved"
  /\ notify_epoll_context_remove_ring(own.r, own.last)
  /\ own' = own.then
  /\ UNCHANGED <<flow, nd, refs, key, ctx, rsv, att, sockClosed, migrFailed, raced>>

MigrateRelease ==
  /\ own.at = "flows" /\ own.flows = {}
  /\ LET old == RingOf(own.i, own.old) IN
     rsv' = IF rsv[old] > 0 THEN [rsv EXCEPT ![old] = @ - 1] ELSE rsv
  /\ nd' = [nd EXCEPT ![own.i].ring = own.r]
  /\ own' = [at |-> "migrate", old |-> own.old, todo |-> own.rest]
  /\ UNCHANGED <<flow, refs, key, ctx, ep, att, sockClosed, migrFailed, raced>>

MigrateEnd ==
  /\ own.at = "migrate" /\ own.todo = {}
  /\ own' = Idle
  /\ UNCHANGED <<flow, nd, refs, key, ctx, ep, rsv, att, sockClosed, migrFailed, raced>>

-----------------------------------------------------------------------------
InWindow == own.at \in {"added", "deleted", "moving", "moved"}

(* add_epoll_context and remove_epoll_context, under the epoll set's       *)
(* m_ring_map_lock and the socket's m_rx_ring_map_lock and m_lock_rcv.     *)
add_epoll_context ==
  /\ ~ctx /\ ~sockClosed /\ ~raced
  /\ ctx' = TRUE
  /\ ep' = [r \in Rings |-> IF refs[r] > 0 THEN ep[r] + 1 ELSE ep[r]]
  /\ raced' = (raced \/ InWindow)
  /\ UNCHANGED <<flow, nd, refs, key, rsv, att, own, sockClosed, migrFailed>>

remove_epoll_context ==
  /\ ctx
  /\ ctx' = FALSE
  /\ ep' = [r \in Rings |-> IF refs[r] > 0 /\ ep[r] > 0 THEN ep[r] - 1 ELSE ep[r]]
  /\ raced' = (raced \/ InWindow)
  /\ UNCHANGED <<flow, nd, refs, key, rsv, att, own, sockClosed, migrFailed>>

RingsNext ==
  \/ \E f \in Flows : attach_receiver(f) \/ detach_receiver(f) \/ MigrateAdd(f)
  \/ AttachNotify \/ DetachLesser \/ DetachDone \/ destructor_helper
  \/ \E ok \in BOOLEAN : AttachFlow(ok) \/ MigrateAttach(ok) \/ \E i \in Ifs : MigrateReserve(i, ok)
  \/ \E k \in Keys : do_rings_migration(k)
  \/ MigrateNotify \/ MigrateRelease \/ MigrateEnd
  \/ add_epoll_context \/ remove_epoll_context

RingsSpec == RingsInit /\ [][RingsNext]_ringVars

-----------------------------------------------------------------------------
RingsTypeOK ==
  /\ flow \in [Flows -> Rings \cup {NoRing}]
  /\ nd \in [Ifs -> [cnt : 0..Cardinality(Flows), ring : Rings \cup {NoRing}]]
  /\ \A r \in Rings : refs[r] \in Nat /\ rsv[r] \in Nat /\ ep[r] \in Nat
  /\ att \subseteq Rings \X Flows /\ key \in Keys
  /\ \A b \in {ctx, sockClosed, migrFailed, raced} : b \in BOOLEAN

(* Between two calls of its owner the socket's counts are exact: an        *)
(* interface counts its flows, the ring map counts the flows of a ring,    *)
(* and a ring is reserved exactly while an interface refers to it; a flow  *)
(* is attached to no ring but the one its map names.  (A migration that    *)
(* met an error is excepted: it changed the key before it could reserve.)  *)
CountsAreExact ==
  (own = Idle /\ ~migrFailed) =>
    /\ \A i \in Ifs : nd[i].cnt = Cardinality({f \in Mapped : f.if = i})
    /\ \A r \in Rings :
         /\ refs[r] = Cardinality({f \in Flows : flow[f] = r})
         /\ rsv[r] = Cardinality({i \in Ifs : nd[i].ring = r})
    /\ \A a \in att : flow[a[2]] = a[1]

(* A closed socket holds nothing: no flow, no ring, no reference, and the  *)
(* epoll set no longer polls a ring for it, whatever was attached, failed  *)
(* to attach or migrated before.                                           *)
CloseReleasesAll ==
  (sockClosed /\ own = Idle /\ Mapped = {} /\ ~migrFailed) =>
    /\ att = {} /\ \A r \in Rings : refs[r] = 0 /\ rsv[r] = 0
    /\ ~raced => \A r \in Rings : ep[r] = 0

(* The epoll set polls exactly the rings of the sockets in it, unless the  *)
(* socket was added or removed between the update of its ring map and the  *)
(* notification that follows without the lock.                             *)
EpollRefsExact ==
  (own.at \in {"idle", "migrate"} /\ ~raced) =>
    \A r \in Rings : ep[r] = IF ctx /\ refs[r] > 0 THEN 1 ELSE 0

-----------------------------------------------------------------------------
(***************************************************************************)
(* Which ring a socket uses: the akey by its allocation logic and the       *)
(* decision to migrate to another ring (ring_allocation_logic), the cpu a  *)
(* thread is attached to (cpu_manager) and the user's ring profiles        *)
(* (ring_profiles_collection).                                             *)
(***************************************************************************)


CONSTANTS
  Cpus,         \* cpu numbers
  AThreads,     \* threads, by pthread_self()
  SockFd,       \* the socket's descriptor
  Ratio,        \* ring_migration_ratio
  Rounds,       \* CANDIDATE_STABILITY_ROUNDS
  Descs,        \* ring descriptions of the user
  MaxMoves      \* bound: threads moved by the scheduler, profiles added

VARIABLES
  cpuOf,        \* the cpu each thread runs on
  logic,        \* the ring allocation logic
  akey,          \* m_res_key's user id
  cand,         \* m_migration_candidate, 0 for none
  tries,        \* m_migration_try_count
  seen,         \* history: accesses in a row that the candidate suits
  migrated,     \* history: the last access recommended a migration
  attached,     \* g_n_thread_cpu_core, -1 for none
  load,         \* m_cpu_thread_count
  profiles,     \* m_profs_map: sequence of descriptions
  keys,         \* the keys returned for each description that was added
  moves

allocVars == <<cpuOf, logic, akey, cand, tries, seen, migrated, attached, load, profiles, keys, moves>>

Logics == {"interface", "socket", "user", "thread", "core", "attach"}

(* The akey of a logic for a thread on a cpu.                               *)
KeyOf(l, c, t) ==
  CASE l = "interface" -> 0
    [] l = "socket" -> SockFd
    [] l = "thread" -> t
    [] l \in {"core", "attach"} -> c

AllocInit ==
  /\ cpuOf \in [AThreads -> Cpus] /\ logic \in Logics
  /\ \E t \in AThreads : akey = (IF logic = "user" THEN 0 ELSE KeyOf(logic, cpuOf[t], t))
  /\ cand = 0 /\ tries = Ratio /\ seen = 0 /\ migrated = FALSE
  /\ attached = [t \in AThreads |-> -1] /\ load = [c \in Cpus |-> 0]
  /\ profiles = <<>> /\ keys = {} /\ moves = 0

calc_res_key_by_logic(t) == IF logic = "user" THEN akey ELSE KeyOf(logic, cpuOf[t], t)

(* should_migrate_ring: [candidate, count, recommended]                    *)
should_migrate_ring(t) ==
  LET new == calc_res_key_by_logic(t) IN
  IF logic \notin {"thread", "core", "attach"} THEN [cand |-> cand, tries |-> tries, go |-> FALSE]
  ELSE IF cand # 0 /\ cand # new THEN [cand |-> 0, tries |-> 0, go |-> FALSE]
  ELSE IF tries < (IF cand # 0 THEN Rounds ELSE Ratio) THEN [cand |-> cand, tries |-> tries + 1, go |-> FALSE]
  ELSE IF cand = 0 THEN [cand |-> IF new = akey THEN 0 ELSE new, tries |-> 0, go |-> FALSE]
  ELSE [cand |-> 0, tries |-> 0, go |-> TRUE]

(* cpu_manager::reserve_cpu_for_thread: the cpu with the fewest threads    *)
(* (the first of them), or the suggested one if it has at most one more.   *)
reserve_cpu_for_thread(t, suggested) ==
  IF attached[t] # -1 THEN attached[t]
  ELSE LET least == Min({load[c] : c \in Cpus}) IN
       IF suggested \in Cpus /\ load[suggested] <= least + 1 THEN suggested
       ELSE Min({c \in Cpus : load[c] = least})

(* create_new_key, when the socket first reserves a ring on a device: no   *)
(* caller suggests a cpu.                                                  *)
create_new_key(t) ==
  /\ IF logic = "attach"
     THEN LET c == reserve_cpu_for_thread(t, -1) IN
          /\ akey' = c /\ attached' = [attached EXCEPT ![t] = c] /\ cpuOf' = [cpuOf EXCEPT ![t] = c]
          /\ load' = IF attached[t] = -1 THEN [load EXCEPT ![c] = @ + 1] ELSE load
     ELSE akey' = calc_res_key_by_logic(t) /\ UNCHANGED <<attached, cpuOf, load>>
  /\ migrated' = FALSE /\ UNCHANGED <<logic, cand, tries, seen, profiles, keys, moves>>

(* One access of the socket by a thread; a recommended migration sets the  *)
(* akey to the one calculated now.                                          *)
Access(t) ==
  /\ LET r == should_migrate_ring(t) IN
     /\ cand' = r.cand /\ tries' = r.tries /\ migrated' = r.go
     /\ seen' = IF calc_res_key_by_logic(t) # (IF r.go THEN cand ELSE r.cand) THEN 0
                ELSE IF seen > Rounds THEN seen ELSE seen + 1
     /\ akey' = IF r.go THEN calc_res_key_by_logic(t) ELSE akey
  /\ UNCHANGED <<cpuOf, logic, attached, load, profiles, keys, moves>>

(* The scheduler moves a thread that is not attached.                      *)
Moves(t, c) ==
  /\ moves < MaxMoves /\ moves' = moves + 1 /\ attached[t] = -1 /\ c # cpuOf[t]
  /\ cpuOf' = [cpuOf EXCEPT ![t] = c] /\ migrated' = FALSE
  /\ UNCHANGED <<logic, akey, cand, tries, seen, attached, load, profiles, keys>>

(* ring_profile::operator==: the result of string::compare, which is zero  *)
(* for equal strings.                                                      *)
ProfileEquals(a, b) == a # b

(* add_profile: the akey of a profile that exists, or a new one.            *)
add_profile(d) ==
  /\ moves < MaxMoves /\ moves' = moves + 1
  /\ LET same == {i \in DOMAIN profiles : ProfileEquals(profiles[i], d)} IN
     IF same # {} THEN keys' = keys \cup {<<d, Min(same)>>} /\ UNCHANGED profiles
     ELSE profiles' = Append(profiles, d) /\ keys' = keys \cup {<<d, Len(profiles) + 1>>}
  /\ UNCHANGED <<cpuOf, logic, akey, cand, tries, seen, migrated, attached, load>>

AllocNext ==
  \/ \E t \in AThreads : Access(t) \/ create_new_key(t) \/ \E c \in Cpus : Moves(t, c)
  \/ \E d \in Descs : add_profile(d)

AllocSpec == AllocInit /\ [][AllocNext]_allocVars

-----------------------------------------------------------------------------
AllocTypeOK ==
  /\ akey \in Cpus \cup AThreads \cup {SockFd} /\ tries \in 0..(Ratio + Rounds) /\ attached \in [AThreads -> Cpus \cup {-1}]
  /\ \A c \in Cpus : load[c] = Cardinality({t \in AThreads : attached[t] = c})

(* A ring is changed only after the socket was used from the new     *)
(* cpu or thread for the required number of accesses in a row.             *)
MigratesWhenStable == migrated => seen > Rounds

(* Threads are attached evenly: reserve_cpu_for_thread leaves no cpu with  *)
(* two threads more than another.                                          *)
LoadIsSpread == \A c, d \in Cpus : load[c] <= load[d] + 1

=============================================================================
