------------------------------ MODULE UdpSocket ------------------------------
(***************************************************************************)
(* An offloaded UDP socket (sockinfo_udp), in two halves that share no     *)
(* state: the control side, and below it the receive queue.                *)
(*                                                                         *)
(* The control side: bind, connect, sendto, multicast memberships and the  *)
(* options that are copied into destination entries, next to the kernel    *)
(* socket that VMA keeps in step (every call also reaches the kernel), and *)
(* the inspection that decides whether a datagram of an attached flow is   *)
(* accepted.  The calls run under m_lock_snd and m_lock_rcv.               *)
(***************************************************************************)
EXTENDS Integers, FiniteSets, Sequences, SequencesExt

CONSTANTS
  Offloaded,    \* addresses of offloaded interfaces
  Others,       \* addresses of other interfaces
  RouteIf,      \* the interface routes lead to
  Peers,        \* addresses of other hosts
  OsPeers,      \* peers for which the configuration says OS
  Groups,       \* multicast groups
  IfOf,         \* [Groups -> Nics]: the interface every request for a group names
  MaxMembers,   \* igmp_max_memberships
  MaxSources,   \* igmp_max_msf
  MaxPending,   \* bound: length of m_pending_mreqs
  MaxCalls,     \* bound: calls of connect and setsockopt of options
  MaxSkew,      \* bound: how far the filter count strays outside 0..MaxMembers
  AnyAddr       \* INADDR_ANY, no address

Nics == Offloaded \cup Others
Mreq == [opt : {"add", "drop", "addSrc", "dropSrc"}, g : Groups, s : Peers]
Pkt == [dst : Nics \cup Groups, src : Peers, if : Offloaded]
NoPkt == [dst |-> AnyAddr, src |-> AnyAddr, if |-> AnyAddr]

VARIABLES
  u,            \* the sockinfo_udp
  k,            \* the kernel's socket of the same fd
  dsts,         \* dst_entry objects alive
  calls,
  got,          \* the datagram this step accepted
  left          \* history: groups asked to be left, since they were asked for

udpVars == <<u, k, dsts, calls, got, left>>

Opts == [mc |-> 0, dev |-> AnyAddr, rate |-> 0]     \* multicast if/ttl/loop and tos; SO_BINDTODEVICE; pacing
NoDst == [mc |-> -1, dev |-> AnyAddr, rate |-> 0]

UdpInit ==
  /\ u = [port |-> 0, addr |-> AnyAddr, peer |-> AnyAddr, isConn |-> FALSE, offload |-> TRUE,
          multicast |-> FALSE, filters |-> 0, joined |-> {}, srcs |-> [g \in Groups |-> {}],
          pending |-> <<>>, flows |-> {}, att |-> {}, proc |-> "full",
          opts |-> Opts, conn |-> NoDst, map |-> [p \in Peers |-> NoDst], open |-> TRUE]
  /\ k = [port |-> 0, addr |-> AnyAddr, joined |-> {}, srcs |-> [g \in Groups |-> {}]]
  /\ dsts = 0 /\ calls = 0 /\ got = NoPkt /\ left = {}

-----------------------------------------------------------------------------
(* The kernel's answer to a membership request: a group is joined for any  *)
(* source or for listed ones; a first source narrows an any-source group.  *)
KernelMember(kk, g) == g \in kk.joined \/ kk.srcs[g] # {}

KernelSet(kk, m) ==
  LET no == [ok |-> FALSE, k |-> kk]
      yes(x) == [ok |-> TRUE, k |-> x]
  IN CASE m.opt = "add" -> IF KernelMember(kk, m.g) THEN no ELSE yes([kk EXCEPT !.joined = @ \cup {m.g}])
       [] m.opt = "drop" -> IF KernelMember(kk, m.g) THEN yes([kk EXCEPT !.joined = @ \ {m.g}, !.srcs[m.g] = {}]) ELSE no
       [] m.opt = "addSrc" -> IF m.s \in kk.srcs[m.g] THEN no
                              ELSE yes([kk EXCEPT !.joined = @ \ {m.g}, !.srcs[m.g] = @ \cup {m.s}])
       [] m.opt = "dropSrc" -> IF m.s \in kk.srcs[m.g] THEN yes([kk EXCEPT !.srcs[m.g] = @ \ {m.s}]) ELSE no

(* set_rx_packet_processor                                                 *)
set_rx_packet_processor(x) == [x EXCEPT !.proc = IF x.isConn \/ x.multicast THEN "full" ELSE "partial"]

(* attach_receiver and detach_receiver, as the socket sees them: a flow    *)
(* that is mapped is refused, a ring that fails to attach leaves it mapped.*)
attach_receiver(x, f, ok) ==
  IF f \in x.flows THEN [ret |-> FALSE, u |-> x]
  ELSE IF ok THEN [ret |-> TRUE, u |-> set_rx_packet_processor([x EXCEPT !.flows = @ \cup {f}, !.att = @ \cup {f}])]
  ELSE [ret |-> FALSE, u |-> [x EXCEPT !.flows = @ \cup {f}]]

detach_receiver(x, f) == [x EXCEPT !.flows = @ \ {f}, !.att = @ \ {f}]

UcFlow(x, i, dst) == [dst |-> dst, peer |-> x.peer, if |-> i]
McFlow(x, m) == [dst |-> m.g, peer |-> IF m.opt \in {"add", "drop"} THEN x.peer ELSE AnyAddr, if |-> IfOf[m.g]]

(* attach_as_uc_receiver: the bound address, or every offloaded one.       *)
attach_as_uc_receiver(x, ok) ==
  LET i == IF x.opts.dev # AnyAddr THEN x.opts.dev ELSE x.addr IN
  IF i # AnyAddr THEN attach_receiver(x, UcFlow(x, i, x.addr), ok).u
  ELSE LET fs == {UcFlow(x, j, j) : j \in Offloaded} \ x.flows
           y == [x EXCEPT !.flows = @ \cup fs, !.att = IF ok THEN @ \cup fs ELSE @]
       IN IF ok THEN set_rx_packet_processor(y) ELSE y

-----------------------------------------------------------------------------
(* mc_change_membership: what the offloaded part does for a request.       *)
mc_change_membership(x, kk, m, ok) ==
  LET f == McFlow(x, m)
      fail(y, z) == [ret |-> FALSE, u |-> y, k |-> z]
      done(y, z) == [ret |-> TRUE, u |-> set_rx_packet_processor(y), k |-> z]
      a == attach_receiver(x, f, ok)
      os == KernelSet(kk, m).k          \* original_os_setsockopt_helper: an error is only logged
      out == [detach_receiver(x, f) EXCEPT !.multicast = FALSE]
  IN CASE IfOf[m.g] \notin Offloaded -> fail(x, kk)
       [] m.opt = "add" ->
            IF x.srcs[m.g] # {} \/ ~a.ret THEN fail(IF x.srcs[m.g] # {} THEN x ELSE a.u, kk)
            ELSE done([a.u EXCEPT !.multicast = TRUE], os)
       [] m.opt = "addSrc" ->
            IF ~a.ret THEN fail(a.u, kk) ELSE done([a.u EXCEPT !.multicast = TRUE], os)
       [] m.opt = "drop" ->
            IF f \notin x.flows THEN fail(x, os) ELSE done(out, os)
       [] m.opt = "dropSrc" ->
            IF Cardinality(x.srcs[m.g]) # 1 THEN done([x EXCEPT !.joined = @ \cup {m.g}], os)
            ELSE IF f \notin x.flows THEN fail(x, os) ELSE done(out, os)

(* mc_change_pending_mreq, handle_pending_mreq                             *)
mc_change_pending_mreq(x, m) ==
  IF m.opt \in {"add", "addSrc"} THEN [x EXCEPT !.pending = Append(@, m)]
  ELSE [x EXCEPT !.pending = SelectSeq(@, LAMBDA p : ~(p.g = m.g /\ (m.opt = "drop" \/ p.s = m.s)))]

handle_pending_mreq(x, kk, ok) ==
  LET one(acc, m) == IF acc.u.offload THEN mc_change_membership(acc.u, acc.k, m, ok) ELSE acc
      r == FoldLeft(one, [ret |-> TRUE, u |-> x, k |-> kk], x.pending)
  IN [r EXCEPT !.u.pending = <<>>]

(* mc_change_membership_start_helper, mc_change_membership_end_helper      *)
mc_change_membership_start_helper(x, m) ==
  CASE m.opt = "addSrc" /\ m.g \in x.joined -> Cardinality(x.srcs[m.g]) < MaxSources
    [] m.opt \in {"add", "addSrc"} /\ m.g \notin x.joined -> Cardinality(x.joined) < MaxMembers
    [] OTHER -> TRUE

mc_change_membership_end_helper(x, m) ==
  CASE m.opt = "add" -> [x EXCEPT !.joined = @ \cup {m.g}]
    [] m.opt = "addSrc" ->
         LET n == x.srcs[m.g] \cup {m.s} IN
         [x EXCEPT !.joined = @ \cup {m.g}, !.srcs[m.g] = n, !.filters = IF Cardinality(n) = 1 THEN @ + 1 ELSE @]
    [] m.opt = "drop" -> [x EXCEPT !.joined = @ \ {m.g}, !.srcs[m.g] = {}]
    [] m.opt = "dropSrc" ->
         LET n == x.srcs[m.g] \ {m.s} IN
         IF m.g \in x.joined /\ n = {} THEN [x EXCEPT !.joined = @ \ {m.g}, !.srcs[m.g] = {}, !.filters = @ - 1]
         ELSE [x EXCEPT !.srcs[m.g] = n]

(* setsockopt(IP_ADD_MEMBERSHIP and its three companions): when the        *)
(* offload fails or is not wanted the kernel is asked, and its refusal is  *)
(* the answer.                                                             *)
Membership(m, ok) ==
  LET os == KernelSet(k, m)
      c == mc_change_membership(u, k, m, ok)
      again == KernelSet(c.k, m)
      end(x) == mc_change_membership_end_helper(x, m)
  IN
  /\ u.open /\ got' = NoPkt /\ UNCHANGED <<dsts, calls>>
  /\ left' = IF m.opt = "drop" \/ (m.opt = "dropSrc" /\ m.s \in u.srcs[m.g] \cup k.srcs[m.g]) THEN left \cup {m.g}
             ELSE IF m.g \in u.joined THEN left ELSE left \ {m.g}
  /\ CASE ~u.offload -> u' = u /\ k' = os.k
       [] u.offload /\ ~mc_change_membership_start_helper(u, m) -> UNCHANGED <<u, k>>
       [] u.offload /\ mc_change_membership_start_helper(u, m) /\ IfOf[m.g] \notin Offloaded ->
            k' = os.k /\ u' = IF os.ok THEN end(u) ELSE u
       [] u.offload /\ mc_change_membership_start_helper(u, m) /\ IfOf[m.g] \in Offloaded /\ u.port = 0 ->
            /\ Len(u.pending) < MaxPending
            /\ k' = os.k /\ u' = IF os.ok THEN end(mc_change_pending_mreq(u, m)) ELSE u
       [] OTHER ->
            IF c.ret THEN u' = end(c.u) /\ k' = c.k
            ELSE k' = again.k /\ u' = IF again.ok THEN end(c.u) ELSE c.u
  /\ u'.filters \in (0 - MaxSkew)..(MaxMembers + MaxSkew)

-----------------------------------------------------------------------------
(* on_sockname_change: a new local port is attached, with what was pending.*)
on_sockname_change(x, kk, ok) ==
  LET y == [x EXCEPT !.port = kk.port, !.addr = kk.addr]
      z == IF y.addr = AnyAddr \/ y.addr \in Offloaded THEN attach_as_uc_receiver(y, ok)
           ELSE IF y.addr \in Groups THEN y ELSE [y EXCEPT !.offload = FALSE]
  IN IF x.port = kk.port THEN [ret |-> TRUE, u |-> y, k |-> kk] ELSE handle_pending_mreq(z, kk, ok)

(* bind(addr): the kernel binds once and picks the port.                   *)
bind(addr, ok) ==
  /\ u.open /\ k.port = 0
  /\ LET r == on_sockname_change(u, [k EXCEPT !.port = 1, !.addr = addr], ok) IN u' = r.u /\ k' = r.k
  /\ got' = NoPkt /\ UNCHANGED <<dsts, calls, left>>

(* connect(to): the kernel picks the local address; a new destination      *)
(* entry replaces the pointer to the old one.                              *)
connect(to, ok) ==
  /\ u.open /\ calls < MaxCalls /\ calls' = calls + 1 /\ got' = NoPkt /\ UNCHANGED left
  /\ LET kk == [k EXCEPT !.port = 1, !.addr = IF @ = AnyAddr THEN RouteIf ELSE @]
         r == on_sockname_change([u EXCEPT !.peer = to, !.isConn = TRUE], kk, ok)
     IN /\ k' = r.k
        /\ IF to \in OsPeers THEN u' = [r.u EXCEPT !.offload = FALSE] /\ UNCHANGED dsts
           ELSE u' = [r.u EXCEPT !.conn = r.u.opts] /\ dsts' = dsts + 1

(* connect(AF_UNSPEC): the kernel forgets the peer, VMA does nothing.      *)
ConnectUnspec ==
  /\ u.open /\ calls < MaxCalls /\ calls' = calls + 1
  /\ got' = NoPkt /\ UNCHANGED <<u, k, dsts, left>>

(* tx to an address: its entry is found or made (binding first).           *)
tx(to, ok) ==
  /\ u.open /\ got' = NoPkt /\ UNCHANGED <<calls, left>>
  /\ LET kk == [k EXCEPT !.port = 1]
         r == IF u.map[to] = NoDst /\ u.port = 0 THEN on_sockname_change(u, kk, ok) ELSE [u |-> u, k |-> k]
     IN IF u.map[to] # NoDst THEN UNCHANGED <<u, k, dsts>>
        ELSE u' = [r.u EXCEPT !.map[to] = r.u.opts] /\ k' = r.k /\ dsts' = dsts + 1

(* SO_BINDTODEVICE: the connected entry, or all the others, follow.        *)
BindToDevice(i) ==
  /\ u.open /\ calls < MaxCalls /\ calls' = calls + 1 /\ got' = NoPkt /\ UNCHANGED <<k, dsts, left>>
  /\ u' = [u EXCEPT !.opts.dev = i,
                    !.conn = IF @ = NoDst THEN @ ELSE [@ EXCEPT !.dev = i],
                    !.map = IF u.conn # NoDst THEN @
                            ELSE [p \in Peers |-> IF @[p] = NoDst THEN NoDst ELSE [@[p] EXCEPT !.dev = i]]]

(* modify_ratelimit on one entry; SO_MAX_PACING_RATE, on all of them.     *)
modify_ratelimit(d, v) == IF d = NoDst THEN d ELSE [d EXCEPT !.rate = v]

SetPacing(v) ==
  /\ u.open /\ calls < MaxCalls /\ calls' = calls + 1 /\ got' = NoPkt /\ UNCHANGED <<k, dsts, left>>
  /\ u' = [u EXCEPT !.opts.rate = v, !.conn = modify_ratelimit(@, v),
                    !.map = [p \in Peers |-> modify_ratelimit(@[p], v)]]

(* IP_MULTICAST_IF, IP_MULTICAST_TTL, IP_MULTICAST_LOOP, IP_TOS,           *)
(* SO_PRIORITY: kept for the entries made from now on.                     *)
SetMcOptions(v) ==
  /\ u.open /\ calls < MaxCalls /\ calls' = calls + 1 /\ got' = NoPkt /\ UNCHANGED <<k, dsts, left>>
  /\ u' = [u EXCEPT !.opts.mc = v]

(* ~sockinfo_udp: the entries of the map and the connected one are deleted,*)
(* every flow is detached.                                                 *)
Destroy ==
  /\ u.open /\ got' = NoPkt /\ UNCHANGED <<k, calls, left>>
  /\ dsts' = dsts - Cardinality({p \in Peers : u.map[p] # NoDst}) - (IF u.conn = NoDst THEN 0 ELSE 1)
  /\ u' = [u EXCEPT !.open = FALSE, !.flows = {}, !.att = {}, !.conn = NoDst, !.map = [p \in Peers |-> NoDst]]

-----------------------------------------------------------------------------
inspect_connected(p) == u.peer # AnyAddr => p.src = u.peer

inspect_mc_packet(p) ==
  (u.filters # 0 /\ p.dst \in Groups) =>
    p.dst \in u.joined /\ (u.srcs[p.dst] # {} => p.src \in u.srcs[p.dst])

(* rx_process_udp_packet_full and rx_process_udp_packet_partial, for a     *)
(* datagram that a ring matched with an attached flow.                     *)
rx_input_cb(p) ==
  /\ u.open
  /\ \E f \in u.att : f.dst = p.dst /\ f.if = p.if /\ f.peer \in {AnyAddr, p.src}
  /\ got' = IF \/ u.proc = "partial"
               \/ (u.isConn => inspect_connected(p)) /\ (u.multicast => inspect_mc_packet(p))
            THEN p ELSE NoPkt
  /\ UNCHANGED <<u, k, dsts, calls, left>>

UdpNext ==
  \E ok \in BOOLEAN :
    \/ \E a \in Nics \cup Groups \cup {AnyAddr} : bind(a, ok)
    \/ \E p \in Peers : connect(p, ok) \/ tx(p, ok)
    \/ \E m \in Mreq : Membership(m, ok)
    \/ ConnectUnspec \/ Destroy
    \/ \E i \in Offloaded \cup {AnyAddr} : BindToDevice(i)
    \/ \E v \in {0, 1} : SetPacing(v) \/ SetMcOptions(v)
    \/ \E p \in Pkt : rx_input_cb(p)

UdpSpec == UdpInit /\ [][UdpNext]_udpVars

-----------------------------------------------------------------------------
UdpTypeOK ==
  /\ u.flows \subseteq [dst : Nics \cup Groups \cup {AnyAddr}, peer : Peers \cup {AnyAddr}, if : Nics \cup {AnyAddr}]
  /\ u.att \subseteq u.flows /\ u.joined \subseteq Groups /\ \A g \in Groups : u.srcs[g] \subseteq Peers
  /\ u.filters \in Int /\ dsts \in Nat /\ got \in Pkt \cup {NoPkt}

(* Whatever the order of joins, leaves, binds and failures to attach, a    *)
(* group that was joined and not left is heard: a ring steers it to the    *)
(* socket, or the kernel is a member and delivers it.                      *)
GroupIsHeard ==
  u.open => \A g \in u.joined \ left : (\E f \in u.att : f.dst = g) \/ KernelMember(k, g)

-----------------------------------------------------------------------------
(***************************************************************************)
(* Receiving on an offloaded UDP socket: threads that call recv (rx and    *)
(* rx_wait: poll, arm the completion queue, go to sleep), another thread   *)
(* that polls the same ring and fills the socket's ready list, datagrams   *)
(* that the kernel delivers, zero copy, and the reuse of buffers.  A step  *)
(* is what happens under m_lock_rcv or between two of its critical         *)
(* sections.                                                               *)
(***************************************************************************)
CONSTANTS
  Readers,      \* threads that call recv
  Sizes,        \* payload sizes
  Rooms,        \* sizes of the callers' buffers
  Limits,       \* values of SO_RCVBUF
  Ratio,        \* m_n_sysvar_rx_udp_poll_os_ratio
  ReuseNum,     \* m_n_sysvar_rx_num_buffs_reuse
  MaxArrivals,  \* bound: datagrams the ring receives
  MaxOs,        \* bound: datagrams the kernel receives
  MaxRecvs      \* bound: calls of recv per thread

VARIABLES
  q,            \* the socket: ready list, counts, reuse
  cq,           \* sizes of the datagrams in the completion queue
  armed,        \* the queue will raise an event
  chan,         \* an event waits on the completion channel
  wakeFd,       \* the wakeup pipe is in m_rx_epfd
  os,           \* datagrams in the kernel's queue
  ratioCnt,     \* m_rx_udp_poll_os_ratio_counter
  th,           \* per reader: pc, flags of the call, stale poll_sn
  arrivals, osArrivals

urxVars == <<q, cq, armed, chan, wakeFd, os, ratioCnt, th, arrivals, osArrivals>>

Sleepers == {t \in Readers : th[t].pc = "asleep"}
Free == \A t \in Readers : th[t].pc # "inKernel"       \* nobody holds m_lock_rcv
Total(s) == FoldLeft(LAMBDA a, b : a + b, 0, s)
Smaller(a, b) == IF a < b THEN a ELSE b

UrxInit ==
  /\ q = [ready |-> <<>>, bytes |-> 0, gone |-> 0, limit |-> CHOOSE l \in Limits : \A m \in Limits : m <= l,
          reuse |-> 0, postponed |-> FALSE, held |-> 0, home |-> 0, open |-> TRUE]
  /\ cq = <<>> /\ armed = FALSE /\ chan = FALSE /\ wakeFd = FALSE /\ os = 0 /\ ratioCnt = 0
  /\ th = [t \in Readers |-> [pc |-> "idle", peek |-> FALSE, zcopy |-> FALSE, room |-> 0,
                               block |-> FALSE, stale |-> TRUE, calls |-> 0]]
  /\ arrivals = 0 /\ osArrivals = 0

-----------------------------------------------------------------------------
(* sockinfo::reuse_buffer: buffers go back in batches of at least ReuseNum,*)
(* at once from twice that number on, else by return_reuse_buffers_postponed. *)
reuse_buffer(x) ==
  LET n == x.reuse + 1 IN
  IF n >= 2 * ReuseNum THEN [x EXCEPT !.reuse = 0, !.home = @ + n, !.postponed = FALSE]
  ELSE [x EXCEPT !.reuse = n, !.postponed = @ \/ n >= ReuseNum]

return_reuse_buffers_postponed(x, ok) ==
  IF ~x.postponed \/ x.reuse < ReuseNum THEN [x EXCEPT !.postponed = FALSE]
  ELSE IF ok THEN [x EXCEPT !.postponed = FALSE, !.home = @ + x.reuse, !.reuse = 0] ELSE x

(* inspect_uc_packet: the limit, and a closed socket.                      *)
inspect_uc_packet(x) == x.bytes < x.limit /\ x.open

(* update_ready for a datagram of n bytes (a rejected one goes home).      *)
update_ready(x, n) ==
  IF inspect_uc_packet(x) THEN [x EXCEPT !.ready = Append(@, n), !.bytes = @ + n]
  ELSE [x EXCEPT !.home = @ + 1]

(* handle_msg_trunc: what the caller had no room for leaves the counts.    *)
handle_msg_trunc(x, total, payload) == [x EXCEPT !.bytes = @ - (payload - total)]

(* post_deqeue: the head leaves, and its buffer with it unless zero copy.  *)
post_deqeue(x, release) ==
  LET y == [x EXCEPT !.ready = Tail(@)] IN IF release THEN reuse_buffer(y) ELSE [y EXCEPT !.held = @ + 1]

(* dequeue_packet: gone counts the bytes that a short MSG_PEEK subtracts   *)
(* while the datagram stays.                                               *)
dequeue_packet(x, f) ==
  LET payload == Head(x.ready)
      total == IF f.zcopy THEN payload ELSE Smaller(f.room, payload)
      y == IF f.peek THEN [x EXCEPT !.gone = @ + (payload - total)]
           ELSE post_deqeue([x EXCEPT !.bytes = @ - total], ~f.zcopy)
  IN handle_msg_trunc(y, total, payload)

(* rx_ready_byte_count_limit_update: the oldest datagrams make room.       *)
DropOldest(x) ==
  LET fits(n) == x.bytes - Total(SubSeq(x.ready, 1, n)) <= x.limit
      n == CHOOSE m \in 0..Len(x.ready) : (fits(m) \/ m = Len(x.ready)) /\ \A j \in 0..(m - 1) : ~fits(j)
      y == [x EXCEPT !.ready = SubSeq(@, n + 1, Len(@)), !.bytes = @ - Total(SubSeq(x.ready, 1, n))]
  IN FoldLeft(LAMBDA z, i : return_reuse_buffers_postponed(reuse_buffer(z), TRUE), y, SubSeq(x.ready, 1, n))

-----------------------------------------------------------------------------
(* Polling the queue: every datagram is processed, sleepers are woken, and *)
(* what the other threads know of the queue is stale.                      *)
PollCq ==
  /\ q' = FoldLeft(update_ready, q, cq)
  /\ cq' = <<>>
  /\ wakeFd' = (wakeFd \/ (Len(q'.ready) > Len(q.ready) /\ Sleepers # {}))

Stale(me, th2) ==
  [t \in Readers |-> IF t = me THEN [th2[t] EXCEPT !.stale = FALSE]
                     ELSE IF cq # <<>> THEN [th2[t] EXCEPT !.stale = TRUE] ELSE th2[t]]

Go(t, pc) == [th EXCEPT ![t].pc = pc]

(* is_readable(&poll_sn): the ready list, else the queue is polled.        *)
is_readable(t, yes, no) ==
  IF q.ready # <<>> THEN th' = Go(t, yes) /\ UNCHANGED <<q, cq, wakeFd>>
  ELSE PollCq /\ th' = Stale(t, Go(t, IF q'.ready # <<>> THEN yes ELSE no))

(* rx: the call, up to the first release of the lock.                      *)
rx(t, f, ok) ==
  /\ th[t].pc = "idle" /\ th[t].calls < MaxRecvs /\ q.open /\ Free
  /\ q' = return_reuse_buffers_postponed(q, ok)
  /\ th' = [th EXCEPT ![t] = [pc |-> "first", peek |-> f.peek, zcopy |-> f.zcopy, room |-> f.room,
                              block |-> f.block, stale |-> TRUE, calls |-> @.calls + 1]]
  /\ UNCHANGED <<cq, armed, chan, wakeFd, os, ratioCnt, arrivals, osArrivals>>

(* The first look, and one turn of rx_wait's polling loop: the kernel at   *)
(* its ratio (poll_os), then the ring.                                     *)
poll_os(t) ==
  /\ ratioCnt >= Ratio
  /\ ratioCnt' = 0
  /\ th' = IF os > 0 THEN Go(t, "os") ELSE th
  /\ UNCHANGED <<q, cq, armed, chan, wakeFd, os, arrivals, osArrivals>>

Poll(t) ==
  /\ th[t].pc \in {"first", "poll"} /\ Free
  /\ \/ poll_os(t)
     \/ /\ ratioCnt < Ratio /\ q.open
        /\ ratioCnt' = ratioCnt + 1
        /\ \E next \in IF th[t].pc = "first" THEN {"poll"} ELSE IF th[t].block THEN {"poll", "arm"} ELSE {"idle"} :
             is_readable(t, "take", next)
        /\ UNCHANGED <<armed, chan, os, arrivals, osArrivals>>
     \/ /\ ~q.open /\ th' = Go(t, "idle")
        /\ UNCHANGED <<q, cq, armed, chan, wakeFd, os, ratioCnt, arrivals, osArrivals>>

(* rx_request_notification: refused when somebody polled since; a queue    *)
(* that is not empty raises its event at once.                             *)
rx_request_notification(t) ==
  /\ th[t].pc = "arm" /\ Free
  /\ IF ~q.open THEN th' = Go(t, "idle") /\ UNCHANGED <<q, cq, wakeFd, armed, chan>>
     ELSE IF th[t].stale THEN is_readable(t, "take", "arm") /\ UNCHANGED <<armed, chan>>
     ELSE /\ armed' = (armed \/ cq = <<>>) /\ chan' = (chan \/ cq # <<>>)
          /\ th' = Go(t, "check") /\ UNCHANGED <<q, cq, wakeFd>>
  /\ UNCHANGED <<os, ratioCnt, arrivals, osArrivals>>

(* The last look, and going_to_sleep under the same lock.                  *)
going_to_sleep(t) ==
  /\ th[t].pc = "check" /\ Free
  /\ \E seen \in IF q.ready = <<>> THEN {"asleep"} ELSE {"take", "arm"} : th' = Go(t, seen)
  /\ UNCHANGED <<q, cq, armed, chan, wakeFd, os, ratioCnt, arrivals, osArrivals>>

(* epoll_wait returns: a wakeup, the channel, the kernel's socket, or the  *)
(* timeout; return_from_sleep.                                             *)
return_from_sleep(t) ==
  /\ th[t].pc = "asleep" /\ Free
  /\ \/ (wakeFd \/ chan \/ os > 0) /\ th' = Go(t, "woken")
     \/ th' = Go(t, "idle")
  /\ UNCHANGED <<q, cq, armed, chan, wakeFd, os, ratioCnt, arrivals, osArrivals>>

(* The ready fds, in the order epoll_wait gave them: the wakeup pipe is    *)
(* removed when nobody sleeps, the kernel's socket ends the wait, an event *)
(* of the channel is consumed and the queue polled.                        *)
ReaderWoken(t) ==
  /\ th[t].pc = "woken" /\ Free
  /\ \/ q.ready # <<>> /\ th' = Go(t, "take") /\ UNCHANGED <<q, cq, chan, wakeFd, ratioCnt>>
     \/ q.ready = <<>> /\ os > 0 /\ th' = Go(t, "os") /\ ratioCnt' = 0 /\ UNCHANGED <<q, cq, chan, wakeFd>>
     \/ /\ q.ready = <<>>
        /\ \E c \in {FALSE, chan} : chan' = c
        /\ q' = FoldLeft(update_ready, q, cq) /\ cq' = <<>>
        /\ wakeFd' = ((wakeFd /\ Sleepers # {}) \/ (q'.ready # <<>> /\ Sleepers # {}))
        /\ th' = Stale(t, Go(t, IF q'.ready # <<>> THEN "take" ELSE "arm"))
        /\ UNCHANGED ratioCnt
  /\ UNCHANGED <<armed, os, arrivals, osArrivals>>

(* Back in rx with the lock: a datagram is taken, unless somebody else did.*)
Take(t) ==
  /\ th[t].pc = "take" /\ Free
  /\ IF q.ready # <<>> THEN q' = dequeue_packet(q, th[t]) /\ th' = Go(t, "idle")
     ELSE th' = Go(t, "poll") /\ UNCHANGED q
  /\ UNCHANGED <<cq, armed, chan, wakeFd, os, ratioCnt, arrivals, osArrivals>>

(* The kernel's socket is read with m_lock_rcv held; it may have been read *)
(* by somebody else, and then a blocking call waits there.                 *)
rx_os(t) ==
  /\ th[t].pc \in {"os", "inKernel"} /\ (Free \/ th[t].pc = "inKernel")
  /\ IF os > 0 THEN os' = os - 1 /\ ratioCnt' = Ratio /\ th' = Go(t, "idle")
     ELSE /\ th[t].pc = "os" /\ th' = Go(t, IF th[t].block THEN "inKernel" ELSE "idle")
          /\ UNCHANGED <<os, ratioCnt>>
  /\ UNCHANGED <<q, cq, armed, chan, wakeFd, arrivals, osArrivals>>

-----------------------------------------------------------------------------
(* free_packets: the application returns a zero copy datagram.             *)
free_packets ==
  /\ q.held > 0 /\ Free /\ q.open
  /\ q' = reuse_buffer([q EXCEPT !.held = @ - 1])
  /\ UNCHANGED <<cq, armed, chan, wakeFd, os, ratioCnt, th, arrivals, osArrivals>>

rx_ready_byte_count_limit_update(l) ==
  /\ Free /\ q.open /\ l # q.limit
  /\ q' = DropOldest([q EXCEPT !.limit = l])
  /\ UNCHANGED <<cq, armed, chan, wakeFd, os, ratioCnt, th, arrivals, osArrivals>>

(* Another thread polls the ring.                                          *)
OtherPolls ==
  /\ cq # <<>> /\ Free
  /\ PollCq /\ th' = [t \in Readers |-> [th[t] EXCEPT !.stale = TRUE]]
  /\ UNCHANGED <<armed, chan, os, ratioCnt, arrivals, osArrivals>>

DatagramArrives(n) ==
  /\ arrivals < MaxArrivals
  /\ arrivals' = arrivals + 1 /\ cq' = Append(cq, n)
  /\ chan' = (chan \/ armed) /\ armed' = FALSE
  /\ UNCHANGED <<q, wakeFd, os, ratioCnt, th, osArrivals>>

OsArrives ==
  /\ osArrivals < MaxOs
  /\ osArrivals' = osArrivals + 1 /\ os' = os + 1
  /\ UNCHANGED <<q, cq, armed, chan, wakeFd, ratioCnt, th, arrivals>>

(* prepare_to_close wakes the sleepers, then the socket is marked closed.  *)
prepare_to_close ==
  /\ q.open /\ Free
  /\ q' = [q EXCEPT !.open = FALSE]
  /\ wakeFd' = (wakeFd \/ Sleepers # {})
  /\ UNCHANGED <<cq, armed, chan, os, ratioCnt, th, arrivals, osArrivals>>

Flags == [peek : BOOLEAN, zcopy : BOOLEAN, room : Rooms, block : BOOLEAN]

UrxNext ==
  \/ \E t \in Readers :
       \/ \E f \in Flags, ok \in BOOLEAN : ~(f.peek /\ f.zcopy) /\ rx(t, f, ok)
       \/ Poll(t) \/ rx_request_notification(t) \/ going_to_sleep(t) \/ return_from_sleep(t)
       \/ ReaderWoken(t) \/ Take(t) \/ rx_os(t)
  \/ free_packets \/ OtherPolls \/ OsArrives \/ prepare_to_close
  \/ \E l \in Limits : rx_ready_byte_count_limit_update(l)
  \/ \E n \in Sizes : DatagramArrives(n)

UrxSpec == UrxInit /\ [][UrxNext]_urxVars

-----------------------------------------------------------------------------
UrxTypeOK ==
  /\ q.ready \in Seq(Sizes) /\ q.bytes \in Int /\ q.limit \in Limits
  /\ cq \in Seq(Sizes) /\ ratioCnt \in 0..Ratio
  /\ \A b \in {armed, chan, wakeFd, q.open, q.postponed} : b \in BOOLEAN

(* Every buffer is somewhere: queued, ready, lent to the application, in   *)
(* the reuse batch or back in its ring; and the byte count is that of the  *)
(* ready list, less what a MSG_PEEK with a short buffer subtracted.        *)
UdpBytesExact ==
  /\ arrivals = Len(cq) + Len(q.ready) + q.held + q.reuse + q.home
  /\ q.bytes = Total(q.ready) - q.gone
  /\ q.reuse >= ReuseNum => q.postponed

(* A reader never sleeps over a datagram that is ready: the pipe, the      *)
(* channel or the kernel's socket will end its wait.                       *)
ReadyWakes == (Sleepers # {} /\ q.ready # <<>>) => wakeFd \/ chan \/ os > 0
====
