---------------------------- MODULE FlowSteering ----------------------------
(***************************************************************************)
(* How a ring steers packets to sockets (dev/ring_simple.cpp attach_flow,  *)
(* detach_flow, rx_process_buffer; dev/rfs*.cpp).                          *)
(*                                                                         *)
(* A flow has an rfs object: the sinks (sockets) that listen to it and the *)
(* rule the adapter was given for it.  With rule filters (3-tuple TCP      *)
(* rules, L2-only multicast rules) all the flows of a group share one rule *)
(* and a counter; otherwise every flow has a rule of its own.              *)
(* attach_flow releases the ring lock while it builds a new rfs, so two    *)
(* threads interleave there.  A rule may carry a flow tag, the descriptor  *)
(* of the socket that created it: tagged packets bypass the rfs.           *)
(*                                                                         *)
(* A received buffer is validated, reassembled when it is a fragment, and  *)
(* offered to the sinks; a sink that wants it takes a reference.           *)
(***************************************************************************)
EXTENDS Naturals, Sequences, FiniteSets, SequencesExt

CONSTANTS
  FsThreads,   \* threads that attach and detach flows
  FsSocks,     \* sockets, by descriptor: a closed descriptor is reused
  KindOf,      \* [flow -> {"uc", "mc", "tcp5", "tcp3"}]
  Wild,        \* [flow -> the 3-tuple flow a TCP packet falls back to]
  GroupOf,     \* [flow -> its rule filter, or FsNone]
  TagOn,       \* m_flow_tag_enabled
  McReuse,     \* sockets with SO_REUSEADDR
  RxBufs,      \* receive buffers
  Attachable,  \* flows sockets attach to (the others only arrive)
  MaxJoins,    \* bound on the flows a socket is attached to
  MaxFails,    \* bound on the refusals of the adapter
  MaxRx,       \* bound on the received packets
  FsNone

VARIABLES
  rfs,         \* m_flow_*_map: [flow -> rfs record]
  filter,      \* m_tcp_dst_port_attach_map, m_l2_mc_ip_attach_map
  hw,          \* rules in the adapter: [handle -> rule and tag, or FsNone]
  att,         \* per thread: the attach it is in the middle of
  joined,      \* pairs <<socket, flow>> whose attach succeeded
  tagged,      \* sockets with m_flow_tag_enabled
  gone,        \* the ring is deleted
  bufref,      \* n_ref_count of each buffer; FsNone when the CQ owns it
  holders,     \* [buffer -> sockets that keep it (and its chain)]
  chained,     \* [buffer -> buffers linked behind it]
  pend,        \* buffers the fragment manager holds, in offset order
  dropped,     \* buffers of datagrams dropped after reassembly
  upset,       \* filters an attach of which was refused, or met another change
  fails, rx    \* bounded counters

fsVars == <<rfs, filter, hw, att, joined, tagged, gone, bufref, holders, chained,
            pend, dropped, upset, fails, rx>>

FsFlows == DOMAIN KindOf
Filters == {GroupOf[f] : f \in FsFlows} \ {FsNone}
Filtered(f) == GroupOf[f] # FsNone
Rule(f) == IF Filtered(f) THEN GroupOf[f] ELSE f
Handles == 1..Cardinality(Attachable)
NoRfs == [live |-> FALSE, sinks |-> <<>>, attached |-> FALSE, ibv |-> 0, tag |-> FsNone]
NewRfs(tag) == [NoRfs EXCEPT !.live = TRUE, !.tag = tag]
NoFilter == [counter |-> 0, present |-> FALSE, ibv |-> 0]
IdleAtt == [f |-> FsNone, s |-> FsNone]
SinksOf(f) == {rfs[f].sinks[i] : i \in 1..Len(rfs[f].sinks)}

FsInit ==
  /\ rfs = [f \in FsFlows |-> NoRfs]
  /\ filter = [g \in Filters |-> NoFilter]
  /\ hw = [h \in Handles |-> FsNone]
  /\ att = [t \in FsThreads |-> IdleAtt]
  /\ joined = {} /\ tagged = {} /\ gone = FALSE
  /\ bufref = [b \in RxBufs |-> FsNone]
  /\ holders = [b \in RxBufs |-> {}]
  /\ chained = [b \in RxBufs |-> {}]
  /\ pend = <<>> /\ dropped = {} /\ upset = {} /\ fails = 0 /\ rx = 0

-----------------------------------------------------------------------------
(* Attaching. *)

\* The flow tag a socket asks for: its descriptor, or FsNone when the fast
\* path must not be used (shared multicast, GRO streams).
FlowTag(s, f) ==
  IF /\ TagOn
     /\ KindOf[f] # "tcp5"
     /\ KindOf[f] = "mc" => s \notin McReuse
  THEN s ELSE FsNone

\* Another thread is between the two halves of an attach to f's filter.
Overlaps(f) == \E t \in FsThreads : att[t] # IdleAtt /\ GroupOf[att[t].f] = GroupOf[f]

Counted(f) ==
  IF Filtered(f)
  THEN [filter EXCEPT ![GroupOf[f]].counter = @ + 1, ![GroupOf[f]].present = TRUE]
  ELSE filter

\* prepare_filter_attach: the count of the group, 1 without a filter.
prepare_filter_attach(flt, f) ==
  IF Filtered(f) /\ flt[GroupOf[f]].present THEN flt[GroupOf[f]].counter ELSE 1

add_sink(sinks, s) ==
  IF \E i \in 1..Len(sinks) : sinks[i] = s THEN sinks ELSE Append(sinks, s)

\* rfs_uc::prepare_flow_spec: the tuple of the flow, or of its filter, and the tag.
uc_flow_spec(f, tag) == [rule |-> Rule(f), tag |-> tag]

\* rfs_mc::prepare_flow_spec: L2-only rules carry no tag.
mc_flow_spec(f, tag) == [rule |-> Rule(f), tag |-> IF Filtered(f) THEN FsNone ELSE tag]

FreeHandle == CHOOSE h \in Handles : hw[h] = FsNone

\* filter_keep_attached: the filter remembers the rule it stands for.
filter_keep_attached(flt, f, h) ==
  IF Filtered(f) THEN [flt EXCEPT ![GroupOf[f]].ibv = h] ELSE flt

\* rfs::attach_flow on the rfs r of flow f.
rfs_attach_flow(r, flt, f, s) ==
  LET counter == prepare_filter_attach(flt, f)
      attached == r.attached \/ (Filtered(f) /\ counter > 1)
      joins(x) ==
        /\ rfs' = [rfs EXCEPT ![f] = [x EXCEPT !.sinks = add_sink(@, s)]]
        /\ joined' = joined \cup {<<s, f>>}
        /\ tagged' = IF FlowTag(s, f) # FsNone THEN tagged \cup {s} ELSE tagged
  IN IF r.sinks = <<>> /\ ~attached /\ counter = 1
     THEN \/ /\ \E h \in Handles : hw[h] = FsNone
             /\ hw' = [hw EXCEPT ![FreeHandle] = IF KindOf[f] = "mc" THEN mc_flow_spec(f, r.tag)
                                                  ELSE uc_flow_spec(f, r.tag)]
             /\ filter' = filter_keep_attached(flt, f, FreeHandle)
             /\ joins([r EXCEPT !.attached = TRUE, !.ibv = FreeHandle])
             /\ UNCHANGED <<upset, fails>>
          \/ /\ fails < MaxFails          \* vma_ibv_create_flow refuses
             /\ fails' = fails + 1
             /\ upset' = upset \cup {GroupOf[f]}
             /\ rfs' = [rfs EXCEPT ![f] = r]
             /\ filter' = flt
             /\ UNCHANGED <<hw, joined, tagged>>
     ELSE /\ filter' = flt
          /\ joins([r EXCEPT !.attached = attached])
          /\ UNCHANGED <<hw, upset, fails>>

\* The socket layer attaches a flow once; the kernel refuses a second socket
\* on a bound address unless both allow it.
MayAttach(s, f) ==
  /\ ~gone /\ f \in Attachable
  /\ <<s, f>> \notin joined
  /\ Cardinality({p \in joined : p[1] = s}) < MaxJoins
  /\ \A t \in FsThreads : att[t].s # s
  /\ KindOf[f] \in {"tcp5", "tcp3"} => SinksOf(f) = {} /\ \A t \in FsThreads : att[t].f # f
  /\ (SinksOf(f) # {} /\ KindOf[f] # "tcp5") => SinksOf(f) \cup {s} \subseteq McReuse

\* ring_simple::attach_flow up to the unlock before the new rfs is built; with
\* an rfs in the map it runs to its end under the lock.
attach_flow(t, s, f) ==
  /\ att[t] = IdleAtt
  /\ MayAttach(s, f)
  /\ IF rfs[f].live
     THEN rfs_attach_flow(rfs[f], Counted(f), f, s) /\ UNCHANGED att
     ELSE /\ filter' = Counted(f)
          /\ att' = [att EXCEPT ![t] = [f |-> f, s |-> s]]
          /\ upset' = IF Overlaps(f) THEN upset \cup {GroupOf[f]} ELSE upset
          /\ UNCHANGED <<rfs, hw, joined, tagged, fails>>
  /\ UNCHANGED <<gone, bufref, holders, chained, pend, dropped, rx>>

\* The rest of it: lock again, take the rfs another thread has inserted or
\* insert the new one, attach.
AttachNew(t) ==
  /\ att[t] # IdleAtt
  /\ LET f == att[t].f  s == att[t].s
         r == IF rfs[f].live THEN rfs[f] ELSE NewRfs(FlowTag(s, f))
     IN rfs_attach_flow(r, filter, f, s)
  /\ att' = [att EXCEPT ![t] = IdleAtt]
  /\ UNCHANGED <<gone, bufref, holders, chained, pend, dropped, rx>>

-----------------------------------------------------------------------------
(* Detaching. *)

\* The count of the group, and the rfs: no longer attached unless the count is
\* 0, when it takes the handle of the rule another rfs of the group created.
prepare_filter_detach(r, flt, f) ==
  IF ~Filtered(f) THEN [counter |-> 0, rfs |-> r]
  ELSE LET flow == flt[GroupOf[f]]
           out == [r EXCEPT !.attached = @ /\ flow.counter = 0]
       IN [counter |-> flow.counter,
           rfs |-> IF flow.counter = 0 /\ r.ibv = 0 THEN [out EXCEPT !.ibv = flow.ibv] ELSE out]

\* destroy_ibv_flow
destroy_ibv_flow(r) ==
  [hw |-> IF r.ibv = 0 THEN hw ELSE [hw EXCEPT ![r.ibv] = FsNone],
   rfs |-> [r EXCEPT !.attached = FALSE]]

\* rfs::detach_flow after the sink is gone: the last user destroys the rule.
rfs_detach_flow(r, flt, f) ==
  LET d == prepare_filter_detach(r, flt, f)
  IN IF r.sinks = <<>> /\ d.counter = 0 THEN destroy_ibv_flow(d.rfs)
     ELSE [hw |-> hw, rfs |-> d.rfs]

del_sink(sinks, s) == SelectSeq(sinks, LAMBDA x : x # s)

\* ring_simple::detach_flow, all of it under the ring lock.
detach_flow(s, f) ==
  /\ <<s, f>> \in joined /\ ~gone /\ \A t \in FsThreads : att[t].s # s
  /\ LET g == GroupOf[f]
         flt == IF Filtered(f) /\ filter[g].counter > 0
                THEN [filter EXCEPT ![g].counter = @ - 1] ELSE filter
         done == rfs_detach_flow([rfs[f] EXCEPT !.sinks = del_sink(@, s)], flt, f)
     IN /\ hw' = done.hw
        /\ filter' = IF Filtered(f) /\ flt[g].counter = 0
                     THEN [flt EXCEPT ![g] = NoFilter] ELSE flt
        /\ rfs' = [rfs EXCEPT ![f] = IF done.rfs.sinks = <<>> THEN NoRfs ELSE done.rfs]
  /\ joined' = joined \ {<<s, f>>}
  /\ upset' = IF Overlaps(f) THEN upset \cup {GroupOf[f]} ELSE upset
  /\ UNCHANGED <<att, tagged, gone, bufref, holders, chained, pend, dropped, fails, rx>>

\* The socket is deleted and its descriptor reused by a new socket.
ReuseFd(s) ==
  /\ s \in tagged
  /\ \A f \in FsFlows : <<s, f>> \notin joined
  /\ \A t \in FsThreads : att[t].s # s
  /\ tagged' = tagged \ {s}
  /\ UNCHANGED <<rfs, filter, hw, att, joined, gone, bufref, holders, chained, pend, dropped, upset, fails, rx>>

\* ~ring_simple: flow_udp_uc_del_all, flow_udp_mc_del_all, flow_tcp_del_all
\* delete what failed attaches left behind (no user is left by then).
flow_del_all ==
  /\ ~gone /\ joined = {} /\ \A t \in FsThreads : att[t] = IdleAtt
  /\ gone' = TRUE
  /\ LET owners == {f \in FsFlows : rfs[f].attached} IN
       /\ hw' = [h \in Handles |-> IF \E f \in owners : rfs[f].ibv = h THEN FsNone ELSE hw[h]]
       /\ rfs' = [f \in FsFlows |-> NoRfs]
  /\ UNCHANGED <<filter, att, joined, tagged, bufref, holders, chained, pend, dropped, upset, fails, rx>>

-----------------------------------------------------------------------------
(* Receiving.  A packet is its wire flow and the checks it passes.          *)

\* The rule the adapter matches: the 5-tuple rules have the higher priority.
Matching(f) == {h \in Handles : hw[h] # FsNone /\ hw[h].rule \in {f, Rule(f), Rule(Wild[f])}}
Matched(f) ==
  LET exact == {h \in Matching(f) : hw[h].rule = f}
  IN CHOOSE h \in Matching(f) : exact # {} => h \in exact

\* flow map lookup: TCP 5-tuple first, then 3-tuple.
Lookup(f) == IF rfs[f].live THEN f ELSE Wild[f]

\* A dispatched buffer: reset_ref_count, a reference per socket that keeps it,
\* and back to the completion queue when none does.
Keep(b, who) ==
  /\ holders' = [holders EXCEPT ![b] = who]
  /\ bufref' = [bufref EXCEPT ![b] = IF who = {} THEN FsNone ELSE Cardinality(who)]

\* check_rx_packet: the flow tag's socket alone, which keeps only packets of
\* flows it is attached to.
check_rx_packet(f, b, si, wants) ==
  Keep(b, IF si \in wants /\ (<<si, f>> \in joined \/ <<si, Wild[f]>> \in joined)
          THEN {si} ELSE {})

\* rfs_uc::rx_dispatch_packet: the first sink that keeps the packet;
\* rfs_mc::rx_dispatch_packet: every sink that does.
FirstOf(sinks, wants) ==
  LET keeps == {i \in 1..Len(sinks) : sinks[i] \in wants}
  IN {sinks[i] : i \in {j \in keeps : \A k \in keeps : j <= k}}
AllOf(sinks, wants) == {sinks[i] : i \in 1..Len(sinks)} \cap wants
rx_dispatch_packet(f, wants) ==
  IF KindOf[f] = "mc" THEN AllOf(rfs[f].sinks, wants) ELSE FirstOf(rfs[f].sinks, wants)

\* Delivered: the protocol switch, the checksums and the rfs of the packet.
Delivered(f, wants, csum) ==
  IF csum /\ rfs[Lookup(f)].live THEN rx_dispatch_packet(Lookup(f), wants) ELSE {}

\* rx_process_buffer of a whole packet: the fast path by tag, or the checks of
\* the transport and IP headers (hdr) and the lookup.
RxWhole(f, b, wants, hdr, csum) ==
  LET tag == hw[Matched(f)].tag
  IN /\ IF tag # FsNone /\ tag \in tagged
        THEN check_rx_packet(f, b, tag, wants)
        ELSE Keep(b, IF hdr THEN Delivered(f, wants, csum) ELSE {})
     /\ UNCHANGED <<chained, pend, dropped>>

\* ... and of the fragments of one datagram of flow f: the manager keeps the
\* first (pos: where the last one belongs); the last one completes the chain.
\* The return value speaks of the buffer just received only.
RxFragment(f, b, wants, csum, pos) ==
  IF pend = <<>>
  THEN /\ pend' = <<b>>
       /\ bufref' = [bufref EXCEPT ![b] = 0]
       /\ UNCHANGED <<holders, chained, dropped>>
  ELSE LET head == IF pos = "last" THEN Head(pend) ELSE b
           tail == IF pos = "last" THEN b ELSE Head(pend)
           who == Delivered(f, wants, csum)
           \* reclaimed: the received buffer and what follows it in the chain
           back == IF b = head THEN {head, tail} ELSE {b}
       IN /\ pend' = <<>>
          /\ IF who # {}
             THEN /\ bufref' = [bufref EXCEPT ![head] = Cardinality(who), ![tail] = 0]
                  /\ holders' = [holders EXCEPT ![head] = who]
                  /\ chained' = [chained EXCEPT ![head] = {tail}]
                  /\ UNCHANGED dropped
             ELSE /\ bufref' = [x \in RxBufs |-> IF x \in back THEN FsNone ELSE bufref[x]]
                  /\ dropped' = dropped \cup ({head, tail} \ back)
                  /\ UNCHANGED <<holders, chained>>

rx_process_buffer(f, b) ==
  /\ ~gone /\ rx < MaxRx /\ rx' = rx + 1
  /\ \A t \in FsThreads : att[t] = IdleAtt   \* half an attach changes nothing read here
  /\ bufref[b] = FsNone
  /\ KindOf[f] # "tcp3"
  /\ Matching(f) # {}
  /\ \E wants \in SUBSET {p[1] : p \in joined}, csum \in BOOLEAN :
       \/ \E hdr \in BOOLEAN : RxWhole(f, b, wants, hdr, csum)
       \/ /\ KindOf[f] \in {"uc", "mc"}
          /\ \E pos \in {"first", "last"} : RxFragment(f, b, wants, csum, pos)
  /\ UNCHANGED <<rfs, filter, hw, att, joined, tagged, gone, upset, fails>>

\* A socket is done with a buffer: the last reference returns the chain.
Release(b, s) ==
  /\ s \in holders[b]
  /\ holders' = [holders EXCEPT ![b] = @ \ {s}]
  /\ IF bufref[b] > 1
     THEN bufref' = [bufref EXCEPT ![b] = @ - 1] /\ UNCHANGED chained
     ELSE /\ bufref' = [x \in RxBufs |-> IF x = b \/ x \in chained[b] THEN FsNone ELSE bufref[x]]
          /\ chained' = [chained EXCEPT ![b] = {}]
  /\ UNCHANGED <<rfs, filter, hw, att, joined, tagged, gone, pend, dropped, upset, fails, rx>>

FsNext ==
  \/ \E t \in FsThreads, s \in FsSocks, f \in FsFlows : attach_flow(t, s, f)
  \/ \E t \in FsThreads : AttachNew(t)
  \/ \E s \in FsSocks, f \in FsFlows : detach_flow(s, f)
  \/ \E s \in FsSocks : ReuseFd(s)
  \/ flow_del_all
  \/ \E f \in FsFlows, b \in RxBufs : rx_process_buffer(f, b)
  \/ \E b \in RxBufs, s \in FsSocks : Release(b, s)

FsSpec == FsInit /\ [][FsNext]_fsVars

-----------------------------------------------------------------------------
FsTypeOK ==
  /\ \A f \in FsFlows : rfs[f].live \/ rfs[f] = NoRfs
  /\ \A g \in Filters : filter[g].counter \in Nat /\ filter[g].ibv \in {0} \cup Handles
  /\ joined \subseteq FsSocks \X FsFlows /\ tagged \subseteq FsSocks
  /\ \A b \in RxBufs : bufref[b] = FsNone \/ bufref[b] \in 0..Cardinality(FsSocks)

Steered(f) == \E h \in Handles : hw[h] # FsNone /\ hw[h].rule = Rule(f)
Calm(f) == GroupOf[f] \in upset => ~Filtered(f)

(* A socket whose attach succeeded has a rule in the adapter that brings it  *)
(* its packets (attach_flow returned true), and the adapter keeps no rule    *)
(* that nobody uses or is about to use: the last detach, of whichever socket *)
(* of a group, destroys the shared rule.  Two threads may be attaching flows *)
(* with rules of their own; of the flows that share a rule this holds until  *)
(* an attach is refused or overlaps another change of its group.             *)
RulesFollowSinks ==
  /\ \A p \in joined : Calm(p[2]) => Steered(p[2])
  /\ \A h \in Handles, f \in FsFlows :
       (hw[h] # FsNone /\ hw[h].rule = Rule(f) /\ Calm(f)) =>
         \E g \in FsFlows : Rule(g) = Rule(f)
                           /\ (SinksOf(g) # {} \/ \E t \in FsThreads : att[t].f = g)

(* A buffer the completion queue gave away is with a socket, in its chain, or *)
(* with the fragment manager - except the ones a reassembled datagram lost.   *)
BuffersReturn ==
  \A b \in RxBufs : bufref[b] # FsNone =>
    \/ bufref[b] = Cardinality(holders[b]) /\ holders[b] # {}
    \/ \E h \in RxBufs : b \in chained[h] /\ holders[h] # {}
    \/ \E i \in 1..Len(pend) : pend[i] = b
    \/ b \in dropped

-----------------------------------------------------------------------------
(***************************************************************************)
(* Generic receive offload of TCP flows (dev/rfs_uc_tcp_gro.cpp,           *)
(* dev/gro_mgr.cpp), driven by the receive poll of the completion queue    *)
(* (cq_mgr::poll_and_process_element_rx).                                  *)
(*                                                                         *)
(* Consecutive plain segments of a flow are chained behind the first one   *)
(* and handed to the socket as one segment with the last one's             *)
(* acknowledgement and window; anything else flushes the chain first.  A   *)
(* limited number of streams is reserved per poll; flush_all ends it.      *)
(***************************************************************************)


CONSTANTS
  GroFlows,    \* TCP flows with a 5-tuple rfs
  StreamMax,   \* gro_streams_max
  BufMax,      \* m_n_buf_max: segments in a chain
  PollBatch,   \* cq_poll_batch_max
  MaxSegs,     \* bound on the segments that arrive
  MaxSeq       \* bound on the sequence numbers

VARIABLES
  cq,          \* completions not polled yet
  gro,         \* per flow: m_b_active, m_b_reserved and the chain
  streams,     \* m_p_rfs_arr
  taken,       \* per flow: the segments handed to its rfs, in order
  up,          \* per flow: what its socket was given
  arrived

groVars == <<cq, gro, streams, taken, up, arrived>>

\* A segment: its flow, sequence number, whether it is plain data (no options
\* but a timestamp, only ACK set, not empty), and its place in the arrival
\* order, which stands for its acknowledgement and window.
Segment(f, seq, plain) == [f |-> f, seq |-> seq, plain |-> plain, ack |-> arrived + 1]

GroInit ==
  /\ cq = <<>> /\ streams = <<>> /\ arrived = 0
  /\ gro = [f \in GroFlows |-> [active |-> FALSE, reserved |-> FALSE, chain |-> <<>>]]
  /\ taken = [f \in GroFlows |-> <<>>]
  /\ up = [f \in GroFlows |-> <<>>]

Arrives ==
  /\ arrived < MaxSegs
  /\ \E f \in GroFlows, seq \in 1..MaxSeq, plain \in BOOLEAN : cq' = Append(cq, Segment(f, seq, plain))
  /\ arrived' = arrived + 1
  /\ UNCHANGED <<gro, streams, taken, up>>

-----------------------------------------------------------------------------
(* The steps of one poll transform a record of the variables they touch.    *)

State == [gro |-> gro, streams |-> streams, taken |-> taken, up |-> up]

tcp_ip_check(seg) == seg.plain
is_stream_max(x) == Len(x.streams) >= StreamMax
reserve_stream(x, f) ==
  IF is_stream_max(x) THEN x
  ELSE [x EXCEPT !.streams = Append(@, f), !.gro[f].reserved = TRUE]

\* rfs_uc::gro_dispatch_packet of a chain: one segment to the socket.
GiveUp(x, f, chain, ack) ==
  [x EXCEPT !.up[f] = Append(@, [data |-> chain, ack |-> ack])]

flush_gro_desc(x, f) ==
  IF ~x.gro[f].active THEN x
  ELSE [GiveUp(x, f, x.gro[f].chain, Last(x.gro[f].chain).ack)
          EXCEPT !.gro[f].active = FALSE, !.gro[f].chain = <<>>]

init_gro_desc(x, seg) == [x EXCEPT !.gro[seg.f].active = TRUE, !.gro[seg.f].chain = <<seg>>]
add_packet(x, seg) == [x EXCEPT !.gro[seg.f].chain = Append(@, seg)]
next_seq(x, f) == Last(x.gro[f].chain).seq + 1

\* rfs_uc_tcp_gro::gro_dispatch_packet
gro_dispatch_packet(x0, seg) ==
  LET f == seg.f
      x == [x0 EXCEPT !.taken[f] = Append(@, seg)]
      out(y) == GiveUp(y, f, <<seg>>, seg.ack)
      full(y) == IF Len(y.gro[f].chain) >= BufMax THEN flush_gro_desc(y, f) ELSE y
  IN IF ~x.gro[f].active
     THEN IF (~x.gro[f].reserved /\ is_stream_max(x)) \/ ~tcp_ip_check(seg) THEN out(x)
          ELSE full(init_gro_desc(IF x.gro[f].reserved THEN x ELSE reserve_stream(x, f), seg))
     ELSE IF ~tcp_ip_check(seg) \/ seg.seq # next_seq(x, f) THEN out(flush_gro_desc(x, f))
          ELSE full(add_packet(x, seg))

\* gro_mgr::flush_all: flush every reserved stream and release it.
flush_all(x) ==
  LET flush(y, f) == [flush_gro_desc(y, f) EXCEPT !.gro[f].reserved = FALSE]
  IN [FoldLeft(flush, x, x.streams) EXCEPT !.streams = <<>>]

Process(x, segs) == FoldLeft(gro_dispatch_packet, x, segs)

\* poll_and_process_element_rx: a batch of completions, each taken by its rfs
\* unless its buffer goes straight back to the QP (compensate_qp_poll_success
\* with no spare buffer); then the flush.
poll_and_process_element_rx ==
  \E n \in 1..PollBatch : \E reposted \in SUBSET (1..n) :
    LET polled == SubSeq(cq, 1, n)
        kept == SelectSeq(polled, LAMBDA s : \A i \in reposted : cq[i] # s)
        after == flush_all(Process(State, kept))
    IN /\ n <= Len(cq)
       /\ gro' = after.gro /\ streams' = after.streams /\ taken' = after.taken /\ up' = after.up
       /\ cq' = SubSeq(cq, n + 1, Len(cq))
       /\ UNCHANGED arrived

GroNext == Arrives \/ poll_and_process_element_rx
GroSpec == GroInit /\ [][GroNext]_groVars

-----------------------------------------------------------------------------
GroTypeOK ==
  /\ \A f \in GroFlows : gro[f].active = (gro[f].chain # <<>>)
  /\ Len(streams) <= StreamMax /\ arrived \in 0..MaxSegs

(* Offloading is transparent: what a socket was given is exactly what its rfs *)
(* took for the flow, in order; every chain is consecutive, no longer than    *)
(* the limit, and carries the acknowledgement of its last segment; and a poll *)
(* leaves nothing in a stream, however many streams were free.                *)
GroTransparent ==
  \A f \in GroFlows :
    /\ FlattenSeq([i \in 1..Len(up[f]) |-> up[f][i].data]) = taken[f]
    /\ ~gro[f].active
    /\ \A i \in 1..Len(up[f]) :
         LET d == up[f][i].data IN
         /\ up[f][i].ack = Last(d).ack /\ Len(d) <= BufMax
         /\ \A j \in 2..Len(d) : d[j].seq = d[j-1].seq + 1 /\ d[j].plain /\ d[j-1].plain
=============================================================================
