------------------------------ MODULE IpInput -------------------------------
(***************************************************************************)
(* Large datagrams: dst_entry_udp cuts them into ip fragments, the network *)
(* reorders, loses and duplicates the fragments, and ip_frag_manager puts  *)
(* them together with the hole list of RFC 815.                            *)
(***************************************************************************)
EXTENDS Integers, Sequences, FiniteSets, FiniteSetsExt

CONSTANTS
  UdpSizes,     \* sizes of udp payloads (header included)
  MaxIpPayload, \* m_max_ip_payload_size, a multiple of FragUnit
  FragUnit,     \* granularity of fragment offsets (8)
  Inf,          \* IP_FRAG_INF
  MaxHoles,     \* IP_FRAG_MAX_HOLES
  MaxDescs,     \* IP_FRAG_MAX_DESC
  FragSpace,    \* IP_FRAG_SPACE
  MaxDatagrams, \* bound: datagrams sent; ip ids do not wrap
  MaxFaults     \* bound: losses and duplications

VARIABLES
  net,          \* fragments in flight
  sent,         \* sizes of the datagrams sent
  descs,        \* m_frags: by ip id
  holesFree,    \* hole_free_list_count
  counter,      \* m_frag_counter
  returned,     \* m_return_descs: buffers of expired datagrams
  dropped,      \* buffers of fragments that add_frag refused
  assembled,    \* datagrams handed up
  faults

fragVars == <<net, sent, descs, holesFree, counter, returned, dropped, assembled, faults>>

Null == [id |-> -1]

-----------------------------------------------------------------------------
(* fast_send_fragmented: the fragments of a datagram.                      *)
Chop(id, size, n) ==
  LET count == (size + MaxIpPayload - 1) \div MaxIpPayload
      off == (n - 1) * MaxIpPayload
      len == IF size - off < MaxIpPayload THEN size - off ELSE MaxIpPayload
  IN [id |-> id, off |-> ((off \div FragUnit) % ((Inf + 1) \div FragUnit)) * FragUnit, len |-> len, more |-> n < count]

fast_send_fragmented(id, size) ==
  {Chop(id, size, n) : n \in 1..((size + MaxIpPayload - 1) \div MaxIpPayload)}

Sends(size) ==
  /\ Len(sent) < MaxDatagrams /\ sent' = Append(sent, size)
  /\ net' = net \cup fast_send_fragmented(Len(sent) + 1, size)
  /\ UNCHANGED <<descs, holesFree, counter, returned, dropped, assembled, faults>>

Loses(f) ==
  /\ faults < MaxFaults /\ faults' = faults + 1 /\ net' = net \ {f}
  /\ UNCHANGED <<sent, descs, holesFree, counter, returned, dropped, assembled>>

-----------------------------------------------------------------------------
(* free_frag: the chain of an expired datagram waits to be returned.       *)
RECURSIVE ChainFrom(_, _)
ChainFrom(desc, f) ==
  IF f = Null THEN <<>> ELSE <<f>> \o ChainFrom(desc, IF f \in DOMAIN desc.next THEN desc.next[f] ELSE Null)

(* new_frag_desc: one hole for everything.                                 *)
new_frag_desc == [holes |-> <<[first |-> 0, last |-> Inf, before |-> Null, after |-> Null]>>,
                  head |-> Null, next |-> <<>>, at |-> counter + 1]

(* alloc_hole_desc and alloc_frag_desc, from lists of fixed size.          *)
CanAllocate(table, room) == room >= 0 /\ Cardinality(DOMAIN table) < MaxDescs

(* The table after the expiry of add_frag: a datagram that has waited for  *)
(* too many fragments is discarded when its next one comes.                *)
Expires(id) == id \in DOMAIN descs /\ counter + 1 - descs[id].at > FragSpace

Put(f, x, v) == [y \in DOMAIN f \cup {x} |-> IF y = x THEN v ELSE f[y]]
Remove(f, x) == [y \in DOMAIN f \ {x} |-> f[y]]


(* Steps 4 to 7 of add_frag: hole i is replaced by what the fragment       *)
(* leaves of it, if there are hole descriptors (room) for that, and the    *)
(* fragment is linked between the hole's neighbours.                       *)
FillHole(desc, frag, i, room) ==
  LET h == desc.holes[i]
      last == (frag.off + frag.len - 1) % (Inf + 1)
      needLeft == frag.off > h.first
      needRight == last < h.last /\ frag.more
      left == IF needLeft /\ room > 0 THEN <<[first |-> h.first, last |-> frag.off - 1, before |-> h.before, after |-> frag]>> ELSE <<>>
      right == IF needRight /\ (needLeft => room > 1) /\ room > 0
               THEN <<[first |-> last + 1, last |-> h.last, before |-> frag, after |-> h.after]>> ELSE <<>>
      cut == [desc EXCEPT !.holes = SubSeq(@, 1, i - 1) \o left \o right \o SubSeq(@, i + 1, Len(@))]
      ok == (needLeft => left # <<>>) /\ (needRight => right # <<>>)
  IN [ok |-> ok,
      desc |-> IF ~ok THEN cut
               ELSE [cut EXCEPT !.head = IF h.before = Null THEN frag ELSE @,
                                !.next = Put(IF h.before = Null THEN @ ELSE Put(@, h.before, frag), frag, h.after)]]

(* add_frag; a duplicated fragment stays in flight.                        *)
add_frag(f, dup) ==
  LET old == f.id \in DOMAIN descs /\ ~Expires(f.id)
      gone == IF Expires(f.id) THEN descs[f.id] ELSE [holes |-> <<>>, head |-> Null, next |-> <<>>]
      table == IF Expires(f.id) THEN Remove(descs, f.id) ELSE descs
      room == holesFree + Len(gone.holes) - (IF old THEN 0 ELSE 1)
      desc == IF old THEN descs[f.id] ELSE new_frag_desc
      last == (f.off + f.len - 1) % (Inf + 1)
      fits == {i \in DOMAIN desc.holes : f.off >= desc.holes[i].first /\ last <= desc.holes[i].last}
      hole == CHOOSE i \in fits : \A j \in fits : i <= j
      r == FillHole(desc, f, hole, room)
      done == r.ok /\ r.desc.holes = <<>>
      after == IF fits = {} THEN desc ELSE r.desc
  IN /\ f \in net
     /\ IF dup THEN faults < MaxFaults /\ faults' = faults + 1 /\ UNCHANGED net ELSE net' = net \ {f} /\ UNCHANGED faults
     /\ counter' = counter + 1
     /\ returned' = returned + Len(ChainFrom(gone, gone.head))
     /\ IF ~old /\ ~CanAllocate(table, room)
        THEN descs' = table /\ holesFree' = holesFree + Len(gone.holes) /\ dropped' = dropped + 1 /\ UNCHANGED assembled
        ELSE /\ dropped' = IF fits = {} \/ ~r.ok THEN dropped + 1 ELSE dropped
             /\ assembled' = IF fits # {} /\ done THEN Append(assembled, ChainFrom(r.desc, r.desc.head)) ELSE assembled
             /\ descs' = IF fits # {} /\ done THEN Remove(table, f.id) ELSE Put(table, f.id, after)
             /\ holesFree' = room + Len(desc.holes) - Len(after.holes)
     /\ UNCHANGED sent

FragInit ==
  /\ net = {} /\ sent = <<>> /\ descs = <<>> /\ holesFree = MaxHoles /\ counter = 0
  /\ returned = 0 /\ dropped = 0 /\ assembled = <<>> /\ faults = 0

FragNext ==
  \/ \E s \in UdpSizes : Sends(s)
  \/ \E f \in net : Loses(f) \/ \E dup \in BOOLEAN : add_frag(f, dup)

FragSpec == FragInit /\ [][FragNext]_fragVars

-----------------------------------------------------------------------------
FragTypeOK == holesFree \in 0..MaxHoles /\ \A i \in DOMAIN descs : i \in DOMAIN sent

(* What is handed up is one whole datagram: its fragments, linked in       *)
(* order, cover it from the first byte to the last without gap or overlap. *)
AssembledIsWhole ==
  \A k \in DOMAIN assembled :
    LET c == assembled[k] IN
    /\ c # <<>> /\ c[1].off = 0 /\ \A i \in DOMAIN c : c[i].id = c[1].id /\ c[i].more = (i < Len(c))
    /\ \A i \in 1..(Len(c) - 1) : c[i + 1].off = c[i].off + c[i].len
    /\ c[Len(c)].off + c[Len(c)].len = sent[c[1].id]

(* Hole descriptors are neither lost nor freed twice.                      *)
HolesAccounted == holesFree + MapThenSumSet(LAMBDA i : Len(descs[i].holes), DOMAIN descs) = MaxHoles

(* A datagram none of whose fragments was lost or expired is handed up     *)
(* once they have all come.                                                *)
WholeIsAssembled ==
  \A i \in DOMAIN sent :
    (net = {} /\ faults = 0 /\ returned = 0 /\ Len(sent) <= MaxDescs) => \E k \in DOMAIN assembled : assembled[k][1].id = i

-----------------------------------------------------------------------------
(***************************************************************************)
(* igmp_mgr and igmp_handler: a query for a multicast group seen on an     *)
(* InfiniBand interface is answered with a report after a random delay,    *)
(* unless another host's report is seen first.  Queries and reports come   *)
(* from the threads that poll rings, the timer runs in the internal        *)
(* thread; m_timer_handle and m_ignore_timer are shared, and only the      *)
(* registration is locked.                                                 *)
(***************************************************************************)


CONSTANTS RxThreads, \* threads that poll rings
          Delays,    \* what rand() % (m_igmp_code * 100) may be: {0}, {1} or both
          MaxQueries \* Bound: packets processed

VARIABLES handler,  \* is there an igmp_handler for the group?
          ignore,   \* m_ignore_timer
          handle,   \* m_timer_handle is not NULL
          timers,   \* one-shot timers registered: how many of each delay
          qpc,      \* what each polling thread is about to do
          hpc,      \* what the internal thread is about to do in handle_timer_expired
          lockI,    \* the handler's lock is held by this thread, or "none"
          answered, \* the last query was followed by a report, own or foreign
          queries

igmpVars == <<handler, ignore, handle, timers, qpc, hpc, lockI, answered, queries>>

IgmpInit == /\ handler = FALSE /\ ignore = FALSE /\ handle = FALSE
            /\ timers = [d \in Delays |-> 0]
            /\ qpc = [t \in RxThreads |-> "idle"] /\ hpc = "idle" /\ lockI = "none"
            /\ answered = TRUE /\ queries = 0

---------------------------------------------------------------------------
\* The handler of the group: found, or created and initialised (which may fail).
get_igmp_handler(ok) == handler \/ ok

process_igmp_packet(t) ==
    /\ qpc[t] = "idle" /\ queries < MaxQueries /\ queries' = queries + 1
    /\ \E ok \in BOOLEAN, type \in {"query", "report", "other"} :
          /\ handler' = get_igmp_handler(ok)
          /\ qpc' = [qpc EXCEPT ![t] = IF ~handler' \/ type = "other" THEN "idle" ELSE type]
    /\ UNCHANGED <<ignore, handle, timers, hpc, lockI, answered>>

handle_report(t) ==
    /\ qpc[t] = "report" /\ ignore' = TRUE /\ answered' = TRUE
    /\ qpc' = [qpc EXCEPT ![t] = "idle"]
    /\ UNCHANGED <<handler, handle, timers, hpc, lockI, queries>>

handle_query(t) ==
    /\ qpc[t] = "query" /\ ignore' = FALSE /\ answered' = FALSE
    /\ qpc' = [qpc EXCEPT ![t] = "register"]
    /\ UNCHANGED <<handler, handle, timers, hpc, lockI, queries>>

\* priv_register_timer_event: under the lock, unless there is a timer.
Register(who) ==
    /\ lockI = "none"
    /\ IF handle THEN UNCHANGED <<timers, lockI>>
       ELSE /\ \E d \in Delays : timers' = [timers EXCEPT ![d] = @ + 1]
            /\ lockI' = who

\* The handle that register_timer_event returned is stored, and the lock released.
Store(who) == lockI = who /\ handle' = TRUE /\ lockI' = "none"

QueryRegister(t) ==
    /\ qpc[t] = "register" /\ Register(t)
    /\ qpc' = [qpc EXCEPT ![t] = IF lockI' = t THEN "store" ELSE "idle"]
    /\ UNCHANGED <<handler, ignore, handle, hpc, answered, queries>>

QueryStore(t) ==
    /\ qpc[t] = "store" /\ Store(t)
    /\ qpc' = [qpc EXCEPT ![t] = "idle"]
    /\ UNCHANGED <<handler, ignore, timers, hpc, answered, queries>>

\* A timer with a delay runs out only after the thread that registered it
\* has stored the handle.
TimerFires ==
    /\ hpc = "idle"
    /\ \E d \in Delays :
          /\ timers[d] > 0 /\ (d > 0 => lockI = "none")
          /\ timers' = [timers EXCEPT ![d] = @ - 1]
    /\ hpc' = "clear"
    /\ UNCHANGED <<handler, ignore, handle, qpc, lockI, answered, queries>>

ExpiredClear ==
    /\ hpc = "clear" /\ handle' = FALSE /\ hpc' = "check"
    /\ UNCHANGED <<handler, ignore, timers, qpc, lockI, answered, queries>>

ExpiredCheck ==
    /\ hpc = "check" /\ hpc' = IF ignore THEN "idle" ELSE "send"
    /\ UNCHANGED <<handler, ignore, handle, timers, qpc, lockI, answered, queries>>

\* tx_igmp_report fails without a valid neighbour or a buffer.
tx_igmp_report ==
    /\ hpc = "send"
    /\ \/ hpc' = "idle" /\ answered' = TRUE
       \/ hpc' = "register" /\ UNCHANGED answered
    /\ UNCHANGED <<handler, ignore, handle, timers, qpc, lockI, queries>>

ExpiredRegister ==
    /\ hpc = "register" /\ Register("internal")
    /\ hpc' = IF lockI' = "internal" THEN "store" ELSE "idle"
    /\ UNCHANGED <<handler, ignore, handle, qpc, answered, queries>>

ExpiredStore ==
    /\ hpc = "store" /\ Store("internal") /\ hpc' = "idle"
    /\ UNCHANGED <<handler, ignore, timers, qpc, answered, queries>>

handle_timer_expired == ExpiredClear \/ ExpiredCheck \/ tx_igmp_report \/ ExpiredRegister \/ ExpiredStore

IgmpNext == \/ \E t \in RxThreads : \/ process_igmp_packet(t) \/ handle_report(t) \/ handle_query(t)
                                    \/ QueryRegister(t) \/ QueryStore(t)
            \/ TimerFires \/ handle_timer_expired

IgmpSpec == IgmpInit /\ [][IgmpNext]_igmpVars

---------------------------------------------------------------------------
(* What the threads are doing and who holds the lock.                      *)
IgmpTypeOK ==
    /\ timers \in [Delays -> 0..MaxQueries]
    /\ lockI \in RxThreads \cup {"none", "internal"}
    /\ qpc \in [RxThreads -> {"idle", "query", "report", "register", "store"}]
    /\ hpc \in {"idle", "clear", "check", "send", "register", "store"}

Resting == hpc = "idle" /\ \A t \in RxThreads : qpc[t] = "idle"

(* At most one timer runs for a group, however queries, reports and the    *)
(* timer's own retry interleave; and a query that no report followed has a *)
(* timer that will send one, at rest or not ("will register timer and      *)
(* later do 'tx_igmp_report'").                                            *)
ReportIsDue ==
    /\ \A d \in Delays : timers[d] <= 1
    /\ Cardinality({d \in Delays : timers[d] > 0}) <= 1
    /\ Resting /\ ~answered => (\E d \in Delays : timers[d] > 0)
=============================================================================
