----------------------------- MODULE RouteTable -----------------------------
(***************************************************************************)
(* Routes and rules: the tables read from the kernel through netlink       *)
(* (netlink_socket_mgr, rule_table_mgr, route_table_mgr), the sources the  *)
(* library works out for routes that have none, the lookup of a            *)
(* destination and the "new route" events of netlink_wrapper.              *)
(*                                                                         *)
(* An address is a number below 2^Width, 0 is INADDR_ANY, a mask is the    *)
(* length of its prefix.                                                   *)
(***************************************************************************)
EXTENDS Naturals, Sequences, FiniteSets

CONSTANTS
  Width,        \* bits of an address
  TableIds,     \* values of an unsigned char
  LocalTable,   \* RT_TABLE_LOCAL
  Dumps,        \* route tables the kernel may report at the start
  RuleDumps,    \* rule tables, in the order of their priorities
  NewRoutes,    \* routes that may be added later
  RtDevs,       \* the offloaded devices of an interface: sequence of [addr, len]
  IfAddr,       \* the address ioctl gives for an interface, 0: none
  MaxTable,     \* MAX_TABLE_SIZE
  RtKeys,       \* [dst, src, tos] that are looked up
  MaxRtEvents,
  MaxEnts       \* bound on the cached entries

VARIABLES
  rules,        \* rule_table_mgr::m_tab
  tab,          \* route_table_mgr::m_tab
  reported,     \* every route the kernel reported, in order
  loaded,       \* number of routes read at the start
  ents,         \* the cached route entries: key -> index of its route, 0: not valid
  rtEvents

rtVars == <<rules, tab, reported, loaded, ents, rtEvents>>

Mask(a, len) == a - (a % 2^(Width - len))
Narrow(id) == id % TableIds              \* conversion to unsigned char

-----------------------------------------------------------------------------
\* parse_enrty: routes of the local table and of other families are skipped.
parse_enrty(m) == m.tid # LocalTable /\ m.inet
Routes(msgs) == SelectSeq(msgs, parse_enrty)

\* find_route_val: the first of the routes with the longest prefix (0: none).
RECURSIVE FindFrom(_, _, _, _, _)
FindFrom(t, dst, id, i, best) ==
  IF i > Len(t) THEN best
  ELSE LET hit == /\ t[i].tid = id
                  /\ t[i].dst = Mask(dst, t[i].len)
                  /\ \/ best = 0
                     \/ t[i].len > t[IF best = 0 THEN i ELSE best].len
       IN FindFrom(t, dst, id, i + 1, IF hit THEN i ELSE best)
find_route_val(t, dst, id) == FindFrom(t, dst, id, 1, 0)

-----------------------------------------------------------------------------
(* rt_mgr_update_source_ip                                                  *)

\* The address of the device of the interface that shares the longest prefix
\* with the destination.
DevSource(r) ==
  LET D == RtDevs[r.ifx]
      M == {i \in 1..Len(D) : D[i].len > 0 /\ Mask(r.dst, D[i].len) = Mask(D[i].addr, D[i].len)}
  IN IF M = {} THEN 0
     ELSE D[CHOOSE i \in M : \A j \in M : D[j].len < D[i].len \/ (D[j].len = D[i].len /\ i <= j)].addr
OwnAddress(r) == \E i \in 1..Len(RtDevs[r.ifx]) : RtDevs[r.ifx][i].addr = r.gw

\* Routes without a source and a gateway.
FirstSource(r) ==
  IF r.src # 0 \/ r.gw # 0 THEN r
  ELSE [r EXCEPT !.src = IF DevSource(r) # 0 THEN DevSource(r) ELSE IfAddr[r.ifx]]

\* A route with a gateway takes the source of the route to the gateway.
GwSource(t, i) ==
  LET r == t[i]
      j == find_route_val(t, r.gw, Narrow(r.tid))
      s == IF j = 0 THEN 0 ELSE IF t[j].src # 0 THEN t[j].src
           ELSE IF j = i /\ OwnAddress(r) THEN r.gw ELSE 0
  IN IF r.gw = 0 \/ r.src # 0 THEN t
     ELSE [t EXCEPT ![i].src = s, ![i].gw = IF s = r.gw THEN 0 ELSE @]
RECURSIVE GwPass(_, _)
GwPass(t, i) == IF i > Len(t) THEN t ELSE GwPass(GwSource(t, i), i + 1)
Unresolved(t) == Cardinality({i \in 1..Len(t) : t[i].gw # 0 /\ t[i].src = 0})

\* The passes go on while they resolve something.
RECURSIVE GwPasses(_, _)
GwPasses(t, prev) ==
  LET t2 == GwPass(t, 1)
  IN IF Unresolved(t2) > 0 /\ prev > Unresolved(t2) THEN GwPasses(t2, Unresolved(t2)) ELSE t2

LastSource(r) == IF r.src # 0 THEN r ELSE [r EXCEPT !.src = IfAddr[r.ifx]]

rt_mgr_update_source_ip(t) ==
  LET t1 == [i \in 1..Len(t) |-> FirstSource(t[i])]
      t2 == GwPasses(t1, Len(t1))
  IN [i \in 1..Len(t) |-> LastSource(t2[i])]

\* query and recv_info: a request that fails, or whose reply does not fit the
\* buffer, gives nothing.
query(msgs, ok) == IF ok THEN msgs ELSE <<>>

\* update_tbl: parse at most MAX_TABLE_SIZE entries, then find the sources.
update_tbl(msgs) ==
  LET r == Routes(msgs)
  IN rt_mgr_update_source_ip(SubSeq(r, 1, IF Len(r) > MaxTable THEN MaxTable ELSE Len(r)))

-----------------------------------------------------------------------------
(* Rules.                                                                   *)

is_matching_rule(key, r) ==
  /\ r.dst \in {0, key.dst} /\ r.src \in {0, key.src} /\ r.tos \in {0, key.tos}
  /\ ~r.iface                            \* a rule with an interface is never taken

find_rule_val(key) ==
  LET match(r) == is_matching_rule(key, r) IN SelectSeq(rules, match)

rule_resolve(key) == [i \in 1..Len(find_rule_val(key)) |-> Narrow(find_rule_val(key)[i].tid)]

\* route_resolve, update_entry: the tables of the matching rules in turn.
RECURSIVE InTables(_, _)
InTables(dst, ids) ==
  IF ids = <<>> THEN 0
  ELSE LET i == find_route_val(tab, dst, Head(ids)) IN IF i # 0 THEN i ELSE InTables(dst, Tail(ids))
route_resolve(key) == InTables(key.dst, rule_resolve(key))

-----------------------------------------------------------------------------
RtInit ==
  /\ rules \in RuleDumps
  /\ \E d \in Dumps, ok \in BOOLEAN : reported = query(d, ok)
  /\ tab = update_tbl(reported)
  /\ loaded = Len(tab)
  /\ ents = [k \in {} |-> 0]
  /\ rtEvents = 0

\* create_new_entry through cache_table_mgr::register_observer: an entry keeps
\* the route it found; one that found none stays invalid.
create_new_entry(k) ==
  /\ k \notin DOMAIN ents /\ Cardinality(DOMAIN ents) < MaxEnts
  /\ ents' = [x \in DOMAIN ents \cup {k} |-> IF x = k THEN route_resolve(k) ELSE ents[x]]
  /\ UNCHANGED <<rules, tab, reported, loaded, rtEvents>>

\* The last destination of a key leaves: the entry is deleted.
unregister_observer(k) ==
  /\ k \in DOMAIN ents
  /\ ents' = [x \in DOMAIN ents \ {k} |-> ents[x]]
  /\ UNCHANGED <<rules, tab, reported, loaded, rtEvents>>

\* route_cache_callback: events of the local table and of other families are
\* not passed on.
route_cache_callback(r) == r.tid > 0 /\ r.tid # LocalTable /\ r.inet

\* new_route_event: the route is appended as it is.
new_route_event(r) ==
  /\ rtEvents < MaxRtEvents
  /\ rtEvents' = rtEvents + 1
  /\ reported' = Append(reported, r)
  /\ tab' = IF route_cache_callback(r) /\ Len(tab) < MaxTable THEN Append(tab, r) ELSE tab
  /\ UNCHANGED <<rules, loaded, ents>>

RtNext ==
  \/ \E k \in RtKeys : create_new_entry(k) \/ unregister_observer(k)
  \/ \E r \in NewRoutes : new_route_event(r)

RtSpec == RtInit /\ [][RtNext]_rtVars

-----------------------------------------------------------------------------
RtTypeOK ==
  /\ Len(tab) <= MaxTable /\ loaded <= Len(tab)
  /\ \A k \in DOMAIN ents : ents[k] \in 0..Len(tab)
  /\ \A i \in 1..Len(tab) : tab[i].src \in 0..(2^Width - 1) /\ tab[i].gw \in 0..(2^Width - 1)

\* The kernel's answer for a key: the first matching rule whose table holds a
\* route to the destination, the longest prefix there, the earliest of equals.
KernelRoutes(key, id) ==
  {i \in 1..Len(Routes(reported)) :
     LET r == Routes(reported)[i] IN r.tid = id /\ r.dst = Mask(key.dst, r.len)}
KernelRoute(key) ==
  LET R == find_rule_val(key)
      able == {n \in 1..Len(R) : KernelRoutes(key, R[n].tid) # {}}
  IN IF able = {} THEN 0
     ELSE LET C == KernelRoutes(key, R[CHOOSE n \in able : \A m \in able : n <= m].tid)
              longer(i, j) == Routes(reported)[i].len > Routes(reported)[j].len
          IN CHOOSE i \in C : \A j \in C : i = j \/ longer(i, j) \/ (~longer(j, i) /\ i < j)

(* While the tables' numbers fit a byte and the library's table is not full, *)
(* find_route_val and the rules give a destination the route the kernel      *)
(* would, also after routes were added by events; a cached entry's pointer   *)
(* into the table stays on a route to its destination.                       *)
LookupIsKernel ==
  Len(Routes(reported)) <= MaxTable /\ (\A i \in 1..Len(rules) : rules[i].tid < TableIds) =>
    /\ \A k \in RtKeys : route_resolve(k) = KernelRoute(k)
    /\ \A k \in DOMAIN ents : ents[k] # 0 => tab[ents[k]].dst = Mask(k.dst, tab[ents[k]].len)

\* The source that following the gateways from route i leads to (0: none).
RECURSIVE Follow(_, _, _)
Follow(t, i, n) ==
  LET r == t[i]
      j == find_route_val(t, r.gw, Narrow(r.tid))
  IN IF FirstSource(r).src # 0 THEN FirstSource(r).src
     ELSE IF r.gw = 0 \/ j = 0 \/ n = 0 THEN 0
     ELSE IF j = i THEN (IF OwnAddress(r) THEN r.gw ELSE 0)
     ELSE Follow(t, j, n - 1)

(* rt_mgr_update_source_ip finds, whatever the order of the table, the source *)
(* that the chain of gateways of a route ends in, and asks the interface only *)
(* when the chain ends nowhere; a gateway that is the route's own source is   *)
(* dropped.                                                                   *)
SourcesFollowGateways ==
  LET t == Routes(reported) IN
  \A i \in 1..loaded :
    LET s == Follow(SubSeq(t, 1, loaded), i, loaded)
    IN /\ tab[i].src = IF s # 0 THEN s ELSE IfAddr[t[i].ifx]
       /\ (t[i].src = 0 /\ s # 0) => tab[i].gw = (IF s = t[i].gw THEN 0 ELSE t[i].gw)

=============================================================================
