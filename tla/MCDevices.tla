----------------------------- MODULE MCDevices ------------------------------
(***************************************************************************)
(* Instances for TLC of the devices, of the way of a packet through them   *)
(* and of the choice of that way.  A behaviour explores one of them, the   *)
(* subject:                                                                *)
(*   nd        the rings of a device, their users and the slaves;          *)
(*   table     the interfaces of a host, and which of them VMA uses;       *)
(*   bond      a bonding ring with three slaves, a sender and a restart;   *)
(*   dst       a destination between a sender, routes and neighbours;      *)
(*   steering  flows, rules and sockets of a ring, by two threads;         *)
(*   receive   the same with fewer flows and two packets;                  *)
(*   gro       the aggregation of TCP segments;                            *)
(*   route     routing tables and rules;                                   *)
(*   frag      fragments of two datagrams, lost, doubled and reordered;    *)
(*   igmp      an answer to IGMP queries.                                  *)
(***************************************************************************)
EXTENDS NetDevice, DstEntry, FlowSteering, TLC

VARIABLES
  subject,
  rules, tab, reported, loaded, ents, rtEvents,
  net, sent, descs, holesFree, counter, returned, inputDropped, assembled, faults,
  handler, ignore, handle, timers, qpc, hpc, lockI, answered, queries

routeVars == <<rules, tab, reported, loaded, ents, rtEvents>>
fragVars == <<net, sent, descs, holesFree, counter, returned, inputDropped, assembled, faults>>
igmpVars == <<handler, ignore, handle, timers, qpc, hpc, lockI, answered, queries>>

Symmetry == {a @@ b @@ c : a \in Permutations(FsThreads), b \in Permutations(FsSocks), c \in Permutations(RxBufs)}

MCRingKeys == {[prof |-> 0, id |-> 0], [prof |-> 0, id |-> 1]}

(* Interfaces: single ports, a bond over a VLAN, InfiniBand, a Hyper-V     *)
(* pair and a LAG; the name eth10 contains the name eth1.                  *)
Interface(n, k, t, lo, a) ==
  [name |-> n, inet |-> TRUE, slave |-> FALSE, kind |-> k, type |-> t, lower |-> lo, active |-> a,
   vlan |-> FALSE, mac1 |-> FALSE, running |-> TRUE]
MCIfList ==
  <<Interface("eth1", "single", "eth", {}, "eth1"),
    [Interface("eth2", "single", "eth", {}, "eth2") EXCEPT !.slave = TRUE],
    [Interface("bond0.5", "active_backup", "eth", {"eth2", "eth3"}, "eth2") EXCEPT !.vlan = TRUE],
    Interface("ib0", "single", "ib", {}, "ib0"), Interface("hv", "netvsc", "eth", {"vf"}, "vf"),
    Interface("bond1", "lag", "eth", {"eth1", "eth10"}, "")>>
MCNameIn == {<<x, x>> : x \in {"eth1", "eth2", "eth3", "eth10"}} \cup {<<"eth10", "eth1">>}

(* Two multicast flows of one group, a listening and a connected TCP flow. *)
MCKindOf == "m1" :> "mc" @@ "m2" :> "mc" @@ "l" :> "tcp3" @@ "c" :> "tcp5"
MCWild == "m1" :> "m1" @@ "m2" :> "m2" @@ "l" :> "l" @@ "c" :> "l"
MCGroupOf == "m1" :> "g" @@ "m2" :> "g" @@ "l" :> FsNone @@ "c" :> FsNone

(* Tables: routes that overlap, through gateways that other routes reach.  *)
RouteTo(dst, len, src, gw, ifx, tid) ==
  [dst |-> dst, len |-> len, src |-> src, gw |-> gw, ifx |-> ifx, tid |-> tid, inet |-> TRUE]
RoutePool == {RouteTo(4, 2, 0, 0, 1, 1), RouteTo(0, 0, 0, 4, 1, 1), RouteTo(6, 2, 0, 2, 2, 1), RouteTo(2, 2, 0, 7, 1, 1),
              RouteTo(4, 1, 0, 5, 1, 1), RouteTo(4, 2, 0, 3, 2, 2), RouteTo(2, 3, 2, 0, 2, 2)}
MCDumps == {<<>>} \cup {<<a>> : a \in RoutePool} \cup {<<a, b, c>> : a, b, c \in RoutePool}
           \cup {<<RouteTo(4, 2, 0, 0, 1, 3), RouteTo(4, 3, 0, 0, 1, 1)>>}
RuleFor(dst, src, tid, iface) == [dst |-> dst, src |-> src, tos |-> 0, iface |-> iface, tid |-> tid]
MCRules == {<<RuleFor(0, 0, 1, FALSE)>>,
            <<RuleFor(0, 5, 2, FALSE), RuleFor(7, 0, 2, TRUE), RuleFor(0, 0, 1, FALSE)>>,
            <<RuleFor(6, 0, 2, FALSE), RuleFor(0, 0, 1, FALSE)>>}
MCNewRoutes == {RouteTo(6, 3, 0, 0, 1, 1), RouteTo(0, 0, 0, 4, 2, 1), RouteTo(6, 2, 0, 0, 2, 2), RouteTo(4, 2, 1, 0, 1, 3)}
MCDevs == <<<<[addr |-> 5, len |-> 2], [addr |-> 4, len |-> 1]>>, <<[addr |-> 2, len |-> 2]>>>>
MCKeys == {[dst |-> a, src |-> b, tos |-> 0] : a \in {1, 3, 6, 7}, b \in {0, 5}}

Rcv == INSTANCE FlowSteering WITH Attachable <- {"m1", "l"}, MaxRx <- 2
Route == INSTANCE RouteTable WITH Width <- 3, TableIds <- 4, LocalTable <- 3, Dumps <- MCDumps,
    RuleDumps <- MCRules, NewRoutes <- MCNewRoutes, RtDevs <- MCDevs, IfAddr <- <<5, 0>>, MaxTable <- 4,
    RtKeys <- MCKeys, MaxRtEvents <- 1, MaxEnts <- 1
Input == INSTANCE IpInput WITH UdpSizes <- {5, 8, 11}, MaxIpPayload <- 4, FragUnit <- 2, Inf <- 15,
    MaxHoles <- 6, MaxDescs <- 2, FragSpace <- 3, MaxDatagrams <- 2, MaxFaults <- 2,
    RxThreads <- {"r1", "r2"}, Delays <- {1}, MaxQueries <- 4, dropped <- inputDropped

(* A part that is not the subject has no state.                            *)
WithoutNd == limit = 0 /\ rings = 0 /\ redir = 0 /\ usr = 0 /\ link = 0 /\ slaves = 0 /\ timer = 0 /\
             gep = 0 /\ pipeIn = 0 /\ unarmed = 0 /\ pkt = 0 /\ pol = 0 /\ events = 0
WithoutTable == pos = 0 /\ table = 0 /\ open = 0
WithoutBond == active = 0 /\ upRings = 0 /\ free = 0 /\ posted = 0 /\ snd = 0 /\ rst = 0 /\ flow = 0 /\
               known = 0 /\ tap = 0 /\ restarts = 0 /\ tapped = 0
WithoutDst == route = 0 /\ nbr = 0 /\ observed = 0 /\ refs = 0 /\ alive = 0 /\ d = 0 /\ th = 0 /\
              lock = 0 /\ env = 0
WithoutSteering == rfs = 0 /\ filter = 0 /\ hw = 0 /\ att = 0 /\ joined = 0 /\ tagged = 0 /\ gone = 0 /\
                   bufref = 0 /\ holders = 0 /\ chained = 0 /\ pend = 0 /\ dropped = 0 /\ upset = 0 /\
                   fails = 0 /\ rx = 0
WithoutGro == cq = 0 /\ gro = 0 /\ streams = 0 /\ taken = 0 /\ up = 0 /\ arrived = 0
WithoutRoute == rules = 0 /\ tab = 0 /\ reported = 0 /\ loaded = 0 /\ ents = 0 /\ rtEvents = 0
WithoutFrag == net = 0 /\ sent = 0 /\ descs = 0 /\ holesFree = 0 /\ counter = 0 /\ returned = 0 /\
               inputDropped = 0 /\ assembled = 0 /\ faults = 0
WithoutIgmp == handler = 0 /\ ignore = 0 /\ handle = 0 /\ timers = 0 /\ qpc = 0 /\ hpc = 0 /\ lockI = 0 /\
               answered = 0 /\ queries = 0

MCInit ==
  /\ subject \in {"nd", "table", "bond", "dst", "steering", "receive", "gro", "route", "frag", "igmp"}
  /\ IF subject = "nd" THEN NdInit ELSE WithoutNd
  /\ IF subject = "table" THEN TblInit ELSE WithoutTable
  /\ IF subject = "bond" THEN BondInit ELSE WithoutBond
  /\ IF subject = "dst" THEN DstInit ELSE WithoutDst
  /\ IF subject = "steering" THEN FsInit ELSE IF subject = "receive" THEN Rcv!FsInit ELSE WithoutSteering
  /\ IF subject = "gro" THEN GroInit ELSE WithoutGro
  /\ IF subject = "route" THEN Route!RtInit ELSE WithoutRoute
  /\ IF subject = "frag" THEN Input!FragInit ELSE WithoutFrag
  /\ IF subject = "igmp" THEN Input!IgmpInit ELSE WithoutIgmp
MCNext ==
  \/ subject = "nd" /\ NdNext /\ UNCHANGED <<subject, tblVars, bondVars, dstVars, fsVars, groVars,
          routeVars, fragVars, igmpVars>>
  \/ subject = "table" /\ TblNext /\ UNCHANGED <<subject, ndVars, bondVars, dstVars, fsVars, groVars,
          routeVars, fragVars, igmpVars>>
  \/ subject = "bond" /\ BondNext /\ UNCHANGED <<subject, ndVars, tblVars, dstVars, fsVars, groVars,
          routeVars, fragVars, igmpVars>>
  \/ subject = "dst" /\ DstNext /\ UNCHANGED <<subject, ndVars, tblVars, bondVars, fsVars, groVars,
          routeVars, fragVars, igmpVars>>
  \/ subject = "steering" /\ FsNext /\ UNCHANGED <<subject, ndVars, tblVars, bondVars, dstVars, groVars,
          routeVars, fragVars, igmpVars>>
  \/ subject = "receive" /\ Rcv!FsNext /\ UNCHANGED <<subject, ndVars, tblVars, bondVars, dstVars, groVars,
          routeVars, fragVars, igmpVars>>
  \/ subject = "gro" /\ GroNext /\ UNCHANGED <<subject, ndVars, tblVars, bondVars, dstVars, fsVars,
          routeVars, fragVars, igmpVars>>
  \/ subject = "route" /\ Route!RtNext /\ UNCHANGED <<subject, ndVars, tblVars, bondVars, dstVars, fsVars,
          groVars, fragVars, igmpVars>>
  \/ subject = "frag" /\ Input!FragNext /\ UNCHANGED <<subject, ndVars, tblVars, bondVars, dstVars, fsVars,
          groVars, routeVars, igmpVars>>
  \/ subject = "igmp" /\ Input!IgmpNext /\ UNCHANGED <<subject, ndVars, tblVars, bondVars, dstVars, fsVars,
          groVars, routeVars, fragVars>>
all == <<subject, ndVars, tblVars, bondVars, dstVars, fsVars, groVars, routeVars, fragVars, igmpVars>>
MCSpec == MCInit /\ [][MCNext]_all

(* The type invariants of the modules.                                     *)
TypesOK ==
  /\ subject = "nd" => NdTypeOK
  /\ subject = "table" => TblTypeOK
  /\ subject = "bond" => BondTypeOK
  /\ subject = "dst" => DstTypeOK
  /\ subject = "steering" => FsTypeOK
  /\ subject = "receive" => Rcv!FsTypeOK
  /\ subject = "gro" => GroTypeOK
  /\ subject = "route" => Route!RtTypeOK
  /\ subject = "frag" => Input!FragTypeOK
  /\ subject = "igmp" => Input!IgmpTypeOK


=============================================================================
