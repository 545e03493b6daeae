----------------------------- MODULE MCSockets ------------------------------
(***************************************************************************)
(* Instances for TLC of the sockets but TCP's, of what decides and keeps   *)
(* what a descriptor is, and of what waits for many.  A behaviour explores *)
(* one of them, the subject:                                               *)
(*   udp      addresses, groups and destinations of a UDP socket;          *)
(*   urx      its receive queue, two readers and the ring;                 *)
(*   fd, dup  two threads that open, duplicate, use and close descriptors, *)
(*            without and with fcntl(F_DUPFD);                             *)
(*   pipe     a pipe whose writes are gathered;                            *)
(*   config   the rules of the configuration file;                         *)
(*   epoll    an epoll set;                                                *)
(*   mux      select and poll;                                             *)
(*   rings    the rings a socket receives from, with its epoll set;        *)
(*   alloc    the choice of a ring by thread or cpu.                       *)
(***************************************************************************)
EXTENDS UdpSocket, FdCollection, ConfigMatch, EpollSet, TLC

CONSTANT NoRing

VARIABLES
  subject,
  m, rfd, wfd, hfd, kr, kw, ring, cqHot, clock, lastIndex, skipCount, muxCalls, readied,
  flow, nd, refs, key, ctx, ep, rsv, att, own, sockClosed, migrFailed, raced,
  cpuOf, logic, akey, cand, tries, seen, migrated, attached, load, profiles, keys, moves

muxVars == <<m, rfd, wfd, hfd, kr, kw, ring, cqHot, clock, lastIndex, skipCount, muxCalls, readied>>
ringsVars == <<flow, nd, refs, key, ctx, ep, rsv, att, own, sockClosed, migrFailed, raced>>
allocVars == <<cpuOf, logic, akey, cand, tries, seen, migrated, attached, load, profiles, keys, moves>>

Symmetry == Permutations(Readers) \cup Permutations(Threads)
MCIfOf == "g1" :> "e1" @@ "g2" :> "e2"
AnyTuple == [addr |-> <<>>, port |-> <<>>]
MCTuples == {<<AnyTuple>>, <<[addr |-> <<1, 1>>, port |-> <<>>]>>, <<[addr |-> <<>>, port |-> <<1, 2>>]>>,
             <<AnyTuple, [addr |-> <<2, 2>>, port |-> <<>>]>>}
MCEndPoints ==
  {[family |-> "inet", addr |-> a, port |-> p, embedded |-> FALSE] : a \in {0, 2}, p \in {0, 1}} \cup
  {[family |-> "inet6", addr |-> 2, port |-> 0, embedded |-> TRUE],
   [family |-> "none", addr |-> 0, port |-> 0, embedded |-> FALSE]}
MCIds == {<<TRUE, "a">>, <<TRUE, "b">>, <<FALSE, "*">>}
MCMasks == {[ev |-> {"in"}, et |-> FALSE, one |-> FALSE], [ev |-> {"in", "out"}, et |-> TRUE, one |-> TRUE]}
MCAsks == {[r |-> {"t", "u", "p"}, w |-> {}], [r |-> {"p"}, w |-> {"p"}], [r |-> {"t", "p"}, w |-> {"t", "u", "p"}]}
MCFlows == {[if |-> "e1", five |-> FALSE], [if |-> "e1", five |-> TRUE], [if |-> "e2", five |-> FALSE]}

Dup == INSTANCE FdCollection WITH Calls <- {"tcp", "dupfd"}
Mux == INSTANCE IoMux WITH Tcp <- {"t"}, Udp <- {"u"}, Plain <- {"p"}, Kinds <- {"select", "poll"},
    Asks <- MCAsks, Limits <- {0, 1}, SkipCheck <- 2, OsRatio <- 2, MaxTime <- 2, MaxCallsMux <- 1,
    MaxReadied <- 2
Rings == INSTANCE SockRings WITH Ifs <- {"e1", "e2"}, Flows <- MCFlows, Keys <- {1, 2}, Shared <- {"e2"},
    Cpus <- {0, 1}, AThreads <- {11, 12, 13}, SockFd <- 7, Ratio <- 1, Rounds <- 2, Descs <- {"d1"},
    MaxMoves <- 3

(* A part that is not the subject has no state.                            *)
WithoutUdp == u = 0 /\ k = 0 /\ dsts = 0 /\ calls = 0 /\ got = 0 /\ left = 0
WithoutUrx == q = 0 /\ cq = 0 /\ armed = 0 /\ chan = 0 /\ wakeFd = 0 /\ os = 0 /\ ratioCnt = 0 /\ th = 0 /\
              arrivals = 0 /\ osArrivals = 0
WithoutFd == kfd = 0 /\ sockMap = 0 /\ epfdMap = 0 /\ kindOf = 0 /\ life = 0 /\ sets = 0 /\ timers = 0 /\
             opposite = 0 /\ thr = 0
WithoutPipe == writeCount = 0 /\ onLast = 0 /\ noChange = 0 /\ timerOn = 0 /\ bytes = 0 /\ writes = 0 /\
               owed = 0
WithoutConfig == insts = 0 /\ curr = 0 /\ parsing = 0
WithoutEpoll == sk = 0 /\ readyFds = 0 /\ arr = 0 /\ plain = 0 /\ inOs = 0 /\ ctl = 0 /\ w = 0 /\ cqs = 0 /\
                cqArmed = 0 /\ cqEvent = 0 /\ wake = 0 /\ osData = 0 /\ osSeen = 0 /\ osWatch = 0 /\
                changes = 0 /\ packets = 0 /\ waits = 0
WithoutMux == m = 0 /\ rfd = 0 /\ wfd = 0 /\ hfd = 0 /\ kr = 0 /\ kw = 0 /\ ring = 0 /\ cqHot = 0 /\
              clock = 0 /\ lastIndex = 0 /\ skipCount = 0 /\ muxCalls = 0 /\ readied = 0
WithoutRings == flow = 0 /\ nd = 0 /\ refs = 0 /\ key = 0 /\ ctx = 0 /\ ep = 0 /\ rsv = 0 /\ att = 0 /\
                own = 0 /\ sockClosed = 0 /\ migrFailed = 0 /\ raced = 0
WithoutAlloc == cpuOf = 0 /\ logic = 0 /\ akey = 0 /\ cand = 0 /\ tries = 0 /\ seen = 0 /\ migrated = 0 /\
                attached = 0 /\ load = 0 /\ profiles = 0 /\ keys = 0 /\ moves = 0

MCInit ==
  /\ subject \in {"udp", "urx", "fd", "dup", "pipe", "config", "epoll", "mux", "rings", "alloc"}
  /\ IF subject = "udp" THEN UdpInit ELSE WithoutUdp
  /\ IF subject = "urx" THEN UrxInit ELSE WithoutUrx
  /\ IF subject \in {"fd", "dup"} THEN FdInit ELSE WithoutFd
  /\ IF subject = "pipe" THEN PipeInit ELSE WithoutPipe
  /\ IF subject = "config" THEN CfgInit ELSE WithoutConfig
  /\ IF subject = "epoll" THEN EpInit ELSE WithoutEpoll
  /\ IF subject = "mux" THEN Mux!MuxInit ELSE WithoutMux
  /\ IF subject = "rings" THEN Rings!RingsInit ELSE WithoutRings
  /\ IF subject = "alloc" THEN Rings!AllocInit ELSE WithoutAlloc
MCNext ==
  \/ subject = "udp" /\ UdpNext /\ UNCHANGED <<subject, urxVars, fdVars, pipeVars, cfgVars, epVars, muxVars,
          ringsVars, allocVars>>
  \/ subject = "urx" /\ UrxNext /\ UNCHANGED <<subject, udpVars, fdVars, pipeVars, cfgVars, epVars, muxVars,
          ringsVars, allocVars>>
  \/ subject = "fd" /\ FdNext /\ UNCHANGED <<subject, udpVars, urxVars, pipeVars, cfgVars, epVars, muxVars,
          ringsVars, allocVars>>
  \/ subject = "dup" /\ Dup!FdNext /\ UNCHANGED <<subject, udpVars, urxVars, pipeVars, cfgVars, epVars, muxVars,
          ringsVars, allocVars>>
  \/ subject = "pipe" /\ PipeNext /\ UNCHANGED <<subject, udpVars, urxVars, fdVars, cfgVars, epVars,
          muxVars, ringsVars, allocVars>>
  \/ subject = "config" /\ CfgNext /\ UNCHANGED <<subject, udpVars, urxVars, fdVars, pipeVars, epVars,
          muxVars, ringsVars, allocVars>>
  \/ subject = "epoll" /\ EpNext /\ UNCHANGED <<subject, udpVars, urxVars, fdVars, pipeVars, cfgVars,
          muxVars, ringsVars, allocVars>>
  \/ subject = "mux" /\ Mux!MuxNext /\ UNCHANGED <<subject, udpVars, urxVars, fdVars, pipeVars, cfgVars,
          epVars, ringsVars, allocVars>>
  \/ subject = "rings" /\ Rings!RingsNext /\ UNCHANGED <<subject, udpVars, urxVars, fdVars, pipeVars,
          cfgVars, epVars, muxVars, allocVars>>
  \/ subject = "alloc" /\ Rings!AllocNext /\ UNCHANGED <<subject, udpVars, urxVars, fdVars, pipeVars,
          cfgVars, epVars, muxVars, ringsVars>>
all == <<subject, udpVars, urxVars, fdVars, pipeVars, cfgVars, epVars, muxVars, ringsVars, allocVars>>
MCSpec == MCInit /\ [][MCNext]_all

(* The type invariants of the modules.                                     *)
TypesOK ==
  /\ subject = "udp" => UdpTypeOK
  /\ subject = "urx" => UrxTypeOK
  /\ subject \in {"fd", "dup"} => FdTypeOK
  /\ subject = "pipe" => PipeTypeOK
  /\ subject = "config" => CfgTypeOK
  /\ subject = "epoll" => EpTypeOK
  /\ subject = "mux" => Mux!MuxTypeOK
  /\ subject = "rings" => Rings!RingsTypeOK
  /\ subject = "alloc" => Rings!AllocTypeOK


=============================================================================
