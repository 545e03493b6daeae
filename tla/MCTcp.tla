------------------------------- MODULE MCTcp --------------------------------
(***************************************************************************)
(* Instances of the TCP sockets and of the TCP stack for TLC.  A behaviour *)
(* explores one of them, the subject:                                      *)
(*   listen   a listening socket, its children and the four threads that   *)
(*            work on them;                                                *)
(*   conn     a connected socket between the application, the ring and the *)
(*            timer;                                                       *)
(*   buffers  its window, its buffers and its segments;                    *)
(*   lwip     two pcbs and a network that loses, doubles and reorders;     *)
(*   pbuf     the packet buffers of the stack.                             *)
(***************************************************************************)
EXTENDS TcpListen, LwipTcp, TcpBuffers

VARIABLES
  subject,
  s, blocking, deferred, app, fresh, armed, event, closing, pkts

connVars == <<s, blocking, deferred, app, fresh, armed, event, closing, pkts>>

MCPayloads == {<<1, 2>>}
Symmetry == Permutations(Peers)

Conn == INSTANCE TcpConn WITH SndBuf <- 1, MaxReady <- 1, MaxPkts <- 2

(* A part that is not the subject has no state.                            *)
WithoutListen == ctl = 0 /\ state = 0 /\ cbs = 0 /\ syn = 0 /\ queue = 0 /\ count = 0 /\ ready = 0 /\
                 ctlList = 0 /\ waiting = 0 /\ kid = 0 /\ lock = 0 /\ th = 0 /\ asleep = 0 /\ wakefd = 0 /\
                 rcvd = 0
WithoutLwip == snd = 0 /\ rcv = 0 /\ toRcv = 0 /\ toSnd = 0 /\ written = 0
WithoutPbuf == heap = 0 /\ held = 0
WithoutConn == s = 0 /\ blocking = 0 /\ deferred = 0 /\ app = 0 /\ fresh = 0 /\ armed = 0 /\ event = 0 /\
               closing = 0 /\ pkts = 0
WithoutBuffers == conn = 0 /\ wnd = 0 /\ wndMax = 0 /\ desired = 0 /\ buffMax = 0 /\ current = 0 /\
                  nonRecved = 0 /\ rxReady = 0 /\ offset = 0 /\ lent = 0 /\ reuse = 0 /\ revPending = 0 /\
                  postponed = 0 /\ sndMax = 0 /\ sndBuf = 0 /\ inflight = 0 /\ pool = 0 /\ segs = 0 /\
                  used = 0

MCInit ==
  /\ subject \in {"listen", "lwip", "pbuf", "conn", "buffers"}
  /\ IF subject = "listen" THEN Init ELSE WithoutListen
  /\ IF subject = "lwip" THEN LwipInit ELSE WithoutLwip
  /\ IF subject = "pbuf" THEN PbufInit ELSE WithoutPbuf
  /\ IF subject = "conn" THEN Conn!Init ELSE WithoutConn
  /\ IF subject = "buffers" THEN BufInit ELSE WithoutBuffers
MCNext ==
  \/ subject = "listen" /\ Next /\ UNCHANGED <<subject, lwipVars, pbufVars, connVars, bufVars>>
  \/ subject = "lwip" /\ LwipNext /\ UNCHANGED <<subject, vars, pbufVars, connVars, bufVars>>
  \/ subject = "pbuf" /\ PbufNext /\ UNCHANGED <<subject, vars, lwipVars, connVars, bufVars>>
  \/ subject = "conn" /\ Conn!Next /\ UNCHANGED <<subject, vars, lwipVars, pbufVars, bufVars>>
  \/ subject = "buffers" /\ BufNext /\ UNCHANGED <<subject, vars, lwipVars, pbufVars, connVars>>
all == <<subject, vars, lwipVars, pbufVars, connVars, bufVars>>
MCSpec == MCInit /\ [][MCNext]_all

(* The type invariants of the modules.                                     *)
TypesOK ==
  /\ subject = "listen" => TypeOK
  /\ subject = "conn" => Conn!TypeOK
  /\ subject = "buffers" => BufTypeOK
  /\ subject = "lwip" => LwipTypeOK
  /\ subject = "pbuf" => PbufTypeOK

(* TcpListen: with tcp_ctl_thread a connection is never lost, nobody works *)
(* on a deleted child, and no two threads wait for each other's lock.      *)
ChildrenAreKept == subject = "listen" => ChildIsListed /\ KidIsAlive /\ NoLockCycle


(* TcpBuffers: the window opens again when all was read, and every segment *)
(* is in the pool or with a socket.                                        *)
ResourcesReturn == subject = "buffers" => WindowReopens /\ SegsAccounted

=============================================================================
