---------------------------- MODULE AgentDaemon ----------------------------
(***************************************************************************)
(* The agent of a libvma process (class agent) and the daemon vmad.        *)
(*                                                                         *)
(* A process tells the daemon, in datagrams on a local socket, that it     *)
(* exists (INIT), the state of each offloaded TCP connection (STATE), the  *)
(* flows to steer to it (FLOW) and that it exits (EXIT).  The daemon also  *)
(* gets an event when the pid file of a process is closed: the process     *)
(* then exited or died, and if the daemon still knows it, it resets its    *)
(* established connections and removes its flows.                          *)
(*                                                                         *)
(* Datagrams of a local socket are neither lost nor reordered while the    *)
(* daemon runs; when it stops, those in flight are lost and the processes  *)
(* that were connected to it never connect again.  A pid names one process *)
(* for the whole run.  The kernel's tc filters outlive the daemon.         *)
(***************************************************************************)
EXTENDS Naturals, Sequences, FiniteSets, SequencesExt

CONSTANTS
  Procs,        \* processes that load the library
  Fids,         \* offloaded TCP sockets of a process
  Flows,        \* flows a process may steer
  Unknown,      \* stands for a pid that is not in daemon_cfg.ht
  MaxEvents     \* bound on TCP state changes, flow requests and daemon stops

TcpStates == {"CLOSED", "ESTABLISHED", "OTHER"}
AgentStates == {"AGENT_INACTIVE", "AGENT_ACTIVE", "AGENT_CLOSED"}
Alive == {"run", "init_wait", "flow_wait", "dtor", "dtor_sleep"}
StatePid == [ht : [Fids -> TcpStates], flow_list : SUBSET Flows]
StateMsg == [code : {"STATE"}, pid : Procs, fid : Fids, state : TcpStates]
FlowMsg == [code : {"FLOW"}, pid : Procs, action : {"ADD", "DEL"}, flow : Flows, req : 1..MaxEvents]
Message == [code : {"INIT", "EXIT"}, pid : Procs] \cup StateMsg \cup FlowMsg
Ack == [code : {"INIT", "FLOW"}, status : 0..1, req : 0..MaxEvents]

VARIABLES
  pc,           \* control point of each process
  m_state,      \* agent::m_state
  connected,    \* is m_sock_fd connected to the running daemon
  m_wait_queue, \* STATE messages not yet sent
  tcp,          \* the state of each socket
  changes,      \* number of TCP state changes
  reqs,         \* number of flow requests
  asked,        \* the last flow request of each process
  inbox,        \* datagrams queued on the socket of each process
  answer,       \* the acknowledgement last taken by send_msg_flow
  up,           \* is the daemon running
  sock,         \* datagrams queued on the daemon's socket
  notify,       \* pids whose pid file was closed, queued on notify_fd
  loop,         \* control point of proc_loop
  batch,        \* events read by proc_notify and not yet processed
  ht,           \* daemon_cfg.ht: what the daemon knows of each pid
  tc,           \* filters installed by this daemon
  stale,        \* filters left in the kernel by an earlier daemon
  rst,          \* sockets whose peer was sent a RST
  gave_up,      \* processes that clean_process stopped waiting for
  stops         \* number of stops of the daemon

procVars == <<pc, m_state, connected, m_wait_queue, tcp, changes, reqs, asked, answer>>
daemonVars == <<up, loop, batch, ht, tc, stale, rst, gave_up, stops>>
vars == <<procVars, inbox, sock, notify, daemonVars>>

Init ==
  /\ pc = [p \in Procs |-> "start"]
  /\ m_state = [p \in Procs |-> "AGENT_CLOSED"]
  /\ connected = [p \in Procs |-> FALSE]
  /\ m_wait_queue = [p \in Procs |-> <<>>]
  /\ tcp = [p \in Procs |-> [f \in Fids |-> "CLOSED"]]
  /\ changes = 0 /\ reqs = 0
  /\ asked = [p \in Procs |-> 0]
  /\ answer = [p \in Procs |-> 0]
  /\ inbox = [p \in Procs |-> <<>>]
  /\ up = TRUE /\ sock = <<>> /\ notify = <<>> /\ loop = "select" /\ batch = <<>>
  /\ ht = [p \in Procs |-> Unknown]
  /\ tc = {} /\ rst = {} /\ gave_up = {}
  /\ \/ stops = 0 /\ stale = {}
     \/ stops = 1 /\ stale = Procs \X Flows   \* this is not the first daemon

MayHappen == changes + reqs + stops < MaxEvents

-----------------------------------------------------------------------------
(* The process.                                                            *)

(* A send on the connected socket: it fails, and the message is dropped,   *)
(* when the daemon has gone.                                               *)
Send(p, msg) == sock' = IF connected[p] THEN Append(sock, msg) ELSE sock

(* agent::agent and send_msg_init up to the wait for the acknowledgement.  *)
Construct(p) ==
  /\ pc[p] = "start"
  /\ m_state' = [m_state EXCEPT ![p] = "AGENT_INACTIVE"]
  /\ connected' = [connected EXCEPT ![p] = up]
  /\ sock' = IF up THEN Append(sock, [code |-> "INIT", pid |-> p]) ELSE sock
  /\ pc' = [pc EXCEPT ![p] = IF up THEN "init_wait" ELSE "run"]
  /\ UNCHANGED <<m_wait_queue, tcp, changes, reqs, asked, answer, inbox, notify, daemonVars>>

(* The constructor fails: the agent stays closed, its files are closed and *)
(* the daemon never hears of the process.                                  *)
ConstructFails(p) ==
  /\ pc[p] = "start"
  /\ pc' = [pc EXCEPT ![p] = "exited"]
  /\ UNCHANGED <<m_state, connected, m_wait_queue, tcp, changes, reqs, asked, answer, inbox, sock, notify, daemonVars>>

(* recv of the INIT acknowledgement.                                       *)
InitAck(p) ==
  /\ pc[p] = "init_wait" /\ inbox[p] # <<>>
  /\ inbox' = [inbox EXCEPT ![p] = Tail(@)]
  /\ m_state' = [m_state EXCEPT ![p] = "AGENT_ACTIVE"]
  /\ pc' = [pc EXCEPT ![p] = "run"]
  /\ UNCHANGED <<connected, m_wait_queue, tcp, changes, reqs, asked, answer, sock, notify, daemonVars>>

(* SO_RCVTIMEO passed: the agent stays inactive for good.                  *)
InitTimeout(p) ==
  /\ pc[p] = "init_wait" /\ inbox[p] = <<>>
  /\ pc' = [pc EXCEPT ![p] = "run"]
  /\ UNCHANGED <<m_state, connected, m_wait_queue, tcp, changes, reqs, asked, answer, inbox, sock, notify, daemonVars>>

(* tcp_state_observer: a socket changes state; a message is queued for an  *)
(* active agent.                                                           *)
TcpStateObserver(p, f, s) ==
  /\ pc[p] \in {"run", "flow_wait"}
  /\ MayHappen
  /\ tcp[p][f] # s
  /\ tcp' = [tcp EXCEPT ![p][f] = s]
  /\ changes' = changes + 1
  /\ m_wait_queue' =
       IF m_state[p] = "AGENT_ACTIVE"
       THEN [m_wait_queue EXCEPT ![p] = Append(@, [code |-> "STATE", pid |-> p, fid |-> f, state |-> s])]
       ELSE m_wait_queue
  /\ UNCHANGED <<pc, m_state, connected, reqs, asked, answer, inbox, sock, notify, daemonVars>>

(* agent::progress, one turn of its loop: called on the TCP timer and by   *)
(* the destructor.                                                         *)
Progress(p) ==
  /\ pc[p] \in {"run", "flow_wait", "dtor"} /\ m_wait_queue[p] # <<>>
  /\ Send(p, Head(m_wait_queue[p]))
  /\ m_wait_queue' = [m_wait_queue EXCEPT ![p] = Tail(@)]
  /\ UNCHANGED <<pc, m_state, connected, tcp, changes, reqs, asked, answer, inbox, notify, daemonVars>>

(* send_msg_flow up to the wait for the answer; it fails at once when the  *)
(* send fails.                                                             *)
SendMsgFlow(p, action, flow) ==
  /\ pc[p] = "run" /\ m_state[p] = "AGENT_ACTIVE"
  /\ MayHappen
  /\ reqs' = reqs + 1
  /\ asked' = [asked EXCEPT ![p] = reqs']
  /\ Send(p, [code |-> "FLOW", pid |-> p, action |-> action, flow |-> flow, req |-> reqs'])
  /\ pc' = [pc EXCEPT ![p] = IF connected[p] THEN "flow_wait" ELSE "run"]
  /\ UNCHANGED <<m_state, connected, m_wait_queue, tcp, changes, answer, inbox, notify, daemonVars>>

(* The answer to a flow request: any acknowledgement with the code, version*)
(* and pid of a flow request is taken for it.                              *)
FlowAnswer(p) ==
  /\ pc[p] = "flow_wait" /\ inbox[p] # <<>>
  /\ answer' = [answer EXCEPT ![p] = Head(inbox[p]).req]
  /\ inbox' = [inbox EXCEPT ![p] = Tail(@)]
  /\ pc' = [pc EXCEPT ![p] = "run"]
  /\ UNCHANGED <<m_state, connected, m_wait_queue, tcp, changes, reqs, asked, sock, notify, daemonVars>>

FlowTimeout(p) ==
  /\ pc[p] = "flow_wait" /\ inbox[p] = <<>>
  /\ pc' = [pc EXCEPT ![p] = "run"]
  /\ UNCHANGED <<m_state, connected, m_wait_queue, tcp, changes, reqs, asked, answer, inbox, sock, notify, daemonVars>>

(* The process exits: agent::~agent begins to drain the wait queue.        *)
Exit(p) ==
  /\ pc[p] = "run"
  /\ pc' = [pc EXCEPT ![p] = "dtor"]
  /\ UNCHANGED <<m_state, connected, m_wait_queue, tcp, changes, reqs, asked, answer, inbox, sock, notify, daemonVars>>

(* send_msg_exit, then the delay of the destructor.                        *)
SendMsgExit(p) ==
  /\ pc[p] = "dtor" /\ m_wait_queue[p] = <<>>
  /\ IF m_state[p] = "AGENT_ACTIVE" THEN Send(p, [code |-> "EXIT", pid |-> p]) ELSE UNCHANGED sock
  /\ m_state' = [m_state EXCEPT ![p] = "AGENT_CLOSED"]
  /\ pc' = [pc EXCEPT ![p] = "dtor_sleep"]
  /\ UNCHANGED <<connected, m_wait_queue, tcp, changes, reqs, asked, answer, inbox, notify, daemonVars>>

(* The descriptors of a process are closed: the socket is gone and, while  *)
(* the daemon watches, the event of the pid file is queued.                *)
CloseFiles(p) ==
  /\ inbox' = [inbox EXCEPT ![p] = <<>>]
  /\ connected' = [connected EXCEPT ![p] = FALSE]
  /\ tcp' = [tcp EXCEPT ![p] = [f \in Fids |-> "CLOSED"]]
  /\ asked' = [asked EXCEPT ![p] = 0] /\ answer' = [answer EXCEPT ![p] = 0]
  /\ notify' = IF up THEN Append(notify, p) ELSE notify

(* The end of the destructor, and of the process.                          *)
CloseAtExit(p) ==
  /\ pc[p] = "dtor_sleep"
  /\ CloseFiles(p)
  /\ pc' = [pc EXCEPT ![p] = "exited"]
  /\ UNCHANGED <<m_state, m_wait_queue, changes, reqs, sock, daemonVars>>

(* The process dies; the kernel closes its descriptors.                    *)
Crash(p) ==
  /\ pc[p] \in Alive
  /\ CloseFiles(p)
  /\ m_wait_queue' = [m_wait_queue EXCEPT ![p] = <<>>]
  /\ m_state' = [m_state EXCEPT ![p] = "AGENT_CLOSED"]
  /\ pc' = [pc EXCEPT ![p] = "crashed"]
  /\ UNCHANGED <<changes, reqs, sock, daemonVars>>

(* The parent reaps the process: /proc/<pid> disappears.                   *)
Reap(p) ==
  /\ pc[p] \in {"exited", "crashed"}
  /\ pc' = [pc EXCEPT ![p] = IF @ = "exited" THEN "gone_exited" ELSE "gone_crashed"]
  /\ UNCHANGED <<m_state, connected, m_wait_queue, tcp, changes, reqs, asked, answer, inbox, sock, notify, daemonVars>>

Gone(p) == pc[p] \in {"gone_exited", "gone_crashed"}

-----------------------------------------------------------------------------
(* The daemon.                                                             *)

NewPid == [ht |-> [f \in Fids |-> "CLOSED"], flow_list |-> {}]

(* A sendto to a process: it fails when the process closed its socket.     *)
Reply(p, code, status, req) ==
  inbox' = IF connected[p]
           THEN [inbox EXCEPT ![p] = Append(@, [code |-> code, status |-> status, req |-> req])]
           ELSE inbox

ProcMsgInit(m) ==
  /\ ht' = [ht EXCEPT ![m.pid] = NewPid]
  /\ Reply(m.pid, "INIT", 0, 0)
  /\ UNCHANGED <<tc, stale>>

FlowsOf(p) == {p} \X (IF ht[p] = Unknown THEN {} ELSE ht[p].flow_list)


(* del_flow of every flow of the process, and hash_del of its entry.       *)
ForgetPid(p) ==
  /\ tc' = tc \ FlowsOf(p)
  /\ ht' = [ht EXCEPT ![p] = Unknown]

ProcMsgExit(m) ==
  /\ ForgetPid(m.pid)
  /\ UNCHANGED <<inbox, stale>>

(* A closed socket is not stored: "CLOSED" stands for an absent entry.     *)
ProcMsgState(m) ==
  /\ ht' = IF ht[m.pid] = Unknown THEN ht ELSE [ht EXCEPT ![m.pid].ht[m.fid] = m.state]
  /\ UNCHANGED <<inbox, tc, stale>>

(* add_flow: the first flow of an interface deletes the qdisc, and with it *)
(* every filter left by an earlier daemon.                                 *)
AddFlow(p, flow) ==
  /\ tc' = tc \cup {<<p, flow>>}
  /\ stale' = IF tc = {} THEN {} ELSE stale

(* proc_msg_flow: an unknown pid and a failing tc command are answered with*)
(* status 1; adding a known flow and deleting an unknown one with 0.       *)
ProcMsgFlow(m) ==
  LET known == ht[m.pid] # Unknown
      has == known /\ m.flow \in ht[m.pid].flow_list
      new == known /\ m.action = "ADD" /\ ~has
  IN \/ /\ ~known \/ new                  \* refused, or tc failed
        /\ Reply(m.pid, "FLOW", 1, m.req)
        /\ UNCHANGED <<ht, tc, stale>>
     \/ /\ new
        /\ AddFlow(m.pid, m.flow)
        /\ ht' = [ht EXCEPT ![m.pid].flow_list = @ \cup {m.flow}]
        /\ Reply(m.pid, "FLOW", 0, m.req)
     \/ /\ has /\ m.action = "DEL"
        /\ tc' = tc \ {<<m.pid, m.flow>>}
        /\ ht' = [ht EXCEPT ![m.pid].flow_list = @ \ {m.flow}]
        /\ Reply(m.pid, "FLOW", 0, m.req)
        /\ UNCHANGED stale
     \/ /\ known /\ has = (m.action = "ADD")
        /\ Reply(m.pid, "FLOW", 0, m.req)
        /\ UNCHANGED <<ht, tc, stale>>

(* One turn of proc_loop: one datagram, and then the events that were      *)
(* already pending when select returned.                                   *)
ProcMessage ==
  /\ up /\ loop = "select" /\ sock # <<>>
  /\ sock' = Tail(sock)
  /\ LET m == Head(sock)
     IN \/ m.code = "INIT" /\ ProcMsgInit(m)
        \/ m.code = "EXIT" /\ ProcMsgExit(m)
        \/ m.code = "STATE" /\ ProcMsgState(m)
        \/ m.code = "FLOW" /\ ProcMsgFlow(m)
  /\ loop' = IF notify = <<>> THEN "select" ELSE "notify"
  /\ UNCHANGED <<procVars, notify, up, batch, rst, gave_up, stops>>

SelectNotify ==
  /\ up /\ loop = "select" /\ sock = <<>> /\ notify # <<>>
  /\ loop' = "notify"
  /\ UNCHANGED <<procVars, inbox, sock, notify, up, batch, ht, tc, stale, rst, gave_up, stops>>

(* proc_notify reads every pending event.                                  *)
ProcNotify ==
  /\ up /\ loop = "notify"
  /\ batch' = notify /\ notify' = <<>>
  /\ loop' = "events"
  /\ UNCHANGED <<procVars, inbox, sock, up, ht, tc, stale, rst, gave_up, stops>>

EventDone == batch' = Tail(batch) /\ loop' = IF Len(batch) = 1 THEN "select" ELSE "events"

(* An event of a pid that is not in the store is skipped.                  *)
SkipEvent ==
  /\ up /\ loop = "events" /\ ht[Head(batch)] = Unknown
  /\ EventDone
  /\ UNCHANGED <<procVars, inbox, sock, notify, up, ht, tc, stale, rst, gave_up, stops>>

(* clean_process of a process that has gone: a RST for every established   *)
(* connection, then the flows and the entry are removed.                   *)
CleanProcess ==
  /\ up /\ loop = "events" /\ ht[Head(batch)] # Unknown
  /\ Gone(Head(batch))
  /\ LET p == Head(batch)
     IN /\ rst' = rst \cup {<<p, f>> : f \in {g \in Fids : ht[p].ht[g] = "ESTABLISHED"}}
        /\ ForgetPid(p)
  /\ EventDone
  /\ UNCHANGED <<procVars, inbox, sock, notify, up, stale, gave_up, stops>>

(* clean_process gives up on a process that is still there after a second. *)
CleanGivesUp ==
  /\ up /\ loop = "events" /\ ht[Head(batch)] # Unknown
  /\ ~Gone(Head(batch))
  /\ gave_up' = gave_up \cup {Head(batch)}
  /\ EventDone
  /\ UNCHANGED <<procVars, inbox, sock, notify, up, ht, tc, stale, rst, stops>>

(* The daemon stops or is killed: its memory, its sockets and its watch go,*)
(* the filters stay.                                                       *)
DaemonStop ==
  /\ up /\ MayHappen
  /\ up' = FALSE /\ stops' = stops + 1
  /\ sock' = <<>> /\ notify' = <<>> /\ batch' = <<>> /\ loop' = "select"
  /\ connected' = [p \in Procs |-> FALSE]
  /\ ht' = [p \in Procs |-> Unknown]
  /\ stale' = stale \cup tc /\ tc' = {}
  /\ UNCHANGED <<pc, m_state, m_wait_queue, tcp, changes, reqs, asked, answer, inbox, rst, gave_up>>

DaemonStart ==
  /\ ~up
  /\ up' = TRUE
  /\ UNCHANGED <<procVars, inbox, sock, notify, loop, batch, ht, tc, stale, rst, gave_up, stops>>

-----------------------------------------------------------------------------
DaemonLoop == ProcMessage \/ SelectNotify \/ ProcNotify \/ SkipEvent \/ CleanProcess \/ CleanGivesUp

Next ==
  \/ \E p \in Procs :
       \/ Construct(p) \/ ConstructFails(p) \/ InitAck(p) \/ InitTimeout(p) \/ Progress(p)
       \/ \E f \in Fids, s \in TcpStates : TcpStateObserver(p, f, s)
       \/ \E action \in {"ADD", "DEL"}, flow \in Flows : SendMsgFlow(p, action, flow)
       \/ FlowAnswer(p) \/ FlowTimeout(p)
       \/ Exit(p) \/ SendMsgExit(p) \/ CloseAtExit(p) \/ Crash(p) \/ Reap(p)
  \/ DaemonLoop \/ DaemonStop \/ DaemonStart

Spec == Init /\ [][Next]_vars

(* The daemon's loop keeps running, clean_process stops waiting after a    *)
(* second, and a receive returns by its timeout.                           *)
FairSpec == Spec /\ WF_vars(DaemonLoop)

-----------------------------------------------------------------------------
TypeOK ==
  /\ pc \in [Procs -> Alive \cup {"start", "exited", "crashed", "gone_exited", "gone_crashed"}]
  /\ m_state \in [Procs -> AgentStates]
  /\ connected \in [Procs -> BOOLEAN]
  /\ \A p \in Procs : m_wait_queue[p] \in Seq(StateMsg)
  /\ tcp \in [Procs -> [Fids -> TcpStates]]
  /\ changes \in 0..MaxEvents
  /\ reqs \in 0..MaxEvents
  /\ asked \in [Procs -> 0..MaxEvents]
  /\ answer \in [Procs -> 0..MaxEvents]
  /\ \A p \in Procs : inbox[p] \in Seq(Ack)
  /\ up \in BOOLEAN
  /\ sock \in Seq(Message)
  /\ notify \in Seq(Procs) /\ batch \in Seq(Procs)
  /\ loop \in {"select", "notify", "events"} /\ (loop = "events") = (batch # <<>>)
  /\ ht \in [Procs -> StatePid \cup {Unknown}]
  /\ tc \in SUBSET (Procs \X Flows) /\ stale \in SUBSET (Procs \X Flows)
  /\ rst \in SUBSET (Procs \X Fids)
  /\ gave_up \in SUBSET Procs
  /\ stops \in 0..MaxEvents

(* What the daemon will believe of the sockets of p once it has read every *)
(* message that p queued or sent.                                          *)
Pending(p) == SelectSeq(sock, LAMBDA m : m.pid = p /\ m.code = "STATE") \o m_wait_queue[p]
Believed(p) == FoldLeft(LAMBDA view, m : [view EXCEPT ![m.fid] = m.state], ht[p].ht, Pending(p))

(* While an active process is connected, the daemon's table of its sockets *)
(* is behind the process by exactly the queued messages: none is lost,     *)
(* doubled or overtaken between tcp_state_observer and proc_msg_state.     *)
DaemonCatchesUp ==
  \A p \in Procs : m_state[p] = "AGENT_ACTIVE" /\ connected[p] /\ ht[p] # Unknown => Believed(p) = tcp[p]

(* clean_process resets the connections of a process only once the process *)
(* has gone, and never those of a process that is running.                 *)
ResetOnlyTheDead == \A e \in rst : Gone(e[1])

(* The filters in the kernel are exactly the flows in the store: EXIT, a   *)
(* deleted flow and clean_process leave none behind, and once the daemon   *)
(* installed one, none of an earlier daemon is left.                       *)
FiltersAreStored ==
  /\ tc = UNION {FlowsOf(p) : p \in Procs}
  /\ tc # {} => stale = {}

(* A process that died or exited while the daemon knew it is removed from  *)
(* the store, unless it lingered or the daemon stopped: the event of its   *)
(* pid file is not lost behind messages or other events.                   *)
EventIsHandled ==
  \A p \in Procs :
    (ht[p] # Unknown /\ (Contains(notify, p) \/ Contains(batch, p)))
      ~> (ht[p] = Unknown \/ p \in gave_up \/ ~up)

====
