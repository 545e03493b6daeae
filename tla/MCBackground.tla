---------------------------- MODULE MCBackground ----------------------------
(***************************************************************************)
(* Instances for TLC of what works in the background of the sockets: the   *)
(* timers of the internal thread, the tables that follow the kernel, and   *)
(* the daemon vmad with its containers.  A behaviour explores one subject  *)
(* and the others keep their initial state:                                *)
(*   list     the delta list, with a one-shot timer and two periodic ones, *)
(*            two of which belong to the same handler;                     *)
(*   wheel    the wheel of the TCP sockets;                                *)
(*   cache    the cache tables with the routes that live in one;           *)
(*   netlink  the listener to the kernel's messages;                       *)
(*   agent    two processes and the daemon;                                *)
(*   mixed    the tree of flows with two processes and failing tc          *)
(*            commands, and flows that share a table or a bucket (ports 1  *)
(*            and 13 get the same 3-tuple id);                             *)
(*   clean    the tree with one process, no failing command and no two     *)
(*            3-tuples of one id.                                          *)
(***************************************************************************)
EXTENDS Timers, CacheTable, Netlink

CONSTANTS t1, t2, t3, p1, p2, Procs, Fids, Flows, Unknown, MaxEvents, Subjects

VARIABLES subject,
  pc, m_state, connected, m_wait_queue, tcp, changes, reqs, asked, inbox, answer, up, sock, notify,
  loop, batch, ht, tc, stale, rst, gave_up, stops,
  stored, if_ref, ht_ref, ht_id, bkt_ref, nodes, bitmap, filters, links, adds

agentVars == <<pc, m_state, connected, m_wait_queue, tcp, changes, reqs, asked, inbox, answer, up, sock, notify,
               loop, batch, ht, tc, stale, rst, gave_up, stops>>
treeVars == <<stored, if_ref, ht_ref, ht_id, bkt_ref, nodes, bitmap, filters, links, adds>>

Agent == INSTANCE AgentDaemon

T3(port) == [type |-> "3T", ip |-> 1, port |-> port, src |-> 0]
T5(ip, port, src) == [type |-> "5T", ip |-> ip, port |-> port, src |-> src]
MixedFlows == {T3(1), T3(13), T5(1, 5, 1), T5(1, 4, 1)}
CleanFlows == {T3(1), T3(5), T5(1, 5, 1), T5(1, 1, 2), T5(1, 9, 3), T5(2, 4, 1)}
Mixed == INSTANCE FlowTree WITH Pids <- {p1, p2}, Flows <- MixedFlows, Divisor <- 4, MaxId <- 5,
                                TcMayFail <- TRUE, MaxAdds <- 4
Clean == INSTANCE FlowTree WITH Pids <- {p1}, Flows <- CleanFlows, Divisor <- 4, MaxId <- 3,
                                TcMayFail <- FALSE, MaxAdds <- 6

MCOrig == [n \in Nodes |-> IF n = t1 THEN 2 ELSE IF n = t2 THEN 1 ELSE 3]
MCOwner == [n \in Nodes |-> IF n = t3 THEN "h2" ELSE "h1"]

(* The tree, in the behaviours that have none.                             *)
NoTree == /\ stored = 0 /\ if_ref = 0 /\ ht_ref = 0 /\ ht_id = 0 /\ bkt_ref = 0
          /\ nodes = 0 /\ bitmap = 0 /\ filters = 0 /\ links = 0 /\ adds = 0
MCInit ==
  /\ subject \in Subjects
  /\ Init /\ WheelInit /\ CacheInit /\ NlInit /\ Agent!Init
  /\ IF subject = "clean" THEN Clean!Init ELSE IF subject = "mixed" THEN Mixed!Init ELSE NoTree
MCNext ==
  \/ subject = "list" /\ Next /\ UNCHANGED <<subject, wheelVars, cacheVars, nlVars, agentVars, treeVars>>
  \/ subject = "wheel" /\ WheelNext /\ UNCHANGED <<subject, vars, cacheVars, nlVars, agentVars, treeVars>>
  \/ subject = "cache" /\ CacheNext /\ UNCHANGED <<subject, vars, wheelVars, nlVars, agentVars, treeVars>>
  \/ subject = "netlink" /\ NlNext /\ UNCHANGED <<subject, vars, wheelVars, cacheVars, agentVars, treeVars>>
  \/ subject = "agent" /\ Agent!Next /\ UNCHANGED <<subject, vars, wheelVars, cacheVars, nlVars, treeVars>>
  \/ subject = "mixed" /\ Mixed!Next /\ UNCHANGED <<subject, vars, wheelVars, cacheVars, nlVars, agentVars>>
  \/ subject = "clean" /\ Clean!Next /\ UNCHANGED <<subject, vars, wheelVars, cacheVars, nlVars, agentVars>>
all == <<subject, vars, wheelVars, cacheVars, nlVars, agentVars, treeVars>>
MCSpec == MCInit /\ [][MCNext]_all

(* The fairness of the subjects.  A fair action of a part that is not the  *)
(* subject is disabled in its initial state, or is guarded here.           *)
MCFairSpec ==
  /\ MCSpec
  /\ CacheFairness
  /\ SF_nlVars(InternalStep) /\ SF_nlVars(subject = "netlink" /\ neigh_timer_expired)
  /\ \A n \in Nbrs : SF_nlVars(AppStep(n))
  /\ WF_wheelVars(subject = "wheel" /\ (WheelAdd \/ WheelRemove \/ OwnTimer))
  /\ WF_wheelVars(subject = "wheel" /\ HandleTimerExpired)
  /\ WF_agentVars(subject = "agent" /\ Agent!DaemonLoop)

(* The type invariants of the modules.                                     *)
TypesOK ==
  /\ subject = "list" => TypeOK
  /\ subject = "wheel" => WheelTypeOK
  /\ subject = "cache" => CacheTypeOK
  /\ subject = "netlink" => NlTypeOK
  /\ subject = "agent" => Agent!TypeOK
  /\ subject = "mixed" => Mixed!TypeOK
  /\ subject = "clean" => Clean!TypeOK

(* Timers are called when they are due: the deltas up to a node of the     *)
(* list add up to the time it has left, and process_registered_timers      *)
(* calls the nodes that are due, each once and no other, although it puts  *)
(* periodic nodes back into the list it walks; and no member of the wheel  *)
(* waits more than the period for its callback, whatever is added to and   *)
(* removed from the wheel meanwhile.                                       *)
TimersExact ==
  /\ subject = "list" => DeadlinesKept /\ CallsExactlyTheExpired
  /\ subject = "wheel" => OncePerPeriod


(* FlowTree: no element of the tree is freed while a stored flow needs it, *)
(* every flow that was added to a bucket has a filter of its own in the    *)
(* kernel at the handle kept in its store_flow, and when no tc command     *)
(* failed the last flow to be deleted takes the whole tree and the         *)
(* kernel's filters with it.                                               *)
FlowsSound ==
  /\ subject = "mixed" => Mixed!RefsCoverFlows /\ Mixed!HandleIsItsFilter
  /\ subject = "clean" => Clean!RefsCoverFlows /\ Clean!HandleIsItsFilter /\ Clean!NothingLeftBehind

(* Every one of them gets to its work: a socket of the wheel is called     *)
(* again and again, an entry of a cache that nobody uses is collected, a   *)
(* registered neighbour ends up knowing what the kernel knows although     *)
(* messages are lost, and the daemon answers the event of a process that   *)
(* ended.                                                                  *)
WorkIsDone ==
  /\ subject = "wheel" => CalledForever
  /\ subject = "cache" => UnusedIsCollected
  /\ subject = "netlink" => KernelIsTold
  /\ subject = "agent" => Agent!EventIsHandled
=============================================================================
