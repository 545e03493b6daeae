----------------------------- MODULE TcpListen -----------------------------
(***************************************************************************)
(* A listening sockinfo_tcp and its children: packets of peers, the SYN    *)
(* and established backlogs, the control packets the internal thread       *)
(* processes for the listener (tcp_ctl_thread) or the receiving thread     *)
(* processes in place, accept(), a child that is reset or times out before *)
(* it is accepted, shutdown() and close() of the listener.                 *)
(*                                                                         *)
(* Threads: "rx" polls the ring of the listener, "int" is the internal     *)
(* thread (timers, and the deletion of closed sockets), "acc" accepts and  *)
(* closes what it accepted, "cls" closes the listener.  A step is what a   *)
(* thread does between two operations on the locks m_tcp_con_lock.  A      *)
(* child is named by the order of its creation.                            *)
(***************************************************************************)
EXTENDS Integers, Sequences, FiniteSets, SequencesExt, Functions

CONSTANTS
  Peers,       \* remote ends, each one 4-tuple
  MaxChildren, \* bound: sockets cloned
  MaxPkts,     \* bound: packets received of a peer
  Backlog,     \* m_backlog
  MaxSynRcvd   \* MAX_SYN_RCVD: peers that may wait in m_rx_peer_packets

ASSUME ListenAssumption ==
  /\ {MaxChildren, MaxPkts, MaxSynRcvd} \subseteq Nat \ {0}
  /\ Backlog \in Nat \ {0} /\ IsFiniteSet(Peers)

L == 0
Kids == 1..MaxChildren
Socks == {L} \cup Kids
Threads == {"rx", "int", "acc", "cls"}
None == "none"
Kinds == {"SYN", "ACK", "FIN", "RST"}

VARIABLES
  ctl,     \* m_sysvar_tcp_ctl_thread > CTL_THREAD_DISABLE
  state,   \* m_sock_state of the listener: READY, SHUT or BOUND (closed)
  cbs,     \* what the callbacks of the listening pcb do: clone, drop or none
  syn,     \* m_syn_received: peer -> child
  queue,   \* m_accepted_conns
  count,   \* m_ready_conn_cnt
  ready,   \* m_ready_pcbs
  ctlList, \* m_rx_ctl_packets_list of every socket
  waiting, \* m_rx_peer_packets: peer -> packets
  kid,     \* the children
  lock,    \* m_tcp_con_lock: owner and depth
  th,      \* the threads: place, packet, child, peers left in a pass, who called
  asleep, wakefd,  \* the acceptor sleeps; the wakeup fd is in its epfd
  rcvd     \* packets received of every peer

listener == <<state, cbs, syn, queue, count, ready, waiting>>
vars == <<ctl, listener, ctlList, kid, lock, th, asleep, wakefd, rcvd>>

NoPkt == [kind |-> None, peer |-> None, of |-> L]
Idle == [pc |-> "idle", pk |-> NoPkt, c |-> L, left |-> {}, by |-> None]
NoKid == [peer |-> None, tcp |-> "CLOSED", sock |-> "BOUND", parent |-> FALSE,
          obj |-> "none", app |-> FALSE]
Free == [own |-> None, n |-> 0]

Init ==
  /\ ctl \in BOOLEAN
  /\ state = "READY" /\ cbs = "clone" /\ syn = <<>> /\ queue = <<>> /\ count = 0
  /\ ready = {} /\ waiting = <<>>
  /\ ctlList = [s \in Socks |-> <<>>] /\ kid = [c \in Kids |-> NoKid]
  /\ lock = [s \in Socks |-> Free] /\ th = [t \in Threads |-> Idle]
  /\ asleep = FALSE /\ wakefd = FALSE /\ rcvd = [p \in Peers |-> 0]

-----------------------------------------------------------------------------
(* Locks are recursive; lk and ul are functions from lock tables to lock   *)
(* tables.  MayLock is the guard of a blocking lock, and of a trylock that *)
(* succeeds.                                                               *)
MayLock(t, s) == lock[s].own \in {None, t}
Lk(l, t, s) == [l EXCEPT ![s] = [own |-> t, n |-> @.n + 1]]
Ul(l, s) == [l EXCEPT ![s] = IF @.n = 1 THEN Free ELSE [@ EXCEPT !.n = @ - 1]]

At(t, p) == th[t].pc = p
Go(t, p) == th' = [th EXCEPT ![t].pc = p]
GoWith(t, p, c) == th' = [th EXCEPT ![t].pc = p, ![t].c = c]
(* What a thread returns to when its packet is done.                       *)
Return(t) ==
  th' = [th EXCEPT ![t] = IF @.by = None THEN Idle
                          ELSE [@ EXCEPT !.pc = th[t].by, !.pk = NoPkt]]

Without(f, p) == Restrict(f, DOMAIN f \ {p})
With(f, p, v) == [q \in DOMAIN f \cup {p} |-> IF q = p THEN v ELSE f[q]]
(* The child of a packet's 4-tuple, or the listener.                       *)
get_syn_received_pcb(p) == IF p \in DOMAIN syn THEN syn[p] ELSE L
Full(k) == Cardinality(DOMAIN syn) >= Backlog /\ k = "SYN"
do_wakeup == wakefd' = (wakefd \/ asleep)

(* close() of a child: prepare_to_close finds the pcb closed, clean_obj    *)
(* posts its deletion to the internal thread.                              *)
Closed(k, c) == [k EXCEPT ![c] = [@ EXCEPT !.tcp = "CLOSED", !.obj = "zombie", !.parent = FALSE]]
(* tcp_abort of a child without a parent: err_lwip_cb.                     *)
Aborted(k, c) ==
  [k EXCEPT ![c] = [@ EXCEPT !.tcp = "CLOSED", !.parent = FALSE,
                             !.sock = IF @ = "BOUND" THEN @ ELSE "INITED"]]

-----------------------------------------------------------------------------
(* rx_input_cb of the listener, under its lock to the end: the packet is   *)
(* dropped, queued for the internal thread, or processed in place.         *)
queue_rx_ctl_packet(pk, s) ==
  /\ ctlList' = [ctlList EXCEPT ![s] = Append(@, pk)]
  /\ ready' = IF s = L THEN ready ELSE ready \cup {s}

rx_input_cb(p, pk) ==
  LET s == get_syn_received_pcb(p)
      full == s = L /\ (waiting # <<>> \/ Full(pk.kind))
  IN
  /\ At("rx", "idle") /\ MayLock("rx", L) /\ rcvd[p] < MaxPkts
  /\ rcvd' = [rcvd EXCEPT ![p] = @ + 1]
  /\ \/ /\ state = "BOUND" \/ (~ctl /\ full)
        /\ UNCHANGED <<ctlList, ready, lock, th>>
     \/ /\ state # "BOUND" /\ ctl /\ queue_rx_ctl_packet(pk, s)
        /\ UNCHANGED <<lock, th>>
     \/ /\ state # "BOUND" /\ ~ctl /\ ~full /\ UNCHANGED <<ctlList, ready>>
        /\ \/ s = L /\ pk.kind # "SYN" /\ UNCHANGED <<lock, th>>
           \/ /\ s = L /\ pk.kind = "SYN" /\ UNCHANGED lock
              /\ th' = [th EXCEPT !["rx"] = [@ EXCEPT !.pc = "clone", !.pk = pk]]
           \/ /\ s # L /\ lock' = Lk(lock, "rx", L)
              /\ th' = [th EXCEPT !["rx"] = [@ EXCEPT !.pc = "lockKid", !.pk = pk, !.c = s]]
  /\ UNCHANGED <<ctl, state, cbs, syn, queue, count, waiting, kid, asleep, wakefd>>

(* A peer sends SYN, and after the SYN-ACK of child c anything for it.     *)
Receive ==
  \E p \in Peers :
    \/ rx_input_cb(p, [kind |-> "SYN", peer |-> p, of |-> L])
    \/ \E k \in Kinds \ {"SYN"} : \E c \in Kids :
         kid[c].peer = p /\ rx_input_cb(p, [kind |-> k, peer |-> p, of |-> c])

(* The lock of the child, taken while the lock of the listener is held.    *)
LockKid(t) ==
  /\ At(t, "lockKid") /\ MayLock(t, th[t].c)
  /\ lock' = Lk(lock, t, th[t].c) /\ Go(t, "input")
  /\ UNCHANGED <<ctl, listener, ctlList, kid, asleep, wakefd, rcvd>>

-----------------------------------------------------------------------------
(* A SYN at the listener: tcp_listen_input has the socket cloned, and the  *)
(* child entered in m_syn_received.  Both callbacks release the lock of    *)
(* the listener and take it again.                                         *)
Fresh == {c \in Kids : kid[c].obj = "none"}

clone_conn_cb(t) ==
  /\ At(t, "clone")
  /\ \/ Fresh = {} /\ Return(t) /\ UNCHANGED kid
     \/ \E c \in Fresh :
          /\ \A d \in Fresh : c <= d
          /\ kid' = [kid EXCEPT ![c] = [NoKid EXCEPT !.peer = th[t].pk.peer, !.obj = "live",
                                                     !.tcp = "SYN_RCVD", !.parent = TRUE]]
          /\ GoWith(t, "cloned", c)
  /\ UNCHANGED <<ctl, listener, ctlList, lock, asleep, wakefd, rcvd>>

(* The callback for the new child may be gone by now: ERR_ARG.             *)
Cloned(t) ==
  /\ At(t, "cloned") /\ MayLock(t, L)
  /\ \/ cbs = "none" /\ Return(t)
     \/ cbs # "none" /\ Go(t, IF cbs = "clone" THEN "synRcvd" ELSE "synDrop")
  /\ UNCHANGED <<ctl, listener, ctlList, kid, lock, asleep, wakefd, rcvd>>

(* A child without a route back is closed at once.                         *)
syn_received_lwip_cb(t) ==
  LET c == th[t].c IN
  /\ At(t, "synRcvd") /\ MayLock(t, L) /\ Return(t)
  /\ \/ kid' = Closed(kid, c) /\ UNCHANGED syn
     \/ syn' = With(syn, kid[c].peer, c) /\ UNCHANGED kid
  /\ UNCHANGED <<ctl, state, cbs, queue, count, ready, waiting, ctlList, lock, asleep, wakefd, rcvd>>

syn_received_drop_lwip_cb(t) ==
  /\ At(t, "synDrop") /\ MayLock(t, L) /\ Return(t)
  /\ kid' = Closed(kid, th[t].c)
  /\ UNCHANGED <<ctl, listener, ctlList, lock, asleep, wakefd, rcvd>>

-----------------------------------------------------------------------------
(* L3_level_tcp_input of a packet for a child, under the child's lock.     *)
Est(k, c, pks) ==
  IF \E i \in DOMAIN pks : pks[i].kind = "RST" /\ pks[i].of = c
    THEN Aborted(k, c)
  ELSE IF \E i \in DOMAIN pks : pks[i].kind = "FIN" /\ pks[i].of = c
    THEN [k EXCEPT ![c].tcp = "CLOSE_WAIT", ![c].sock = "WR"]
  ELSE k

(* The child is reset: err_lwip_cb.  A child that still has a parent is    *)
(* unlocked and taken from it first.                                       *)
Reset(t, k) ==
  LET c == th[t].c IN
  \/ kid[c].parent /\ kid' = k /\ lock' = Ul(lock, c) /\ Go(t, "childFin")
  \/ ~kid[c].parent /\ kid' = Aborted(k, c) /\ Go(t, "done") /\ UNCHANGED lock

(* Mutant: the lock of the child is kept while its parent's is awaited.    *)
AcceptLocked(t) ==
  LET c == th[t].c
      up == [kid EXCEPT ![c].tcp = "ESTABLISHED", ![c].sock = "RDWR", ![c].parent = FALSE]
  IN
  /\ state = "READY" /\ kid' = Est(up, c, ctlList[c]) /\ Go(t, "push")
  /\ ctlList' = [ctlList EXCEPT ![c] = <<>>] /\ UNCHANGED lock

(* The third packet of the handshake: accept_lwip_cb.  The child is        *)
(* connected and forgets its parent; what it got through the parent is     *)
(* processed first; its lock is released.  If the listener no longer       *)
(* accepts, the child is aborted, and err_lwip_cb still has a parent.      *)
accept_lwip_cb(t) ==
  LET c == th[t].c
      up == [kid EXCEPT ![c].tcp = "ESTABLISHED", ![c].sock = "RDWR", ![c].parent = FALSE]
  IN
  \/ state # "READY" /\ Reset(t, [kid EXCEPT ![c].tcp = "CLOSED"]) /\ UNCHANGED ctlList
  \/ /\ state = "READY" /\ kid' = Est(up, c, ctlList[c]) /\ Go(t, "push")
     /\ ctlList' = [ctlList EXCEPT ![c] = <<>>] /\ lock' = Ul(lock, c)

tcp_input(t) ==
  LET c == th[t].c
      k == th[t].pk.kind
      mine == th[t].pk.of = c
      s == kid[c].tcp
  IN
  /\ At(t, "input")
  /\ \/ s = "SYN_RCVD" /\ mine /\ k \in {"ACK", "FIN"} /\ accept_lwip_cb(t)
     \/ s = "SYN_RCVD" /\ mine /\ k = "RST" /\ Reset(t, kid) /\ UNCHANGED ctlList
     \/ /\ ~(s = "SYN_RCVD" /\ mine /\ k \in {"ACK", "FIN", "RST"})
        /\ kid' = IF s \in {"ESTABLISHED", "CLOSE_WAIT"} THEN Est(kid, c, <<th[t].pk>>) ELSE kid
        /\ Go(t, "done") /\ UNCHANGED <<lock, ctlList>>
  /\ UNCHANGED <<ctl, listener, asleep, wakefd, rcvd>>

(* The rest of accept_lwip_cb: the child is queued under the lock of the   *)
(* listener, whatever became of the listener meanwhile.                    *)
Push(t) ==
  /\ At(t, "push") /\ MayLock(t, L)
  /\ ready' = ready \ {th[t].c} /\ queue' = Append(queue, th[t].c) /\ count' = count + 1
  /\ do_wakeup /\ Go(t, "relock")
  /\ UNCHANGED <<ctl, state, cbs, syn, waiting, ctlList, kid, lock, asleep, rcvd>>

(* Back in tcp_process: the child's lock again, then the rest of a FIN.    *)
Relock(t) ==
  LET c == th[t].c IN
  /\ At(t, "relock") /\ MayLock(t, c)
  /\ lock' = Lk(lock, t, c) /\ Go(t, "done")
  /\ kid' = IF kid[c].tcp = "ESTABLISHED" THEN Est(kid, c, <<th[t].pk>>) ELSE kid
  /\ UNCHANGED <<ctl, listener, ctlList, asleep, wakefd, rcvd>>

(* err_lwip_cb of a child with a parent, its lock released:                *)
(* handle_child_FIN under the lock of the listener.  The entry of          *)
(* m_syn_received is erased by the 4-tuple.                                *)
handle_child_FIN(t) ==
  LET c == th[t].c
      p == kid[c].peer
  IN
  /\ At(t, "childFin") /\ MayLock(t, L)
  /\ \/ /\ Contains(queue, c) /\ Go(t, "dead") /\ UNCHANGED <<syn, ready, kid>>
     \/ /\ ~Contains(queue, c) /\ ready' = ready \ {c}
        /\ \/ p \notin DOMAIN syn /\ Go(t, "dead") /\ UNCHANGED <<syn, kid>>
           \/ /\ p \in DOMAIN syn /\ Go(t, "abort")
              /\ syn' = Without(syn, p) /\ kid' = [kid EXCEPT ![c].parent = FALSE]
  /\ UNCHANGED <<ctl, state, cbs, queue, count, waiting, ctlList, lock, asleep, wakefd, rcvd>>

AbortKid(t) ==
  LET c == th[t].c IN
  /\ At(t, "abort") /\ MayLock(t, c) /\ Go(t, "dead")
  /\ kid' = Closed(Aborted(kid, c), c)
  /\ UNCHANGED <<ctl, listener, ctlList, lock, asleep, wakefd, rcvd>>

(* The child's lock again, and tcp_pcb_remove after the callback.          *)
Dead(t) ==
  LET c == th[t].c IN
  /\ At(t, "dead") /\ MayLock(t, c)
  /\ lock' = Lk(lock, t, c) /\ kid' = Aborted(kid, c) /\ Go(t, "done")
  /\ UNCHANGED <<ctl, listener, ctlList, asleep, wakefd, rcvd>>

(* The packet is done.  The receiving thread releases both locks; the      *)
(* internal thread keeps the child's while it drains its list.             *)
Done(t) ==
  /\ At(t, "done") /\ Return(t)
  /\ lock' = IF th[t].by = "drain" THEN lock
             ELSE IF t = "rx" THEN Ul(Ul(lock, th[t].c), L)
             ELSE Ul(lock, th[t].c)
  /\ UNCHANGED <<ctl, listener, ctlList, kid, asleep, wakefd, rcvd>>

-----------------------------------------------------------------------------
(* The internal thread: handle_timer_expired of the listener.              *)
(* process_my_ctl_packets takes the list and sorts it by peer; packets of  *)
(* new peers beyond MAX_SYN_RCVD are dropped.                              *)
Demux(w, pks) ==
  LET Add(acc, pk) ==
        IF pk.peer \in DOMAIN acc THEN [acc EXCEPT ![pk.peer] = Append(@, pk)]
        ELSE IF Cardinality(DOMAIN acc) < MaxSynRcvd THEN With(acc, pk.peer, <<pk>>)
        ELSE acc
  IN FoldLeft(Add, w, pks)

process_my_ctl_packets ==
  /\ At("int", "idle") /\ ctl /\ (ctlList[L] # <<>> \/ waiting # <<>> \/ ready # {})
  /\ waiting' = Demux(waiting, ctlList[L]) /\ ctlList' = [ctlList EXCEPT ![L] = <<>>]
  /\ th' = [th EXCEPT !["int"] = [Idle EXCEPT !.pc = "peers", !.left = DOMAIN waiting']]
  /\ UNCHANGED <<ctl, state, cbs, syn, queue, count, ready, kid, lock, asleep, wakefd, rcvd>>

Waiting(p) == IF p \in DOMAIN waiting THEN waiting[p] ELSE <<>>

(* One packet of process_peer_ctl_packets.  A trylock that fails ends the  *)
(* pass; a SYN beyond the backlog stays for a later pass.                  *)
process_peer_ctl_packets(p) ==
  LET i == th["int"]
      pk == Head(Waiting(p))
      s == get_syn_received_pcb(p)
      skip == th' = [th EXCEPT !["int"].left = @ \ {p}]
      take(pc) == th' = [th EXCEPT !["int"] = [i EXCEPT !.pc = pc, !.pk = pk, !.by = "peers"]]
  IN
  /\ At("int", "peers") /\ p \in i.left
  /\ \/ Waiting(p) = <<>> /\ skip /\ waiting' = Without(waiting, p)
     \/ /\ Waiting(p) # <<>>
        /\ \/ /\ ~MayLock("int", L) /\ Go("int", "kids") /\ UNCHANGED waiting
           \/ /\ MayLock("int", L) /\ s = L /\ state # "BOUND" /\ Full(pk.kind) /\ skip /\ UNCHANGED waiting
           \/ /\ MayLock("int", L) /\ s = L /\ (state = "BOUND" \/ ~Full(pk.kind))
              /\ waiting' = [waiting EXCEPT ![p] = Tail(@)]
              /\ IF state # "BOUND" /\ pk.kind = "SYN" THEN take("clone") ELSE UNCHANGED th
           \/ /\ MayLock("int", L) /\ s # L /\ UNCHANGED waiting
              /\ th' = [th EXCEPT !["int"].pc = "tryKid", !["int"].c = s, !["int"].pk = pk]
  /\ UNCHANGED <<ctl, state, cbs, syn, queue, count, ready, ctlList, kid, lock, asleep, wakefd, rcvd>>

(* The lock of the listener is released before the child's is tried.       *)
TryKid ==
  LET c == th["int"].c
      p == th["int"].pk.peer
  IN
  /\ At("int", "tryKid")
  /\ \/ /\ ~MayLock("int", c) \/ p \notin DOMAIN waiting
        /\ th' = [th EXCEPT !["int"].pc = "peers", !["int"].left = @ \ {p}]
        /\ UNCHANGED <<lock, waiting>>
     \/ /\ MayLock("int", c) /\ p \in DOMAIN waiting /\ lock' = Lk(lock, "int", c)
        /\ waiting' = [waiting EXCEPT ![p] = Tail(@)]
        /\ th' = [th EXCEPT !["int"].pc = "input", !["int"].by = "peers"]
  /\ UNCHANGED <<ctl, state, cbs, syn, queue, count, ready, ctlList, kid, asleep, wakefd, rcvd>>

PeersDone ==
  /\ At("int", "peers") /\ th["int"].left = {} /\ Go("int", "kids")
  /\ UNCHANGED <<ctl, listener, ctlList, kid, lock, asleep, wakefd, rcvd>>

(* process_children_ctl_packets: pick a child of m_ready_pcbs, drain it.   *)
PickReady ==
  /\ At("int", "kids")
  /\ \/ /\ ready = {} \/ ~MayLock("int", L)
        /\ th' = [th EXCEPT !["int"] = Idle]
     \/ /\ MayLock("int", L)
        /\ \E c \in ready : th' = [th EXCEPT !["int"].pc = "readyKid", !["int"].c = c]
  /\ UNCHANGED <<ctl, listener, ctlList, kid, lock, asleep, wakefd, rcvd>>

LockReady ==
  LET c == th["int"].c IN
  /\ At("int", "readyKid")
  /\ \/ /\ ~MayLock("int", c) /\ th' = [th EXCEPT !["int"] = Idle] /\ UNCHANGED lock
     \/ MayLock("int", c) /\ Go("int", "drain") /\ lock' = Lk(lock, "int", c)
  /\ UNCHANGED <<ctl, listener, ctlList, kid, asleep, wakefd, rcvd>>

Drain ==
  LET c == th["int"].c
      ps == ctlList[c]
  IN
  /\ At("int", "drain")
  /\ \/ ps = <<>> /\ Go("int", "drained") /\ lock' = Ul(lock, c) /\ UNCHANGED ctlList
     \/ /\ ps # <<>> /\ ctlList' = [ctlList EXCEPT ![c] = Tail(@)] /\ UNCHANGED lock
        /\ th' = [th EXCEPT !["int"] = [@ EXCEPT !.pc = "input", !.pk = Head(ps), !.by = "drain"]]
  /\ UNCHANGED <<ctl, listener, kid, asleep, wakefd, rcvd>>

Drained ==
  LET c == th["int"].c IN
  /\ At("int", "drained")
  /\ \/ /\ ~MayLock("int", L) /\ th' = [th EXCEPT !["int"] = Idle] /\ UNCHANGED ready
     \/ /\ MayLock("int", L) /\ Go("int", "kids")
        /\ ready' = IF ctlList[c] = <<>> THEN ready \ {c} ELSE ready
  /\ UNCHANGED <<ctl, state, cbs, syn, queue, count, waiting, ctlList, kid, lock, asleep, wakefd, rcvd>>

(* handle_timer_expired of a child: its own control packets, then          *)
(* tcp_timer, in which a child in SYN_RCVD may have waited too long.       *)
ChildTimer(c) ==
  /\ At("int", "idle") /\ kid[c].obj = "live" /\ MayLock("int", c)
  /\ \/ /\ ctl /\ ctlList[c] # <<>> /\ lock' = Lk(lock, "int", c)
        /\ ctlList' = [ctlList EXCEPT ![c] = Tail(@)]
        /\ th' = [th EXCEPT !["int"] = [Idle EXCEPT !.pc = "input", !.pk = Head(ctlList[c]), !.c = c]]
     \/ /\ kid[c].tcp = "SYN_RCVD" /\ kid[c].parent /\ \E p \in DOMAIN syn : syn[p] = c
        /\ th' = [th EXCEPT !["int"] = [Idle EXCEPT !.pc = "childFin", !.c = c]]
        /\ UNCHANGED <<lock, ctlList>>
  /\ UNCHANGED <<ctl, listener, kid, asleep, wakefd, rcvd>>

(* The posted deletion of a closed child.                                  *)
Delete(c) ==
  /\ At("int", "idle") /\ kid[c].obj = "zombie" /\ kid' = [kid EXCEPT ![c].obj = "deleted"]
  /\ UNCHANGED <<ctl, listener, ctlList, lock, th, asleep, wakefd, rcvd>>

-----------------------------------------------------------------------------
(* accept_helper: take a queued connection, fail if the listener no longer *)
(* accepts, or wait.                                                       *)
accept_helper ==
  /\ At("acc", "idle") \/ At("acc", "accept")
  /\ MayLock("acc", L)
  /\ \/ /\ count > 0
        /\ queue' = Tail(queue) /\ count' = count - 1
        /\ syn' = Without(syn, kid[Head(queue)].peer)
        /\ kid' = [kid EXCEPT ![Head(queue)].app = TRUE]
        /\ th' = [th EXCEPT !["acc"] = Idle]
     \/ /\ count = 0 /\ state # "READY" /\ At("acc", "accept")
        /\ th' = [th EXCEPT !["acc"] = Idle] /\ UNCHANGED <<queue, count, syn, kid>>
     \/ /\ count = 0 /\ state = "READY" /\ Go("acc", "wait")
        /\ UNCHANGED <<queue, count, syn, kid>>
  /\ UNCHANGED <<ctl, state, cbs, ready, waiting, ctlList, lock, asleep, wakefd, rcvd>>

(* rx_wait_helper: go to sleep under the lock if still nothing is there.   *)
WaitCheck ==
  /\ At("acc", "wait") /\ MayLock("acc", L)
  /\ \/ count > 0 /\ Go("acc", "accept") /\ UNCHANGED asleep
     \/ count = 0 /\ Go("acc", "sleep") /\ asleep' = TRUE
  /\ UNCHANGED <<ctl, listener, ctlList, kid, lock, wakefd, rcvd>>

Wake ==
  /\ At("acc", "sleep") /\ wakefd /\ MayLock("acc", L)
  /\ asleep' = FALSE /\ Go("acc", "woken")
  /\ UNCHANGED <<ctl, listener, ctlList, kid, lock, wakefd, rcvd>>

RemoveWakeupFd ==
  /\ At("acc", "woken") /\ MayLock("acc", L) /\ wakefd' = FALSE /\ Go("acc", "accept")
  /\ UNCHANGED <<ctl, listener, ctlList, kid, lock, asleep, rcvd>>

(* The application closes what it accepted.                                *)
CloseAccepted(c) ==
  /\ At("acc", "idle") /\ kid[c].app /\ kid[c].obj = "live" /\ MayLock("acc", c)
  /\ kid' = Closed(kid, c)
  /\ UNCHANGED <<ctl, listener, ctlList, lock, th, asleep, wakefd, rcvd>>

-----------------------------------------------------------------------------
(* shutdown(SHUT_RD) of the listener: new SYNs are cloned and dropped.     *)
shutdown ==
  /\ At("cls", "idle") /\ state = "READY" /\ MayLock("cls", L)
  /\ state' = "SHUT" /\ cbs' = "drop" /\ do_wakeup
  /\ UNCHANGED <<ctl, syn, queue, count, ready, waiting, ctlList, kid, lock, th, asleep, rcvd>>

(* prepare_to_close of the listener; prepare_listen_to_close takes the     *)
(* children one by one and waits for the lock of each.                     *)
prepare_to_close ==
  /\ At("cls", "idle") /\ state # "BOUND" /\ MayLock("cls", L)
  /\ state' = "BOUND" /\ cbs' = "none" /\ waiting' = <<>> /\ ctlList' = [ctlList EXCEPT ![L] = <<>>]
  /\ lock' = Lk(lock, "cls", L) /\ Go("cls", "closing")
  /\ UNCHANGED <<ctl, syn, queue, count, ready, kid, asleep, wakefd, rcvd>>

prepare_listen_to_close ==
  LET c == Head(queue) IN
  /\ At("cls", "closing")
  /\ \/ /\ queue # <<>> /\ GoWith("cls", "closeKid", c)
        /\ queue' = Tail(queue) /\ count' = count - 1
        /\ syn' = Without(syn, kid[c].peer) /\ kid' = [kid EXCEPT ![c].sock = "INITED"]
        /\ UNCHANGED <<wakefd, lock>>
     \/ /\ queue = <<>> /\ UNCHANGED <<queue, count, wakefd, lock>>
        /\ \E p \in DOMAIN syn :
             /\ GoWith("cls", "closeKid", syn[p]) /\ syn' = Without(syn, p)
             /\ kid' = [kid EXCEPT ![syn[p]].sock = "INITED"]
     \/ /\ queue = <<>> /\ syn = <<>> /\ do_wakeup
        /\ lock' = Ul(lock, L) /\ Go("cls", "closed") /\ UNCHANGED <<queue, count, syn, kid>>
  /\ UNCHANGED <<ctl, state, cbs, ready, waiting, ctlList, asleep, rcvd>>

CloseKid ==
  LET c == th["cls"].c IN
  /\ At("cls", "closeKid") /\ MayLock("cls", c)
  /\ kid' = Closed(Aborted(kid, c), c) /\ GoWith("cls", "closing", L)
  /\ UNCHANGED <<ctl, listener, ctlList, lock, asleep, wakefd, rcvd>>

Packet(t) ==
  \/ clone_conn_cb(t) \/ Cloned(t) \/ syn_received_lwip_cb(t) \/ syn_received_drop_lwip_cb(t)
  \/ tcp_input(t) \/ Push(t) \/ Relock(t) \/ handle_child_FIN(t) \/ AbortKid(t) \/ Dead(t) \/ Done(t)
InternalThread ==
  \/ process_my_ctl_packets \/ (\E p \in Peers : process_peer_ctl_packets(p)) \/ TryKid \/ PeersDone
  \/ PickReady \/ LockReady \/ Drain \/ Drained \/ (\E c \in Kids : ChildTimer(c) \/ Delete(c))
Acceptor == accept_helper \/ WaitCheck \/ Wake \/ RemoveWakeupFd \/ (\E c \in Kids : CloseAccepted(c))
Closer == shutdown \/ prepare_to_close \/ prepare_listen_to_close \/ CloseKid
Next ==
  \/ Receive \/ LockKid("rx") \/ (\E t \in {"rx", "int"} : Packet(t))
  \/ InternalThread \/ Acceptor \/ Closer

Spec == Init /\ [][Next]_vars

-----------------------------------------------------------------------------
TypeOK ==
  /\ ctl \in BOOLEAN /\ state \in {"READY", "SHUT", "BOUND"} /\ cbs \in {"clone", "drop", "none"}
  /\ DOMAIN syn \subseteq Peers /\ Range(syn) \subseteq Kids /\ Range(queue) \subseteq Kids
  /\ count = Len(queue) /\ ready \subseteq Kids /\ DOMAIN waiting \subseteq Peers
  /\ \A s \in Socks : lock[s].own \in Threads \cup {None} /\ (lock[s].n = 0 <=> lock[s].own = None)
  /\ \A c \in Kids : kid[c].obj \in {"none", "live", "zombie", "deleted"}
  /\ asleep \in BOOLEAN /\ wakefd \in BOOLEAN

(* The places where a thread works on the child it holds a pointer to.     *)
InHand(c) == \E t \in Threads : th[t].c = c /\ th[t].pc # "idle"

(* With tcp_ctl_thread a connection is never lost: while the listener is   *)
(* open, a child that was not closed is in m_syn_received or               *)
(* m_accepted_conns, or the application has it, or a thread is about to    *)
(* list or to close it.  (Without it, a child whose timeout meets a reset  *)
(* and a new SYN of its peer may erase the entry of the next child.)       *)
ChildIsListed ==
  ctl /\ state # "BOUND" =>
    \A c \in Kids : kid[c].obj = "live" =>
      c \in Range(syn) \/ Contains(queue, c) \/ kid[c].app \/ InHand(c)

(* With tcp_ctl_thread nobody works on a deleted child.  A child found in  *)
(* m_syn_received is used after the lock of the listener was released, and *)
(* close() may come between; but the thread that uses it is the one that   *)
(* deletes.  Without tcp_ctl_thread the receiving thread takes the lock of *)
(* a child it closed.  The children of m_ready_pcbs are excepted: nothing  *)
(* takes an accepted child out of that map.                                *)
KidIsAlive ==
  \A t \in Threads :
    /\ ctl /\ th[t].c # L /\ th[t].by # "drain"
    /\ th[t].pc \notin {"idle", "peers", "kids", "readyKid", "drain", "drained"}
    => kid[th[t].c].obj # "deleted"

(* accept() never sleeps beside a connection it could take: Push wakes the *)
(* sleeper under the lock under which it went to sleep.                    *)
AcceptorIsServed == asleep /\ count > 0 => wakefd

(* Two threads never wait for each other's lock.                           *)
Wants(t) ==
  CASE th[t].pc \in {"lockKid", "relock", "abort", "dead", "closeKid"} -> th[t].c
    [] th[t].pc \in {"cloned", "synRcvd", "synDrop", "push", "childFin"} -> L
    [] OTHER -> -1
WaitsFor(t, u) == t # u /\ Wants(t) # -1 /\ lock[Wants(t)].own = u
NoLockCycle == \A t, u \in Threads : ~(WaitsFor(t, u) /\ WaitsFor(u, t))

=============================================================================
