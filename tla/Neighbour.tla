------------------------------ MODULE Neighbour ------------------------------
(* One neigh_entry (vma/proto/neighbour.cpp) with its state machine            *)
(* (state_machine/sm.cpp), the two recursive locks it is used under, the       *)
(* destinations that observe it and the internal thread that resolves it.      *)
(*                                                                             *)
(* Two locks matter.  m_sm_lock is held while an event is processed; m_lock    *)
(* (the subject's lock) protects the value, the queue of unsent packets and    *)
(* the observers.  The entry functions of the state machine take m_lock under  *)
(* m_sm_lock; get_peer_info and handle_neigh_event raise events, and so take   *)
(* m_sm_lock, under m_lock.  A step of the model is what a thread does between *)
(* two lock operations.                                                        *)
(*                                                                             *)
(* The state machine publishes a new state only after its entry function has   *)
(* run; an event raised inside an entry function waits in a fifo and is        *)
(* processed before m_sm_lock is given up.                                     *)
EXTENDS Naturals, Sequences, FiniteSets

CONSTANTS
    Apps,        \* destinations (dst_entry), each used by a thread of its own
    Creator,     \* the one whose register_observer created the entry
    Int,         \* the internal thread: timers, rdma_cm, verbs, netlink
    Transport,   \* "ETH" or "IB"
    L2s,         \* link layer addresses the peer may have
    NudStates,   \* netlink states of the peer that occur in this instance
    Retries,     \* VMA_NEIGH_NUM_ERR_RETRIES
    MaxPackets,  \* bound on packets passed to the entry
    MaxNews,     \* bound on netlink and verbs events
    NoL2,        \* no link layer address
    Free         \* a lock nobody holds

ASSUME NeighbourAssumption ==
    /\ Creator \in Apps /\ Int \notin Apps /\ Free \notin Apps \cup {Int}
    /\ Transport \in {"ETH", "IB"}
    /\ NudStates \subseteq {"REACHABLE", "STALE", "DELAY", "INCOMPLETE", "FAILED"}
    /\ NoL2 \notin L2s
    /\ {Retries, MaxPackets, MaxNews} \subseteq Nat

VARIABLES
    st,       \* state_machine: the published state (old_state)
    fifo,     \* state_machine: events raised while one is processed
    smLock,   \* owner of m_sm_lock
    mLock,    \* owner of m_lock
    tblLock,  \* owner of the table's lock (cache_table_mgr)
    at,       \* where each thread stands
    ev,       \* the event a thread raises or processes
    tgt,      \* the state being entered by the owner of m_sm_lock
    outer,    \* the thread raised its event with m_lock already held
    mState,   \* m_state: the value may be used
    l2,       \* m_val->m_l2_address
    unsent,   \* length of m_unsent_queue
    errs,     \* m_err_counter
    cma,      \* m_cma_id and the request outstanding on it
    verbs,    \* registered for verbs events (IB)
    timers,   \* one-shot timers pending, by whether clean_obj came first
    nud,      \* netlink cache: state of the peer, "NONE" when unknown
    nudL2,    \* netlink cache: its link layer address
    nlEvent,  \* state carried by the netlink event being delivered
    cleaned,  \* removed from the table, clean_obj has run
    alive,    \* not yet deleted
    observers,\* m_observers
    valid,    \* dst_entry::m_is_valid
    copy,     \* dst_entry::m_p_neigh_val
    packets,  \* packets passed to the entry so far
    news      \* netlink and verbs events so far

lockVars  == <<smLock, mLock, tblLock>>
valVars   == <<mState, l2, unsent, errs, cma, verbs>>
peerVars  == <<nud, nudL2, nlEvent, news>>
dstVars   == <<observers, valid, copy, packets>>
lifeVars  == <<cleaned, alive>>
vars == <<st, fifo, lockVars, at, ev, tgt, outer, valVars, timers, peerVars,
          lifeVars, dstVars>>

Threads == Apps \cup {Int}
States  == {"NOT_ACTIVE", "INIT", "INIT_RESOLUTION", "ADDR_RESOLVED",
            "ARP_RESOLVED", "PATH_RESOLVED", "READY", "ERROR"}
Events  == {"KICK_START", "START_RESOLUTION", "ARP_RESOLVED", "ADDR_RESOLVED",
            "PATH_RESOLVED", "ERROR", "TIMEOUT_EXPIRED"}
Places  == {"idle", "raise", "process", "enter", "notify", "retry", "publish",
            "timer", "verify", "rearm", "netlink", "join", "prepared", "checked",
            "send", "remove"}

\* short_sm_table of neigh_eth: <<state, event>> to next state.
EthTable == {<<"NOT_ACTIVE", "KICK_START", "INIT">>, <<"ERROR", "KICK_START", "INIT">>,
             <<"INIT", "ARP_RESOLVED", "READY">>,
             <<"INIT", "START_RESOLUTION", "INIT_RESOLUTION">>,
             <<"INIT_RESOLUTION", "ADDR_RESOLVED", "ADDR_RESOLVED">>,
             <<"INIT_RESOLUTION", "ARP_RESOLVED", "READY">>,
             <<"ADDR_RESOLVED", "ARP_RESOLVED", "READY">>,
             <<"READY", "ERROR", "ERROR">>, <<"INIT", "ERROR", "ERROR">>,
             <<"INIT_RESOLUTION", "ERROR", "ERROR">>,
             <<"ERROR", "ERROR", "NOT_ACTIVE">>}

\* short_sm_table of neigh_ib.
IbTable == {<<"NOT_ACTIVE", "KICK_START", "INIT">>, <<"ERROR", "KICK_START", "INIT">>,
            <<"INIT", "START_RESOLUTION", "INIT_RESOLUTION">>,
            <<"INIT_RESOLUTION", "ADDR_RESOLVED", "ARP_RESOLVED">>,
            <<"ARP_RESOLVED", "PATH_RESOLVED", "PATH_RESOLVED">>,
            <<"PATH_RESOLVED", "TIMEOUT_EXPIRED", "READY">>,
            <<"PATH_RESOLVED", "ERROR", "ERROR">>, <<"ARP_RESOLVED", "ERROR", "ERROR">>,
            <<"READY", "ERROR", "ERROR">>, <<"INIT", "ERROR", "ERROR">>,
            <<"INIT_RESOLUTION", "ERROR", "ERROR">>,
            <<"ERROR", "ERROR", "NOT_ACTIVE">>}

Table == IF Transport = "ETH" THEN EthTable ELSE IbTable

\* priv_is_reachable, priv_is_failed on what priv_get_neigh_state returned.
Known     == nud # "NONE"
Reachable == nud = "REACHABLE"
Usable    == Known /\ nud \notin {"FAILED", "INCOMPLETE"}

\* m_lock is recursive: free, or already held by this thread.
CanLock(t) == mLock \in {Free, t}

\* priv_register_timer_event: refused once the entry has been cleaned.
RegisterTimer == IF cleaned THEN timers ELSE [timers EXCEPT ![cleaned] = @ + 1]

------------------------------------------------------------------------------
(* The constructor kicks the state machine, in prepare_to_send of its creator  *)
(* and under the table's lock.                                                 *)
Init ==
    /\ st = "NOT_ACTIVE" /\ fifo = <<>>
    /\ smLock = Free /\ mLock = Free /\ tblLock = Creator
    /\ at = [t \in Threads |-> IF t = Creator THEN "raise" ELSE "idle"]
    /\ ev = [t \in Threads |-> IF t = Creator THEN "KICK_START" ELSE "none"]
    /\ tgt = "NOT_ACTIVE"
    /\ outer = [t \in Threads |-> FALSE]
    /\ mState = FALSE /\ l2 = NoL2 /\ unsent = 0 /\ errs = 0 /\ cma = "null"
    /\ verbs = FALSE /\ timers = [late \in BOOLEAN |-> 0]
    /\ nud \in NudStates \cup {"NONE"} /\ nudL2 \in L2s
    /\ nlEvent = "none" /\ news = 0
    /\ cleaned = FALSE /\ alive = TRUE
    /\ observers = {} /\ valid = [a \in Apps |-> a = Creator]
    /\ copy = [a \in Apps |-> NoL2] /\ packets = 0

------------------------------------------------------------------------------
(* event_handler and state_machine::process_event.                             *)

Goto(t, place) == at' = [at EXCEPT ![t] = place]

\* A thread is about to raise event e; hold: it keeps m_lock meanwhile.
Raise(t, e, hold) ==
    /\ Goto(t, "raise")
    /\ ev' = [ev EXCEPT ![t] = e]
    /\ outer' = [outer EXCEPT ![t] = hold]
    /\ mLock' = IF hold THEN t ELSE mLock

\* A thread returns to its loop and gives up the locks of its caller.
Return(t) ==
    /\ Goto(t, "idle")
    /\ mLock' = IF mLock = t THEN Free ELSE mLock
    /\ tblLock' = IF tblLock = t THEN Free ELSE tblLock

EventHandler(t) ==
    /\ at[t] = "raise" /\ smLock = Free
    /\ smLock' = t
    /\ Goto(t, "process")
    /\ UNCHANGED <<st, fifo, mLock, tblLock, ev, tgt, outer, valVars, timers,
                   peerVars, lifeVars, dstVars>>

\* unlock_in_process: the oldest pending event, or m_sm_lock is given up and
\* the caller goes on: get_peer_info looks at m_state again, still under m_lock;
\* the constructor goes on to register its creator.
NextEvent(t) ==
    IF fifo # <<>>
    THEN /\ ev' = [ev EXCEPT ![t] = Head(fifo)]
         /\ fifo' = Tail(fifo)
         /\ Goto(t, "process")
         /\ UNCHANGED lockVars
         /\ UNCHANGED outer
    ELSE /\ smLock' = Free
         /\ ev' = [ev EXCEPT ![t] = "none"]
         /\ UNCHANGED fifo
         /\ outer' = [outer EXCEPT ![t] = FALSE]
         /\ IF t = Int THEN Return(t)
                       ELSE /\ Goto(t, IF outer[t] THEN "checked" ELSE "join")
                            /\ UNCHANGED <<mLock, tblLock>>

Process(t) ==
    /\ at[t] = "process"
    /\ \/ \E row \in Table :
             /\ row[1] = st /\ row[2] = ev[t]
             /\ tgt' = row[3]
             /\ Goto(t, "enter")
             /\ UNCHANGED <<lockVars, fifo, ev, outer>>
       \/ /\ ~\E row \in Table : row[1] = st /\ row[2] = ev[t]
          /\ NextEvent(t)
          /\ UNCHANGED tgt
    /\ UNCHANGED <<st, valVars, timers, peerVars, lifeVars, dstVars>>

\* The entry function is done: only now is the new state published.
Publish(t) ==
    /\ at[t] = "publish"
    /\ st' = tgt
    /\ NextEvent(t)
    /\ UNCHANGED <<tgt, valVars, timers, peerVars, lifeVars, dstVars>>

------------------------------------------------------------------------------
(* The entry functions.  An event they raise goes to the fifo.                 *)

Push(e) == fifo' = Append(fifo, e)

Entering(t, state) == /\ at[t] = "enter" /\ tgt = state
                      /\ UNCHANGED <<st, smLock, tblLock, ev, tgt, outer,
                                     peerVars, lifeVars, copy, packets>>

EnterInit(t) ==
    /\ Entering(t, "INIT")
    /\ IF Transport = "ETH" /\ Usable
       THEN Push("ARP_RESOLVED") /\ UNCHANGED timers
       ELSE CanLock(t) /\ timers' = RegisterTimer /\ UNCHANGED fifo
    /\ Goto(t, "publish")
    /\ UNCHANGED <<mLock, valVars, observers, valid>>

\* A new rdma_cm id and rdma_resolve_addr; either call may fail.
EnterInitResolution(t) ==
    /\ Entering(t, "INIT_RESOLUTION")
    /\ \/ /\ cma' = "addr"
          /\ IF Transport = "ETH" /\ Usable THEN Push("ARP_RESOLVED") ELSE UNCHANGED fifo
       \/ cma' \in {"null", "unused"} /\ Push("ERROR")
    /\ Goto(t, "publish")
    /\ UNCHANGED <<mLock, mState, l2, unsent, errs, verbs, timers, observers, valid>>

\* ETH: an ARP is sent and the timer armed until the peer is reachable.
EnterAddrResolved(t) ==
    /\ Entering(t, "ADDR_RESOLVED") /\ CanLock(t)
    /\ IF Reachable THEN Push("ARP_RESOLVED") /\ UNCHANGED timers
                    ELSE timers' = RegisterTimer /\ UNCHANGED fifo
    /\ Goto(t, "publish")
    /\ UNCHANGED <<mLock, valVars, observers, valid>>

\* IB: find_pd, register for verbs events, resolve the route or join; the
\* protection domain or the call may be missing.
EnterArpResolved(t) ==
    /\ Entering(t, "ARP_RESOLVED")
    /\ \/ verbs' = TRUE /\ cma' = "route" /\ UNCHANGED fifo
       \/ verbs' \in {verbs, TRUE} /\ UNCHANGED cma /\ Push("ERROR")
    /\ Goto(t, "publish")
    /\ UNCHANGED <<mLock, mState, l2, unsent, errs, timers, observers, valid>>

EnterPathResolvedNoTimer(t) ==
    /\ Entering(t, "PATH_RESOLVED")
    /\ l2' = IF Usable THEN nudL2 ELSE l2
    /\ \/ Usable /\ CanLock(t) /\ UNCHANGED fifo
       \/ Push("ERROR")
    /\ Goto(t, "publish")
    /\ UNCHANGED <<mLock, mState, unsent, errs, cma, verbs, timers, observers, valid>>

\* IB: the value is built from netlink and the path; create_ah may fail.
EnterPathResolved(t) ==
    /\ Entering(t, "PATH_RESOLVED")
    /\ l2' = IF Usable THEN nudL2 ELSE l2
    /\ \/ Usable /\ CanLock(t) /\ timers' = RegisterTimer /\ UNCHANGED fifo
       \/ Push("ERROR") /\ UNCHANGED timers
    /\ Goto(t, "publish")
    /\ UNCHANGED <<mLock, mState, unsent, errs, cma, verbs, observers, valid>>

\* m_state is set and the queue emptied in one hold of m_lock.  ETH first drops
\* the rdma_cm id and builds the value, which fails when netlink lost the peer.
EnterReady(t) ==
    /\ Entering(t, "READY") /\ CanLock(t)
    /\ cma' = IF Transport = "ETH" THEN "null" ELSE cma
    /\ IF Transport = "ETH" /\ ~Usable
       THEN Push("ERROR") /\ UNCHANGED <<mState, l2, unsent, timers>>
       ELSE /\ mState' = TRUE /\ unsent' = 0
            /\ l2' = IF Transport = "ETH" THEN nudL2 ELSE l2
            /\ timers' = IF Known /\ ~Reachable THEN RegisterTimer ELSE timers
            /\ UNCHANGED fifo
    /\ Goto(t, "publish")
    /\ UNCHANGED <<mLock, errs, verbs, observers, valid>>

\* The value is dropped under m_lock; neigh_ib keeps m_lock to the end.
EnterError(t) ==
    /\ Entering(t, "ERROR") /\ CanLock(t)
    /\ mState' = FALSE /\ cma' = "null" /\ verbs' = FALSE /\ l2' = NoL2
    /\ mLock' = IF Transport = "IB" THEN t ELSE mLock
    /\ Goto(t, "notify")
    /\ UNCHANGED <<unsent, errs, fifo, timers, observers, valid>>

NotifyWaiting(t) ==
    /\ at[t] = "notify" /\ CanLock(t)
    /\ valid' = [a \in Apps |-> valid[a] /\ (a \notin observers \/ unsent = 0)]
    /\ Goto(t, "retry")
    /\ UNCHANGED <<st, fifo, lockVars, ev, tgt, outer, valVars, timers, peerVars,
                   lifeVars, observers, copy, packets>>

\* notify_observers: every observer's notify_cb clears its state.
Notify(t) ==
    /\ at[t] = "notify" /\ CanLock(t)
    /\ valid' = [a \in Apps |-> valid[a] /\ a \notin observers]
    /\ Goto(t, "retry")
    /\ UNCHANGED <<st, fifo, lockVars, ev, tgt, outer, valVars, timers, peerVars,
                   lifeVars, observers, copy, packets>>

RetryForever(t) ==
    /\ at[t] = "retry" /\ CanLock(t)
    /\ IF unsent > 0
       THEN errs' = errs + 1 /\ Push("KICK_START")
       ELSE errs' = 0 /\ Push("ERROR")
    /\ mLock' = IF mLock = t /\ ~outer[t] THEN Free ELSE mLock
    /\ Goto(t, "publish")
    /\ UNCHANGED <<st, smLock, tblLock, ev, tgt, outer, mState, l2, unsent, cma,
                   verbs, timers, peerVars, lifeVars, dstVars>>

\* Packets wait and retries are left: start again, otherwise give up.
Retry(t) ==
    /\ at[t] = "retry" /\ CanLock(t)
    /\ IF unsent > 0 /\ errs < Retries
       THEN errs' = errs + 1 /\ Push("KICK_START")
       ELSE errs' = 0 /\ Push("ERROR")
    /\ mLock' = IF mLock = t /\ ~outer[t] THEN Free ELSE mLock
    /\ Goto(t, "publish")
    /\ UNCHANGED <<st, smLock, tblLock, ev, tgt, outer, mState, l2, unsent, cma,
                   verbs, timers, peerVars, lifeVars, dstVars>>

EnterNotActive(t) ==
    /\ Entering(t, "NOT_ACTIVE") /\ CanLock(t)
    /\ mState' = FALSE /\ cma' = "null" /\ verbs' = FALSE /\ l2' = NoL2
    /\ unsent' = 0
    /\ Goto(t, "publish")
    /\ UNCHANGED <<mLock, errs, fifo, timers, observers, valid>>

------------------------------------------------------------------------------
(* The internal thread: timers, rdma_cm, verbs and netlink events.             *)

TimerExpired ==
    /\ at[Int] = "idle" /\ alive
    /\ \E late \in BOOLEAN :
          timers[late] > 0 /\ timers' = [timers EXCEPT ![late] = @ - 1]
    /\ Goto(Int, "timer")
    /\ UNCHANGED <<st, fifo, lockVars, ev, tgt, outer, valVars, peerVars, lifeVars,
                   dstVars>>

\* handle_timer_expired reads the state under m_sm_lock and then lets go of it.
TimerEvent ==
    CASE st = "INIT" -> "START_RESOLUTION"
      [] st = "PATH_RESOLVED" /\ Transport = "IB" -> "TIMEOUT_EXPIRED"
      [] OTHER -> "none"

HandleTimer ==
    /\ at[Int] = "timer" /\ smLock = Free
    /\ IF TimerEvent # "none" THEN Raise(Int, TimerEvent, FALSE)
       ELSE /\ Goto(Int, IF Transport = "IB" /\ st # "READY" THEN "idle" ELSE "verify")
            /\ UNCHANGED <<mLock, ev, outer>>
    /\ UNCHANGED <<st, fifo, smLock, tblLock, tgt, valVars, timers, peerVars,
                   lifeVars, dstVars>>

\* priv_handle_neigh_is_l2_changed: an address that is missing or differs is
\* an error, raised under m_lock.
L2Changed == l2 # nudL2

\* No ARP while the peer is unknown, or while it is reachable and unchanged.
VerifyPeer ==
    /\ at[Int] = "verify"
    /\ IF Usable /\ L2Changed
       THEN CanLock(Int) /\ Raise(Int, "ERROR", TRUE)
       ELSE /\ Usable => CanLock(Int)
            /\ Goto(Int, IF Known /\ ~Reachable THEN "rearm" ELSE "idle")
            /\ UNCHANGED <<mLock, ev, outer>>
    /\ UNCHANGED <<st, fifo, smLock, tblLock, tgt, valVars, timers, peerVars,
                   lifeVars, dstVars>>

\* An ARP is sent and the timer armed again.
Rearm ==
    /\ at[Int] = "rearm" /\ CanLock(Int)
    /\ timers' = RegisterTimer
    /\ Return(Int)
    /\ UNCHANGED <<st, fifo, smLock, ev, tgt, outer, valVars, peerVars, lifeVars,
                   dstVars>>

\* The outcome of rdma_resolve_addr, rdma_resolve_route.
RdmaCmEvent ==
    /\ at[Int] = "idle" /\ alive /\ cma \in {"addr", "route"}
    /\ cma' = "unused"
    /\ \E e \in {IF cma = "addr" THEN "ADDR_RESOLVED" ELSE "PATH_RESOLVED", "ERROR"} :
          Raise(Int, e, FALSE)
    /\ UNCHANGED <<st, fifo, smLock, tblLock, tgt, mState, l2, unsent, errs, verbs,
                   timers, peerVars, lifeVars, dstVars>>

\* IBV_EVENT_SM_CHANGE, IBV_EVENT_CLIENT_REREGISTER.
VerbsEvent ==
    /\ at[Int] = "idle" /\ alive /\ verbs /\ news < MaxNews
    /\ news' = news + 1
    /\ Raise(Int, "ERROR", FALSE)
    /\ UNCHANGED <<st, fifo, smLock, tblLock, tgt, valVars, timers, nud, nudL2,
                   nlEvent, lifeVars, dstVars>>

\* neigh_table_mgr::notify_cb: the netlink cache has changed, or the peer left it
\* in some last state; an entry that is still in the table is told, under the
\* table's lock.
NetlinkEvent ==
    /\ at[Int] = "idle" /\ news < MaxNews /\ tblLock = Free
    /\ news' = news + 1
    /\ \E state \in NudStates :
          /\ nud' \in {state, "NONE"} /\ nudL2' \in L2s
          /\ IF cleaned THEN UNCHANGED <<at, tblLock, nlEvent>>
             ELSE Goto(Int, "netlink") /\ tblLock' = Int /\ nlEvent' = state
    /\ UNCHANGED <<st, fifo, smLock, mLock, ev, tgt, outer, valVars, timers,
                   lifeVars, dstVars>>

\* handle_neigh_event.
HandleNeighEvent ==
    /\ at[Int] = "netlink"
    /\ \/ /\ nlEvent = "REACHABLE" /\ CanLock(Int)
          /\ IF st # "READY" THEN Raise(Int, "ARP_RESOLVED", TRUE) /\ UNCHANGED tblLock
             ELSE IF L2Changed THEN Raise(Int, "ERROR", TRUE) /\ UNCHANGED tblLock
             ELSE Return(Int) /\ UNCHANGED <<ev, outer>>
       \/ /\ nlEvent = "STALE" /\ CanLock(Int)
          /\ IF st # "READY" THEN Return(Int) /\ UNCHANGED <<ev, outer>>
             ELSE IF L2Changed THEN Raise(Int, "ERROR", TRUE) /\ UNCHANGED tblLock
             ELSE Goto(Int, "rearm") /\ UNCHANGED <<mLock, tblLock, ev, outer>>
       \/ nlEvent = "FAILED" /\ Raise(Int, "ERROR", FALSE) /\ UNCHANGED tblLock
       \/ nlEvent \in {"INCOMPLETE", "DELAY"} /\ Return(Int) /\ UNCHANGED <<ev, outer>>
    /\ nlEvent' = "none"
    /\ UNCHANGED <<st, fifo, smLock, tgt, valVars, timers, nud, nudL2, news, lifeVars,
                   dstVars>>

------------------------------------------------------------------------------
(* The end of the entry: is_deletable, clean_obj, the destructor.              *)

IsDeletable == st \in {"NOT_ACTIVE", "READY"}

\* run_garbage_collector.
CollectGarbage ==
    /\ at[Int] = "idle" /\ tblLock = Free /\ ~cleaned
    /\ observers = {} /\ IsDeletable
    /\ tblLock' = Int
    /\ Goto(Int, "remove")
    /\ UNCHANGED <<st, fifo, smLock, mLock, ev, tgt, outer, valVars, timers,
                   peerVars, lifeVars, dstVars>>

\* clean_obj: the deletion is queued for the internal thread.
CleanObj(t) ==
    /\ at[t] = "remove" /\ CanLock(t)
    /\ cleaned' = TRUE
    /\ Return(t)
    /\ UNCHANGED <<st, fifo, smLock, ev, tgt, outer, valVars, timers, peerVars,
                   alive, dstVars>>

\* The queued deletion removes the timers registered before it; the destructor
\* does what the entry function of NOT_ACTIVE does.
Delete ==
    /\ at[Int] = "idle" /\ cleaned /\ alive /\ CanLock(Int)
    /\ alive' = FALSE
    /\ timers' = [timers EXCEPT ![FALSE] = 0]
    /\ mState' = FALSE /\ cma' = "null" /\ verbs' = FALSE /\ l2' = NoL2
    /\ unsent' = 0
    /\ UNCHANGED <<st, fifo, lockVars, at, ev, tgt, outer, errs, peerVars, cleaned,
                   dstVars>>

------------------------------------------------------------------------------
(* A destination: prepare_to_send, get_peer_info, slow_send, unregister.       *)

\* The state is set before the peer is looked up: a notification that comes
\* during the look-up must win.
PrepareToSend(a) ==
    /\ at[a] = "idle" /\ ~valid[a] /\ ~cleaned
    /\ valid' = [valid EXCEPT ![a] = TRUE]
    /\ Goto(a, IF a \in observers THEN "prepared" ELSE "join")
    /\ UNCHANGED <<st, fifo, lockVars, ev, tgt, outer, valVars, timers, peerVars,
                   lifeVars, observers, copy, packets>>

\* cache_table_mgr::register_observer finds the entry, or has just created it.
\* Once the entry has left the table the destination gets another one.
RegisterObserver(a) ==
    /\ at[a] = "join" /\ tblLock \in {Free, a} /\ CanLock(a)
    /\ tblLock' = Free
    /\ IF cleaned THEN valid' = [valid EXCEPT ![a] = FALSE] /\ Goto(a, "idle")
                       /\ UNCHANGED observers
                  ELSE observers' = observers \cup {a} /\ Goto(a, "prepared")
                       /\ UNCHANGED valid
    /\ UNCHANGED <<st, fifo, smLock, mLock, ev, tgt, outer, valVars, timers,
                   peerVars, lifeVars, copy, packets>>

\* The value is copied, or prepare_to_send takes its state back.
Answer(a) ==
    /\ IF mState THEN copy' = [copy EXCEPT ![a] = l2] /\ UNCHANGED valid
                 ELSE valid' = [valid EXCEPT ![a] = FALSE] /\ UNCHANGED copy
    /\ Goto(a, "send")

GetPeerInfoKicksAlways(a) ==
    /\ at[a] = "prepared" /\ CanLock(a)
    /\ IF ~mState
       THEN Raise(a, "KICK_START", TRUE) /\ UNCHANGED <<valid, copy>>
       ELSE Answer(a) /\ UNCHANGED <<mLock, ev, outer>>
    /\ UNCHANGED <<st, fifo, smLock, tblLock, tgt, valVars, timers, peerVars,
                   lifeVars, observers, packets>>

GetPeerInfo(a) ==
    /\ at[a] = "prepared" /\ CanLock(a)
    /\ IF ~mState /\ st = "NOT_ACTIVE"
       THEN Raise(a, "KICK_START", TRUE) /\ UNCHANGED <<valid, copy>>
       ELSE Answer(a) /\ UNCHANGED <<mLock, ev, outer>>
    /\ UNCHANGED <<st, fifo, smLock, tblLock, tgt, valVars, timers, peerVars,
                   lifeVars, observers, packets>>

\* get_peer_info after the kick.
GetPeerInfoAfterKick(a) ==
    /\ at[a] = "checked"
    /\ Answer(a)
    /\ mLock' = Free
    /\ UNCHANGED <<st, fifo, smLock, tblLock, ev, tgt, outer, valVars, timers, peerVars,
                   lifeVars, observers, packets>>

\* slow_send: straight to the ring with the copied value, or to the entry.
SlowSend(a) ==
    /\ at[a] = "send"
    /\ IF valid[a] \/ packets = MaxPackets THEN UNCHANGED <<unsent, packets>>
       ELSE /\ CanLock(a)
            /\ packets' = packets + 1
            /\ unsent' = IF mState THEN 0 ELSE unsent + 1
    /\ Goto(a, "idle")
    /\ UNCHANGED <<st, fifo, lockVars, ev, tgt, outer, mState, l2, errs, cma, verbs,
                   timers, peerVars, lifeVars, observers, valid, copy>>

\* The destination goes away; the last one removes an entry that is deletable.
UnregisterObserver(a) ==
    /\ at[a] = "idle" /\ a \in observers /\ tblLock = Free /\ CanLock(a)
    /\ observers' = observers \ {a}
    /\ valid' = [valid EXCEPT ![a] = FALSE]
    /\ IF observers' = {} /\ IsDeletable THEN Goto(a, "remove") /\ tblLock' = a
                                         ELSE UNCHANGED <<at, tblLock>>
    /\ UNCHANGED <<st, fifo, smLock, mLock, ev, tgt, outer, valVars, timers,
                   peerVars, lifeVars, copy, packets>>

------------------------------------------------------------------------------
Enter(t) ==
    \/ EnterInit(t) \/ EnterInitResolution(t) \/ EnterAddrResolved(t)
    \/ EnterArpResolved(t) \/ EnterPathResolved(t) \/ EnterReady(t)
    \/ EnterError(t) \/ EnterNotActive(t)

StateMachine(t) == EventHandler(t) \/ Process(t) \/ Enter(t) \/ Notify(t)
                   \/ Retry(t) \/ Publish(t)

InternalThread == TimerExpired \/ HandleTimer \/ VerifyPeer \/ Rearm \/ RdmaCmEvent
                  \/ HandleNeighEvent \/ Delete

App(a) == PrepareToSend(a) \/ RegisterObserver(a) \/ GetPeerInfo(a)
          \/ GetPeerInfoAfterKick(a) \/ SlowSend(a) \/ UnregisterObserver(a)

Next == \/ \E t \in Threads : StateMachine(t) \/ CleanObj(t)
        \/ InternalThread \/ VerbsEvent \/ NetlinkEvent \/ CollectGarbage
        \/ \E a \in Apps : App(a)

Spec == Init /\ [][Next]_vars

\* Every thread runs on, the kernel answers what it was asked, and a timer that
\* is due fires.  Nothing is assumed of destinations or of netlink.
Fairness == /\ WF_vars(InternalThread)
            /\ \A t \in Threads : WF_vars(StateMachine(t)) /\ WF_vars(CleanObj(t))
            /\ \A a \in Apps : WF_vars(RegisterObserver(a)) /\ WF_vars(GetPeerInfo(a))
                               /\ WF_vars(GetPeerInfoAfterKick(a)) /\ WF_vars(SlowSend(a))
FairSpec == Spec /\ Fairness

------------------------------------------------------------------------------
(* The variables stay within their types.                                      *)
TypeOK ==
    /\ st \in States /\ fifo \in Seq(Events)
    /\ {smLock, mLock, tblLock} \subseteq Threads \cup {Free}
    /\ at \in [Threads -> Places] /\ ev \in [Threads -> Events \cup {"none"}]
    /\ tgt \in States /\ outer \in [Threads -> BOOLEAN]
    /\ mState \in BOOLEAN /\ l2 \in L2s \cup {NoL2} /\ unsent \in 0 .. MaxPackets
    /\ errs \in 0 .. Retries /\ cma \in {"null", "unused", "addr", "route"}
    /\ verbs \in BOOLEAN /\ timers \in [BOOLEAN -> Nat]
    /\ nud \in NudStates \cup {"NONE"} /\ nudL2 \in L2s
    /\ nlEvent \in NudStates \cup {"none"} /\ news \in 0 .. MaxNews
    /\ cleaned \in BOOLEAN /\ alive \in BOOLEAN
    /\ observers \subseteq Apps /\ valid \in [Apps -> BOOLEAN]
    /\ copy \in [Apps -> L2s \cup {NoL2}] /\ packets \in 0 .. MaxPackets

\* Threads that hold m_sm_lock and need m_lock for their next step.
NeedsLock(t) == at[t] \in {"enter", "notify", "retry"}

(* get_peer_info and handle_neigh_event raise events with m_lock held, entry   *)
(* functions take m_lock with m_sm_lock held.  The two orders never meet: no   *)
(* thread waits for m_sm_lock with m_lock in hand while the owner of m_sm_lock *)
(* is in a step that takes m_lock.  It rests on get_peer_info raising events   *)
(* only in NOT_ACTIVE, and on when a new state is published.                   *)
NoLockCycle ==
    ~\E t, u \in Threads : /\ t # u /\ mLock = t /\ at[t] = "raise"
                           /\ smLock = u /\ NeedsLock(u)

(* When no event is being processed, m_state says that the state machine is in *)
(* READY, a READY entry has an address, and no packet is left waiting in it.   *)
ReadyIsUsable ==
    (smLock = Free /\ alive) => /\ mState <=> st = "READY"
                                /\ mState => l2 # NoL2 /\ unsent = 0

(* A destination that believes its copy of the peer's address holds the        *)
(* address of a READY entry, or the event that invalidates it is still being   *)
(* processed: no notification is lost against prepare_to_send.                 *)
NoStaleDestination ==
    \A a \in Apps :
        (smLock = Free /\ at[a] = "idle" /\ a \in observers /\ valid[a])
            => mState /\ copy[a] = l2

(* A timer registered after clean_obj would be queued behind the deletion and  *)
(* fire on a deleted entry: there is none, and a deleted entry keeps no        *)
(* rdma_cm id or registration for verbs events.                                *)
NothingAfterDelete ==
    /\ timers[TRUE] = 0
    /\ ~alive => /\ timers[FALSE] = 0 /\ cma = "null" /\ ~verbs
                 /\ observers = {} /\ at[Int] \notin {"timer", "verify", "rearm"}

(* Whoever sends through the entry uses an address that is the peer's; a       *)
(* destination that saw no notification uses nothing stale; and nothing        *)
(* happens to a deleted entry.                                                 *)
EntrySound == ReadyIsUsable /\ NoStaleDestination /\ NothingAfterDelete

(* Every resolution settles: once events stop, the state machine comes to      *)
(* READY or gives up in NOT_ACTIVE, however calls fail (IB).                   *)
Settles == (st \notin {"READY", "NOT_ACTIVE"}) ~> (st \in {"READY", "NOT_ACTIVE"} \/ ~alive)

(* A packet given to the entry does not wait for ever: it is sent, or dropped  *)
(* when resolution is given up.                                                *)
UnsentLeaves == (unsent > 0 /\ st # "NOT_ACTIVE") ~> (unsent = 0 \/ st = "NOT_ACTIVE")

=============================================================================
