------------------------------- MODULE RingTx -------------------------------
(***************************************************************************)
(* The send side of a ring: buffers with reference counts, the credits of  *)
(* the send queue (m_tx_num_wr_free), the list of buffers whose sending is *)
(* not signaled, the completions that give lists of them back, the threads *)
(* that block for a buffer or a credit under two locks, and a failover     *)
(* that stops and starts the QP.                                           *)
(*                                                                         *)
(* Threads hold m_lock_ring_tx over several steps, so the adapter and the  *)
(* threads that need no lock act in between.  A poll takes one completion  *)
(* (cq_poll_batch_max = 1) and a thread takes one buffer at a time.        *)
(***************************************************************************)
EXTENDS Integers, Sequences, FiniteSets, SequencesExt, FiniteSetsExt

CONSTANTS
  TxThreads,   \* threads that send
  NTxBufs,     \* buffers of g_buffer_pool_tx
  NumWr,       \* m_tx_num_wr: size of the send queue
  ToSignal,    \* tx_num_wr_to_signal
  Compensate,  \* RING_TX_BUFS_COMPENSATE
  Kinds,       \* pairs to consider: from lwip or not, blocking or not
  MaxSends,    \* bound: packets sent
  MaxUpsets    \* bound: failovers, and failures of post_send and of poll

NULL == 0
NoKind == <<FALSE, FALSE>>
Bufs == 1..NTxBufs
Failover == "failover"
Nobody == "nobody"

VARIABLES
  txPool,                       \* free buffers of g_buffer_pool_tx
  m_tx_pool, m_tx_num_bufs,     \* free buffers of the ring, all buffers of the ring
  p_next_desc, ref,             \* per buffer
  m_tx_num_wr_free, m_n_unsignaled_count, m_p_last_tx_mem_buf_desc,
  sq,                           \* send requests: buffer, signaled
  txCq,                         \* completions: buffer, success
  txErr,                        \* the QP is in the error state
  firstFlushed,                 \* m_b_qp_tx_first_flushed_completion_handled
  abandoned,                    \* down found no credit to close the unsignaled list
  txArmed, hwTxArmed, txEvents, \* m_b_notification_armed, the adapter's view, the channel
  ringLock, waitLock,           \* m_lock_ring_tx, m_lock_ring_tx_buf_wait
  place, held, kind, inSync,    \* per thread: place, buffer, kind of send, poll_sn is current
  unacked,                      \* buffers lwip keeps for retransmission
  failover,                     \* place of the thread that handles the failover
  sends, txStops, fails, lostWr

bufVars == <<txPool, m_tx_pool, m_tx_num_bufs, ref>>
qpVars == <<m_n_unsignaled_count, m_p_last_tx_mem_buf_desc, txErr, abandoned>>
armVars == <<txArmed, hwTxArmed, txEvents>>
counts == <<sends, txStops, fails>>
\* What a completion changes, beside bufVars and inSync.
cqVars == <<p_next_desc, m_tx_num_wr_free, txCq, firstFlushed>>
vars == <<bufVars, cqVars, qpVars, sq, armVars, ringLock, waitLock, place, held, kind, inSync, unacked, failover,
          counts, lostWr>>

Init ==
  /\ m_tx_pool = 1..(IF NTxBufs >= Compensate THEN Compensate ELSE 0)
  /\ txPool = Bufs \ m_tx_pool /\ m_tx_num_bufs = Cardinality(m_tx_pool)
  /\ p_next_desc = [b \in Bufs |-> NULL] /\ ref = [b \in Bufs |-> 0]
  /\ m_tx_num_wr_free = NumWr /\ m_n_unsignaled_count = ToSignal - 1 /\ m_p_last_tx_mem_buf_desc = NULL
  /\ sq = <<>> /\ txCq = <<>> /\ txErr = FALSE /\ firstFlushed = FALSE /\ abandoned = FALSE
  /\ txArmed = FALSE /\ hwTxArmed = FALSE /\ txEvents = 0
  /\ ringLock = Nobody /\ waitLock = Nobody
  /\ place = [t \in TxThreads |-> "idle"] /\ held = [t \in TxThreads |-> NULL]
  /\ kind = [t \in TxThreads |-> NoKind] /\ inSync = [t \in TxThreads |-> FALSE]
  /\ unacked = {} /\ failover = "up"
  /\ sends = 0 /\ txStops = 0 /\ fails = 0 /\ lostWr = 0

-----------------------------------------------------------------------------
(* The list that starts at buffer b.                                       *)
List(nx, b) ==
  LET from[k \in 0..NTxBufs, x \in Bufs \cup {NULL}] ==
        IF k = 0 \/ x = NULL THEN <<>> ELSE <<x>> \o from[k - 1, nx[x]]
  IN  from[NTxBufs, b]

(* n of the buffers of set s.                                              *)
Some(s, n) == {b \in s : Cardinality({c \in s : c < b}) < n}

(* get_tx_buffers: one buffer, after a refill of the ring's pool that gets *)
(* all the buffers it asks for or none.                                    *)
CanGet == m_tx_pool # {} \/ Cardinality(txPool) >= Compensate
get_tx_buffers(b) ==
  LET more == IF m_tx_pool = {} THEN Some(txPool, Compensate) ELSE {}
  IN  /\ CanGet /\ b = Min(m_tx_pool \cup more)
      /\ m_tx_pool' = (m_tx_pool \cup more) \ {b} /\ txPool' = txPool \ more
      /\ m_tx_num_bufs' = m_tx_num_bufs + Cardinality(more)
      /\ ref' = [ref EXCEPT ![b] = 1]

(* Buffers without references go to the ring's pool; when that holds more  *)
(* than half of the ring's buffers, half of it goes to the global pool.    *)
Deref(set) ==
  LET mine == m_tx_pool \cup {b \in set : ref[b] <= 1}
      extra == IF Cardinality(mine) > m_tx_num_bufs \div 2 /\ m_tx_num_bufs >= 2 * Compensate
               THEN Some(mine, Cardinality(mine) \div 2) ELSE {}
  IN  /\ ref' = [b \in Bufs |-> IF b \in set /\ ref[b] > 0 THEN ref[b] - 1 ELSE ref[b]]
      /\ m_tx_pool' = mine \ extra /\ txPool' = txPool \cup extra
      /\ m_tx_num_bufs' = m_tx_num_bufs - Cardinality(extra)

(* poll_and_process_element_tx: the completion gives its whole list back;  *)
(* every member is a credit.  Of the flushed ones only the first may carry *)
(* a list, as all later requests are flushed themselves.                   *)
CompletedTwice(e) == List(p_next_desc, e.b)
Completed(e) ==
  List(IF ~e.ok /\ firstFlushed THEN [p_next_desc EXCEPT ![e.b] = NULL] ELSE p_next_desc, e.b)
poll_and_process_element_tx(t) ==
  LET list == Completed(Head(txCq))
  IN  /\ txCq # <<>> /\ txCq' = Tail(txCq)
      /\ firstFlushed' = (firstFlushed \/ ~Head(txCq).ok)
      /\ Deref(Range(list))
      /\ p_next_desc' = [b \in Bufs |-> IF b \in Range(list) THEN NULL ELSE p_next_desc[b]]
      /\ m_tx_num_wr_free' = m_tx_num_wr_free + Len(list)
      /\ inSync' = [u \in TxThreads |-> FALSE]

(* qp_mgr::send of buffer b: every ToSignal-th request is signaled and     *)
(* closes the list.                                                        *)
Signaled == m_n_unsignaled_count = 0
qp_mgr_send(b) ==
  /\ sq' = Append(sq, [b |-> b, sig |-> Signaled])
  /\ p_next_desc' = [p_next_desc EXCEPT ![b] = m_p_last_tx_mem_buf_desc]
  /\ m_n_unsignaled_count' = IF Signaled THEN ToSignal - 1 ELSE m_n_unsignaled_count - 1
  /\ m_p_last_tx_mem_buf_desc' = IF Signaled THEN NULL ELSE b
  /\ m_tx_num_wr_free' = m_tx_num_wr_free - 1

-----------------------------------------------------------------------------
(* The adapter sends the oldest request, or flushes it in the error state. *)
(* A request that was sent completes only when it is signaled.             *)
Wire ==
  /\ sq # <<>> /\ sq' = Tail(sq)
  /\ IF Head(sq).sig \/ txErr
     THEN /\ txCq' = Append(txCq, [b |-> Head(sq).b, ok |-> ~txErr])
          /\ hwTxArmed' = FALSE /\ txEvents' = IF hwTxArmed THEN txEvents + 1 ELSE txEvents
     ELSE UNCHANGED <<txCq, hwTxArmed, txEvents>>
  /\ UNCHANGED <<bufVars, p_next_desc, m_tx_num_wr_free, firstFlushed, qpVars, txArmed, ringLock, waitLock, place, held, kind,
                 inSync, unacked, failover, counts, lostWr>>

-----------------------------------------------------------------------------
Go(t, where) == place' = [place EXCEPT ![t] = where]
OfLwip(t) == kind[t][1]
Blocking(t) == kind[t][2]
WantsBuffer(t) == held[t] = NULL

(* A thread sends one packet.                                              *)
Begin(t, k) ==
  /\ place[t] = "idle" /\ sends < MaxSends
  /\ sends' = sends + 1 /\ kind' = [kind EXCEPT ![t] = k] /\ Go(t, "lock")
  /\ UNCHANGED <<bufVars, cqVars, qpVars, sq, armVars, ringLock, waitLock, held, inSync, unacked, failover, txStops, fails, lostWr>>

Lock(t) ==
  /\ place[t] \in {"lock", "relock", "pollagain"} /\ ringLock = Nobody /\ ringLock' = t
  /\ Go(t, IF place[t] = "pollagain" THEN "mustpoll" ELSE "hold")
  /\ ref' = IF place[t] = "lock" /\ held[t] # NULL /\ OfLwip(t) THEN [ref EXCEPT ![held[t]] = @ + 1] ELSE ref
  /\ UNCHANGED <<txPool, m_tx_pool, m_tx_num_bufs, cqVars, qpVars, sq, armVars, waitLock, held, kind, inSync, unacked, failover,
                 counts, lostWr>>

(* The thread has its buffer; lwip keeps it until it is acknowledged.      *)
Got(t, b) ==
  /\ get_tx_buffers(b) /\ held' = [held EXCEPT ![t] = b] /\ Go(t, "lock")
  /\ unacked' = IF OfLwip(t) THEN unacked \cup {b} ELSE unacked

GetBuffer(t) ==
  /\ place[t] = "hold" /\ WantsBuffer(t)
  /\ \E b \in Bufs : Got(t, b)
  /\ ringLock' = Nobody
  /\ UNCHANGED <<cqVars, qpVars, sq, armVars, waitLock, kind, inSync, failover, counts, lostWr>>

Done(t) ==
  /\ Go(t, "idle") /\ ringLock' = IF ringLock = t THEN Nobody ELSE ringLock
  /\ held' = [held EXCEPT ![t] = NULL] /\ kind' = [kind EXCEPT ![t] = NoKind]

(* send_buffer with a credit.  A signaled send polls the CQ once.          *)
SendBuffer(t) ==
  /\ place[t] = "hold" /\ ~WantsBuffer(t) /\ m_tx_num_wr_free > 0
  /\ qp_mgr_send(held[t])
  /\ IF Signaled THEN Go(t, "sigpoll") /\ UNCHANGED <<held, kind, ringLock>> ELSE Done(t)
  /\ UNCHANGED <<bufVars, txErr, abandoned, txCq, firstFlushed, armVars, waitLock, inSync, unacked, failover, counts, lostWr>>

(* post_send fails: the buffer is released, the credit is lost.            *)
SendFails(t) ==
  /\ place[t] = "hold" /\ ~WantsBuffer(t) /\ m_tx_num_wr_free > 0
  /\ txStops + fails < MaxUpsets /\ fails' = fails + 1 /\ lostWr' = lostWr + 1
  /\ m_tx_num_wr_free' = m_tx_num_wr_free - 1 /\ Deref({held[t]}) /\ Done(t)
  /\ UNCHANGED <<p_next_desc, txCq, firstFlushed, qpVars, sq, armVars, waitLock, inSync, unacked, failover, sends, txStops>>

SigPoll(t) ==
  /\ place[t] = "sigpoll" /\ Done(t)
  /\ \/ poll_and_process_element_tx(t)
     \/ txCq = <<>> /\ UNCHANGED <<bufVars, cqVars, inSync>>
  /\ UNCHANGED <<qpVars, sq, armVars, waitLock, unacked, failover, counts, lostWr>>

(* Nothing is available, or a wait for a buffer ended without one: the CQ  *)
(* is polled.  When that is empty a blocking thread lets go of the ring and*)
(* queues up for the right to wait; any other gives up, and drops the      *)
(* packet if it has one.                                                   *)
Lacks(t) == IF WantsBuffer(t) THEN ~CanGet ELSE m_tx_num_wr_free <= 0
MustPoll(t) == place[t] = "mustpoll" \/ (place[t] = "hold" /\ Lacks(t))
PollForIt(t) ==
  /\ MustPoll(t) /\ poll_and_process_element_tx(t) /\ Go(t, "hold")
  /\ UNCHANGED <<qpVars, sq, armVars, ringLock, waitLock, held, kind, unacked, failover, counts, lostWr>>
StartWaiting(t) ==
  /\ MustPoll(t) /\ txCq = <<>> /\ Blocking(t)
  /\ ringLock' = Nobody /\ Go(t, "wait") /\ inSync' = [inSync EXCEPT ![t] = TRUE]
  /\ UNCHANGED <<bufVars, cqVars, qpVars, sq, armVars, waitLock, held, kind, unacked, failover, counts, lostWr>>
Drop(t) == (IF held[t] = NULL THEN UNCHANGED bufVars ELSE Deref({held[t]})) /\ Done(t)
GiveUp(t) ==
  /\ MustPoll(t) /\ txCq = <<>> /\ ~Blocking(t) /\ Drop(t)
  /\ UNCHANGED <<cqVars, qpVars, sq, armVars, waitLock, inSync, unacked, failover, counts, lostWr>>

-----------------------------------------------------------------------------
(* "Only a single thread should block on next Tx cqe event, hence the      *)
(* dedicated lock!"                                                        *)
TakeWaitLock(t) ==
  /\ place[t] = "wait" /\ waitLock = Nobody /\ waitLock' = t /\ Go(t, "waitlock")
  /\ UNCHANGED <<bufVars, cqVars, qpVars, sq, armVars, ringLock, held, kind, inSync, unacked, failover, counts, lostWr>>

request_notification ==
  \/ txArmed /\ UNCHANGED armVars
  \/ /\ ~txArmed /\ txArmed' = TRUE
     /\ hwTxArmed' = (txCq = <<>>) /\ txEvents' = IF txCq = <<>> THEN txEvents ELSE txEvents + 1

(* The loop for a buffer starts with a poll, that for a credit looks first.*)
LoopAgain(t) == Go(t, IF WantsBuffer(t) THEN "pollagain" ELSE "relock")

(* With both locks the thread looks again, and arms the channel if nobody  *)
(* polled since.                                                           *)
LookAgain(t) ==
  /\ place[t] = "waitlock" /\ ringLock = Nobody
  /\ inSync' = [inSync EXCEPT ![t] = FALSE]
  /\ \/ /\ WantsBuffer(t) /\ \E b \in Bufs : Got(t, b)
        /\ waitLock' = Nobody /\ UNCHANGED armVars
     \/ /\ IF Lacks(t) THEN ~inSync[t] ELSE ~WantsBuffer(t)
        /\ waitLock' = Nobody /\ LoopAgain(t) /\ UNCHANGED <<bufVars, held, unacked, armVars>>
     \/ /\ Lacks(t) /\ inSync[t] /\ request_notification
        /\ Go(t, "block") /\ UNCHANGED <<bufVars, held, unacked, waitLock>>
  /\ UNCHANGED <<cqVars, qpVars, sq, ringLock, kind, failover, counts, lostWr>>

(* poll returns: an event; after 100 msec (a wait for a credit has no      *)
(* limit); or an error, which gives up once the lock is taken again.       *)
Wakes(t) ==
  /\ place[t] = "block"
  /\ \/ txEvents > 0 /\ Go(t, "event") /\ UNCHANGED <<waitLock, fails>>
     \/ WantsBuffer(t) /\ txEvents = 0 /\ waitLock' = Nobody /\ Go(t, "relock") /\ UNCHANGED fails
     \/ txStops + fails < MaxUpsets /\ fails' = fails + 1 /\ waitLock' = Nobody /\ Go(t, "failed")
  /\ UNCHANGED <<bufVars, cqVars, qpVars, sq, armVars, ringLock, held, kind, inSync, unacked, failover, sends, txStops, lostWr>>

PollFailed(t) ==
  /\ place[t] = "failed" /\ (WantsBuffer(t) \/ ringLock = Nobody) /\ Drop(t)
  /\ UNCHANGED <<cqVars, qpVars, sq, armVars, waitLock, inSync, unacked, failover, counts, lostWr>>

(* The event is read under both locks and the CQ polled; then the thread   *)
(* looks once more before it lets go of the locks.                         *)
ReadEvent(t) ==
  /\ place[t] = "event" /\ ringLock = Nobody /\ ringLock' = t
  /\ txEvents' = txEvents - 1 /\ txArmed' = FALSE /\ Go(t, "evpoll")
  /\ UNCHANGED <<bufVars, cqVars, qpVars, sq, hwTxArmed, waitLock, held, kind, inSync, unacked, failover, counts, lostWr>>
EventPoll(t) ==
  /\ place[t] = "evpoll" /\ Go(t, "evget")
  /\ \/ poll_and_process_element_tx(t)
     \/ txCq = <<>> /\ UNCHANGED <<bufVars, cqVars, inSync>>
  /\ UNCHANGED <<qpVars, sq, armVars, ringLock, waitLock, held, kind, unacked, failover, counts, lostWr>>
EventGet(t) ==
  /\ place[t] = "evget" /\ ringLock' = Nobody /\ waitLock' = Nobody
  /\ \/ WantsBuffer(t) /\ \E b \in Bufs : Got(t, b)
     \/ ~(WantsBuffer(t) /\ CanGet) /\ LoopAgain(t) /\ UNCHANGED <<bufVars, held, unacked>>
  /\ UNCHANGED <<cqVars, qpVars, sq, armVars, kind, inSync, failover, counts, lostWr>>

(* put_tx_single_buffer: lwip frees an acknowledged buffer.                *)
Ack(b) ==
  /\ b \in unacked /\ ringLock = Nobody /\ \A t \in TxThreads : held[t] # b
  /\ unacked' = unacked \ {b} /\ Deref({b})
  /\ UNCHANGED <<cqVars, qpVars, sq, armVars, ringLock, waitLock, place, held, kind, inSync, failover, counts, lostWr>>

-----------------------------------------------------------------------------
(* stop_active_qp_mgr: the QP goes to the error state.                     *)
Stop ==
  /\ failover = "up" /\ txStops + fails < MaxUpsets /\ ringLock = Nobody
  /\ txStops' = txStops + 1 /\ ringLock' = Failover /\ txErr' = TRUE /\ failover' = "trigger"
  /\ UNCHANGED <<bufVars, cqVars, m_n_unsignaled_count, m_p_last_tx_mem_buf_desc, abandoned, sq, armVars, waitLock, place, held, kind,
                 inSync, unacked, sends, fails, lostWr>>

(* trigger_completion_for_all_sent_packets: a signaled request closes the  *)
(* unsignaled list.  Without a credit the list is given up.                *)
Trigger ==
  /\ failover = "trigger" /\ failover' = "drain"
  /\ \/ m_p_last_tx_mem_buf_desc = NULL /\ UNCHANGED <<bufVars, p_next_desc, m_tx_num_wr_free, qpVars, sq>>
     \/ /\ m_p_last_tx_mem_buf_desc # NULL
        /\ \E b \in Bufs :
             /\ get_tx_buffers(b)
             /\ p_next_desc' = [p_next_desc EXCEPT ![b] = m_p_last_tx_mem_buf_desc]
             /\ IF m_tx_num_wr_free = 0 THEN UNCHANGED <<m_tx_num_wr_free, sq>>
                ELSE m_tx_num_wr_free' = m_tx_num_wr_free - 1 /\ sq' = Append(sq, [b |-> b, sig |-> TRUE])
        /\ m_n_unsignaled_count' = ToSignal - 1 /\ m_p_last_tx_mem_buf_desc' = NULL
        /\ abandoned' = (abandoned \/ m_tx_num_wr_free = 0) /\ UNCHANGED txErr
  /\ UNCHANGED <<txCq, firstFlushed, armVars, ringLock, waitLock, place, held, kind, inSync, unacked, counts, lostWr>>

(* No buffer for it: mem_buf_tx_get polls, then blocks.  The ring's lock   *)
(* is recursive and held twice, so the failover keeps it while it waits.   *)
NoTriggerBuffer == failover = "trigger" /\ m_p_last_tx_mem_buf_desc # NULL /\ ~CanGet
TriggerPolls ==
  /\ NoTriggerBuffer /\ poll_and_process_element_tx(Failover)
  /\ UNCHANGED <<qpVars, sq, armVars, ringLock, waitLock, place, held, kind, unacked, failover, counts, lostWr>>
TriggerWaits ==
  /\ NoTriggerBuffer /\ txCq = <<>> /\ failover' = "wait"
  /\ UNCHANGED <<bufVars, cqVars, qpVars, sq, armVars, ringLock, waitLock, place, held, kind, inSync, unacked, counts, lostWr>>
TriggerBlocks ==
  /\ failover = "wait" /\ waitLock = Nobody /\ waitLock' = Failover /\ failover' = "block"
  /\ request_notification
  /\ UNCHANGED <<bufVars, cqVars, qpVars, sq, ringLock, place, held, kind, inSync, unacked, counts, lostWr>>
TriggerWakes ==
  /\ failover = "block" /\ waitLock' = Nobody /\ failover' = "trigger"
  /\ \/ txEvents > 0 /\ txEvents' = txEvents - 1 /\ txArmed' = FALSE
     \/ txEvents = 0 /\ UNCHANGED <<txEvents, txArmed>>
  /\ UNCHANGED <<bufVars, cqVars, qpVars, sq, hwTxArmed, ringLock, place, held, kind, inSync, unacked, counts, lostWr>>
(* poll fails: "no buffer in pool", and up will forget the list.           *)
TriggerFails ==
  /\ failover = "block" /\ waitLock' = Nobody /\ failover' = "drain"
  /\ txStops + fails < MaxUpsets /\ fails' = fails + 1 /\ abandoned' = TRUE
  /\ UNCHANGED <<bufVars, cqVars, m_n_unsignaled_count, m_p_last_tx_mem_buf_desc, txErr, sq, armVars, ringLock, place, held, kind,
                 inSync, unacked, sends, txStops, lostWr>>

(* release_tx_buffers, by down and by up, then the lock is released; up    *)
(* forgets the list first.  The adapter has flushed the queue by then.     *)
ReleaseTx ==
  /\ failover \in {"drain", "start"} /\ poll_and_process_element_tx(Failover)
  /\ UNCHANGED <<qpVars, sq, armVars, ringLock, waitLock, place, held, kind, unacked, failover, counts, lostWr>>
Down ==
  /\ failover = "drain" /\ txCq = <<>> /\ failover' = "down" /\ ringLock' = Nobody
  /\ UNCHANGED <<bufVars, cqVars, qpVars, sq, armVars, waitLock, place, held, kind, inSync, unacked, counts, lostWr>>
Start ==
  /\ failover = "down" /\ ringLock = Nobody /\ ringLock' = Failover /\ failover' = "start"
  /\ UNCHANGED <<bufVars, cqVars, qpVars, sq, armVars, waitLock, place, held, kind, inSync, unacked, counts, lostWr>>
Up ==
  /\ failover = "start" /\ txCq = <<>> /\ sq = <<>> /\ failover' = "up" /\ ringLock' = Nobody
  /\ m_n_unsignaled_count' = ToSignal - 1 /\ m_p_last_tx_mem_buf_desc' = NULL /\ txErr' = FALSE /\ firstFlushed' = FALSE
  /\ UNCHANGED <<bufVars, p_next_desc, m_tx_num_wr_free, txCq, abandoned, sq, armVars, waitLock, place, held, kind, inSync, unacked,
                 counts, lostWr>>

-----------------------------------------------------------------------------
Thread(t) ==
  \/ Lock(t) \/ GetBuffer(t) \/ SendBuffer(t) \/ SigPoll(t) \/ PollForIt(t) \/ StartWaiting(t) \/ GiveUp(t)
  \/ TakeWaitLock(t) \/ LookAgain(t) \/ Wakes(t) \/ PollFailed(t) \/ ReadEvent(t) \/ EventPoll(t) \/ EventGet(t)
HandleFailover ==
  Trigger \/ TriggerPolls \/ TriggerWaits \/ TriggerBlocks \/ TriggerWakes \/ ReleaseTx \/ Down \/ Start \/ Up

Next ==
  \/ Wire \/ HandleFailover \/ TriggerFails \/ Stop
  \/ \E b \in Bufs : Ack(b)
  \/ \E t \in TxThreads : Thread(t) \/ SendFails(t) \/ \E k \in Kinds : Begin(t, k)

(* The adapter and the peer make progress, threads keep running, and a     *)
(* lock that is free again and again is taken in the end.                  *)
Fairness ==
  /\ WF_vars(Wire) /\ SF_vars(HandleFailover)
  /\ SF_vars(\E b \in Bufs : Ack(b))
  /\ \A t \in TxThreads : SF_vars(Thread(t))

Spec == Init /\ [][Next]_vars
FairSpec == Spec /\ Fairness

-----------------------------------------------------------------------------
Places == {"idle", "lock", "relock", "pollagain", "hold", "mustpoll", "sigpoll", "wait", "waitlock", "block", "failed", "event", "evpoll", "evget"}

(* Credits never go below zero nor beyond the queue, at most one event is  *)
(* pending, and the locks are held where the code holds them.              *)
TypeOK ==
  /\ txPool \subseteq Bufs /\ m_tx_pool \subseteq Bufs /\ m_tx_num_bufs \in 0..NTxBufs
  /\ p_next_desc \in [Bufs -> Bufs \cup {NULL}] /\ ref \in [Bufs -> 0..2]
  /\ m_tx_num_wr_free \in 0..NumWr /\ m_n_unsignaled_count \in 0..(ToSignal - 1)
  /\ m_p_last_tx_mem_buf_desc \in Bufs \cup {NULL}
  /\ sq \in Seq([b : Bufs, sig : BOOLEAN]) /\ txCq \in Seq([b : Bufs, ok : BOOLEAN])
  /\ {txErr, firstFlushed, abandoned, txArmed, hwTxArmed} \subseteq BOOLEAN /\ txEvents \in 0..1
  /\ place \in [TxThreads -> Places] /\ held \in [TxThreads -> Bufs \cup {NULL}]
  /\ kind \in [TxThreads -> BOOLEAN \X BOOLEAN] /\ inSync \in [TxThreads -> BOOLEAN] /\ unacked \subseteq Bufs
  /\ failover \in {"up", "trigger", "wait", "block", "drain", "down", "start"}
  /\ \A t \in TxThreads : (ringLock = t) = (place[t] \in {"hold", "mustpoll", "sigpoll", "evpoll", "evget"})
  /\ \A t \in TxThreads : (waitLock = t) = (place[t] \in {"waitlock", "block", "event", "evpoll", "evget"})
  /\ (ringLock = Failover) = (failover \notin {"up", "down"})

(* The buffers that completions will give back: all that can be reached    *)
(* from a request, a completion or the unsignaled list, or once the first  *)
(* flushed completion was handled, the flushed ones alone.                 *)
Posted == {sq[i].b : i \in 1..Len(sq)} \cup {txCq[i].b : i \in 1..Len(txCq)}
Outstanding ==
  IF firstFlushed THEN Posted
  ELSE UNION {Range(List(p_next_desc, b)) : b \in Posted \cup {m_p_last_tx_mem_buf_desc}}
InHand == {held[t] : t \in {u \in TxThreads : place[u] # "sigpoll" /\ (OfLwip(u) => place[u] # "lock")}}

(* "ref count of %p is already zero, double free??": a buffer has one      *)
(* reference for lwip, one for the thread that is sending it and one for   *)
(* the completion that will return it; it is free exactly when it has      *)
(* none, and m_tx_num_bufs counts the buffers of the ring.                 *)
One(set, b) == IF b \in set THEN 1 ELSE 0
BuffersAccounted ==
  /\ m_tx_num_bufs = NTxBufs - Cardinality(txPool)
  /\ ~abandoned => \A b \in Bufs :
       /\ ref[b] = One(unacked, b) + One(Outstanding, b) + One(InHand, b)
       /\ (ref[b] = 0) = (b \in txPool \cup m_tx_pool)

(* Every request that was posted is one credit less until the completion   *)
(* of its list gives it back, across failovers; what a failing post_send   *)
(* took is lost.  So the send queue never overflows.                       *)
CreditsAccounted == ~abandoned => m_tx_num_wr_free + Cardinality(Outstanding) + lostWr = NumWr

(* "Now it is time to release the ring lock (for restart events to be      *)
(* handled while this thread block on CQ channel)": a failover never waits *)
(* for the lock of a thread that waits for the ring's lock.                *)
NoLockCycle ==
  \A t \in TxThreads : ~(failover = "wait" /\ waitLock = t /\ place[t] \in {"waitlock", "event"})

(* Every send returns and every failover ends: as packets and failovers    *)
(* are finitely many, all threads come to rest and the ring lock is free.  *)
(* A wait for a credit has no time limit, so this needs a signaled request *)
(* among the outstanding ones: the credits that failing post_sends have not*)
(* taken must be at least ToSignal (NumWr - MaxUpsets >= ToSignal).        *)
(* The exception is a failover that needs a buffer to close the unsignaled *)
(* list while none is left: it waits with the ring lock, which everybody   *)
(* who could free one needs.                                               *)
AtRest == (\A t \in TxThreads : place[t] = "idle") /\ failover \in {"up", "down"}
HasNoBuffer == failover \in {"trigger", "wait", "block"} /\ ~CanGet
EverybodyReturns == <>[](AtRest \/ HasNoBuffer)
====
