------------------------------- MODULE RingRx -------------------------------
(***************************************************************************)
(* The receive side of a ring: the global pool of buffers (buffer_pool),   *)
(* the receive queue of the QP (qp_mgr), the completion queue with its     *)
(* private pool, its debt to the QP and its software queue (cq_mgr), the   *)
(* try-locks of ring_simple, and the threads blocked in sockinfo_udp::rx   *)
(* on the notification channel, beside the internal thread that drains the *)
(* CQ and a failover that stops and starts the QP.                         *)
(*                                                                         *)
(* Free buffers are counted; a received one is the packet it carries.  An  *)
(* operation runs under the ring lock in steps of its own, so the lock-free*)
(* steps of other threads fall between them.  The serial number of the     *)
(* last poll is compared for equality only, so fresh[t] says that poll_sn  *)
(* of t is still the global one.                                           *)
(***************************************************************************)
EXTENDS Integers, Sequences, FiniteSets, SequencesExt, FiniteSetsExt

CONSTANTS
  Threads,     \* threads, each reading a blocking UDP socket of its own
  RxNumWr,     \* m_rx_num_wr: size of the receive queue
  PostBatch,   \* rx_num_wr_to_post_recv
  CompLevel,   \* qp_compensation_level
  PollBatch,   \* cq_poll_batch_max
  MaxBatch,    \* MCE_MAX_CQ_POLL_BATCH
  WceMax,      \* progress_engine_wce_max
  ReuseBatch,  \* rx_num_buffs_reuse
  RcvBuf,      \* packets that fit the receive buffer of a socket
  Configs,     \* triples of cq_keep_qp_full, rx_sw_csum and rx_num_bufs to consider
  Traffic,     \* bound: pairs of a socket and whether the checksum is bad
  MaxEvents,   \* bound: packets that arrive, plus StopCost for every failover
  StopCost

Tcp == "tcp"
Internal == "internal"
None == "none"
Socks == Threads \cup {Tcp}

(* sys_vars raises rx_num_wr and qp_compensation_level to these bounds.    *)
ASSUME RxAssumption ==
  /\ MaxEvents \in Nat /\ StopCost \in Nat \ {0}
  /\ {RxNumWr, PostBatch, CompLevel, PollBatch, MaxBatch, WceMax, ReuseBatch, RcvBuf} \subseteq Nat \ {0}
  /\ RxNumWr >= 2 * PostBatch /\ CompLevel >= PostBatch /\ PollBatch <= MaxBatch
  /\ Configs \subseteq BOOLEAN \X BOOLEAN \X Nat /\ Traffic \subseteq Socks \X BOOLEAN
  /\ {Tcp, Internal, None} \cap Threads = {}

VARIABLES
  m_n_buffers_created,     \* buffers of g_buffer_pool_rx
  pool,                    \* those that are free
  m_rx_pool,               \* free buffers of the cq_mgr
  m_curr_rx_wr,            \* buffers in the array of receive requests not posted yet
  posted,                  \* receive requests of the QP
  m_last_posted_rx_wr_id,  \* whether it is set
  debt,                    \* m_qp_rec.debt
  m_up,                    \* the ring is up; the cq_mgr knows the QP
  keepFull, swCsum,        \* m_b_sysvar_cq_keep_qp_full, m_b_sysvar_is_rx_sw_csum_on
  cq,                      \* completions of the CQ
  m_rx_queue,              \* UDP packets the internal thread found
  m_b_was_drained, m_n_wce_counter,
  m_b_notification_armed, hwArmed, events,
  lock,                    \* who holds m_lock_ring_rx
  stage, batch, done,      \* what the holder does, its polled completions, its count
  ready,                   \* per socket, the packets to read
  reuse,                   \* per socket, the buffers read and not returned yet
  pc, fresh, wakefd,       \* per thread: place in rx, poll_sn, wakeup fd in its epfd
  woken,                   \* per thread: the fds epoll_wait returned
  arrived, stops,          \* counters of the bounded events
  filled                   \* requests the QP was given when it came up

pools == <<pool, m_rx_pool>>
qp == <<m_curr_rx_wr, posted, m_last_posted_rx_wr_id, debt, m_up, filled>>
drainVars == <<m_b_was_drained, m_n_wce_counter>>
channel == <<m_b_notification_armed, hwArmed, events>>
holder == <<lock, stage, batch, done>>
sockVars == <<ready, reuse>>
waiter == <<pc, fresh, wakefd, woken>>
env == <<arrived, stops, keepFull, swCsum, m_n_buffers_created>>
vars == <<pools, qp, cq, m_rx_queue, drainVars, channel, holder, sockVars, waiter, env>>

MayHappen(cost) == arrived + StopCost * stops + cost <= MaxEvents
Least(a, b) == IF a < b THEN a ELSE b

-----------------------------------------------------------------------------
(* What add_qp_rx posts of a pool of n buffers: whole batches, then the    *)
(* rest of the queue; it gives up when the pool has too few for the next.  *)
Batches(n) == Least(RxNumWr \div PostBatch, n \div PostBatch)
Rest(n) ==
  IF /\ Batches(n) = RxNumWr \div PostBatch
     /\ n - Batches(n) * PostBatch >= RxNumWr % PostBatch
  THEN RxNumWr % PostBatch ELSE 0

(* create_resources brings the first QP of the ring up.                    *)
Init ==
  /\ \E c \in Configs : keepFull = c[1] /\ swCsum = c[2] /\ m_n_buffers_created = c[3]
  /\ posted = Batches(m_n_buffers_created) * PostBatch /\ m_curr_rx_wr = Rest(m_n_buffers_created)
  /\ pool = m_n_buffers_created - posted - m_curr_rx_wr
  /\ filled = posted + m_curr_rx_wr
  /\ m_last_posted_rx_wr_id = (posted > 0)
  /\ m_rx_pool = 0 /\ debt = 0 /\ m_up = TRUE
  /\ cq = <<>> /\ m_rx_queue = <<>>
  /\ m_b_was_drained = FALSE /\ m_n_wce_counter = 0
  /\ m_b_notification_armed = FALSE /\ hwArmed = FALSE /\ events = 0
  /\ lock = None /\ stage = None /\ batch = <<>> /\ done = 0
  /\ ready = [s \in Socks |-> <<>>] /\ reuse = [s \in Socks |-> 0]
  /\ pc = [t \in Threads |-> "idle"] /\ fresh = [t \in Threads |-> TRUE]
  /\ wakefd = [t \in Threads |-> FALSE] /\ woken = [t \in Threads |-> {}]
  /\ arrived = 0 /\ stops = 0

-----------------------------------------------------------------------------
(* The adapter takes a receive request for a packet and adds a completion; *)
(* without a request the packet is lost.  An armed CQ raises one event.    *)
Arrive(to, bad) ==
  /\ MayHappen(1) /\ posted > 0
  /\ arrived' = arrived + 1 /\ posted' = posted - 1
  /\ cq' = Append(cq, [to |-> to, bad |-> bad, n |-> arrived + 1])
  /\ hwArmed' = FALSE /\ events' = IF hwArmed THEN events + 1 ELSE events
  /\ UNCHANGED <<pools, m_curr_rx_wr, m_last_posted_rx_wr_id, debt, m_up, filled, m_rx_queue, drainVars,
                 m_b_notification_armed, holder, sockVars, waiter, stops, keepFull, swCsum, m_n_buffers_created>>

-----------------------------------------------------------------------------
(* Mutant: a full array waits for one buffer more.                         *)
LatePost(n) ==
  LET total == m_curr_rx_wr + n
      full == IF total > PostBatch THEN total - (total % PostBatch) ELSE 0
  IN  /\ posted' = posted + full /\ m_curr_rx_wr' = total - full
      /\ m_last_posted_rx_wr_id' = (m_last_posted_rx_wr_id \/ total > PostBatch)

(* Posting n buffers: they fill the array, and each full array goes to the *)
(* QP.                                                                     *)
post_recv_buffers(n) ==
  LET total == m_curr_rx_wr + n
  IN  /\ posted' = posted + (total \div PostBatch) * PostBatch
      /\ m_curr_rx_wr' = total % PostBatch
      /\ m_last_posted_rx_wr_id' = (m_last_posted_rx_wr_id \/ total >= PostBatch)

(* Buffers to post are at hand or request_more_buffers gets a full level   *)
(* of them, and as many of the owed ones as there are get posted.          *)
CanFill == m_rx_pool > 0 \/ pool >= CompLevel
Fill(owed) ==
  LET have == IF m_rx_pool > 0 THEN m_rx_pool ELSE CompLevel
      n == Least(owed, have)
  IN  /\ CanFill
      /\ post_recv_buffers(n) /\ debt' = owed - n
      /\ m_rx_pool' = have - n
      /\ pool' = IF m_rx_pool > 0 THEN pool ELSE pool - CompLevel

(* Too few buffers: does the QP take the packet's own buffer back.         *)
Repost(owed) == keepFull \/ owed + MaxBatch > RxNumWr

compensate_qp_poll_failed ==
  \/ debt > 0 /\ Fill(debt)
  \/ ~(debt > 0 /\ CanFill) /\ UNCHANGED <<pools, posted, m_curr_rx_wr, m_last_posted_rx_wr_id, debt>>

(* One completion more is owed; when a batch is, the QP is filled, or the  *)
(* buffer at hand goes back to it and its packet is dropped.               *)
Owed == debt + 1
compensate_qp_poll_success(dropped) ==
  \/ /\ m_up /\ Owed < PostBatch /\ ~dropped
     /\ debt' = Owed /\ UNCHANGED <<pools, posted, m_curr_rx_wr, m_last_posted_rx_wr_id>>
  \/ m_up /\ Owed >= PostBatch /\ ~dropped /\ Fill(Owed)
  \/ /\ m_up /\ Owed >= PostBatch /\ ~CanFill /\ Repost(Owed) /\ dropped
     /\ post_recv_buffers(1) /\ debt' = debt /\ UNCHANGED pools
  \/ /\ m_up /\ Owed >= PostBatch /\ ~CanFill /\ ~Repost(Owed) /\ ~dropped
     /\ debt' = Owed /\ UNCHANGED <<pools, posted, m_curr_rx_wr, m_last_posted_rx_wr_id>>

(* process_recv_buffer: the socket queues the packet and wakes its thread  *)
(* up; a packet with a bad checksum or one too many goes back to the pool. *)
Dropped(p) == p.bad \/ (p.to # Tcp /\ Len(ready[p.to]) >= RcvBuf)
process_recv_buffer(p) ==
  \/ Dropped(p) /\ m_rx_pool' = m_rx_pool + 1 /\ UNCHANGED <<ready, wakefd>>
  \/ /\ ~Dropped(p)
     /\ ready' = [ready EXCEPT ![p.to] = Append(@, p)]
     /\ wakefd' = [t \in Threads |-> wakefd[t] \/ (t = p.to /\ pc[t] = "sleep")]
     /\ UNCHANGED m_rx_pool

(* ibv_poll_cq of up to n completions; the serial number of the CQ becomes *)
(* the global one.  The counter matters only up to WceMax.                 *)
Polled(n) == Least(n, Len(cq))
TakeBatch(n) ==
  /\ cq # <<>>
  /\ batch' = SubSeq(cq, 1, Polled(n)) /\ cq' = SubSeq(cq, Polled(n) + 1, Len(cq))
  /\ m_n_wce_counter' = Least(m_n_wce_counter + Polled(n), WceMax)
  /\ m_b_was_drained' = (m_b_was_drained \/ Polled(n) < n)
  /\ fresh' = [t \in Threads |-> t = lock]

-----------------------------------------------------------------------------
(* The places where is_readable polls the ring, and where each goes when   *)
(* nothing was found.  The first is the polling loop before the sleep.     *)
Polling == {"poll", "repoll", "postpoll"}
NotFound(t) ==
  IF pc[t] = "poll" THEN pc' \in {pc, [pc EXCEPT ![t] = "arm"]}
  ELSE pc' = [pc EXCEPT ![t] = IF pc[t] = "event" THEN "postpoll" ELSE "arm"]

(* poll_and_process_element_rx returns: is_readable polls again as long as *)
(* completions but no packet of the socket were found.                     *)
Return(t, found) ==
  /\ lock' = None /\ stage' = None /\ done' = 0
  /\ IF pc[t] \in Polling /\ (found \/ ready[t] # <<>>) THEN UNCHANGED pc ELSE NotFound(t)

StartPoll(t) == lock' = t /\ stage' = "queue" /\ done' = 0 /\ UNCHANGED batch

(* The try-lock of the poll succeeds.                                      *)
PollLocked(t) ==
  /\ pc[t] \in Polling /\ ready[t] = <<>> /\ lock = None
  /\ StartPoll(t)
  /\ UNCHANGED <<pools, qp, cq, m_rx_queue, drainVars, channel, sockVars, waiter, env>>

(* It fails: the poll finds nothing and leaves poll_sn as it is.           *)
PollBusy(t) ==
  /\ pc[t] \in Polling /\ ready[t] = <<>> /\ lock \notin {None, t}
  /\ NotFound(t)
  /\ UNCHANGED <<pools, qp, cq, m_rx_queue, drainVars, channel, holder, sockVars, fresh, wakefd, woken, env>>

(* process_recv_queue: up to PollBatch packets of the software queue; a    *)
(* full batch of them ends the poll.                                       *)
PollQueue(t) ==
  /\ lock = t /\ stage = "queue" /\ m_rx_queue # <<>>
  /\ process_recv_buffer(Head(m_rx_queue))
  /\ m_rx_queue' = Tail(m_rx_queue)
  /\ done' = done + 1
  /\ stage' = IF done + 1 >= PollBatch THEN "end" ELSE "queue"
  /\ UNCHANGED <<pool, qp, cq, drainVars, channel, lock, batch, reuse, pc, fresh, woken, env>>

PollCq(t) ==
  /\ lock = t /\ stage = "queue" /\ m_rx_queue = <<>>
  /\ \/ /\ TakeBatch(PollBatch) /\ stage' = "elem" /\ done' = done + Polled(PollBatch)
        /\ UNCHANGED <<pools, qp>>
     \/ /\ cq = <<>> /\ compensate_qp_poll_failed
        /\ fresh' = [fresh EXCEPT ![t] = TRUE] /\ stage' = "end"
        /\ UNCHANGED <<cq, batch, done, drainVars, m_up, filled>>
  /\ UNCHANGED <<m_rx_queue, channel, lock, sockVars, pc, wakefd, woken, env>>

PollEnd(t) ==
  /\ lock = t /\ (stage = "end" \/ (stage = "elem" /\ batch = <<>>))
  /\ Return(t, done > 0) /\ UNCHANGED batch
  /\ UNCHANGED <<pools, qp, cq, m_rx_queue, drainVars, channel, sockVars, fresh, wakefd, woken, env>>

(* process_cq_element_rx finds an error: the buffer is reclaimed.  It goes *)
(* to the CQ's pool when this CQ received into it before.                  *)
ElementBad ==
  /\ stage = "elem" /\ batch # <<>> /\ batch[1].bad /\ ~swCsum
  /\ batch' = Tail(batch)
  /\ \/ m_rx_pool' = m_rx_pool + 1 /\ UNCHANGED pool
     \/ pool' = pool + 1 /\ UNCHANGED m_rx_pool
  /\ UNCHANGED <<qp, cq, m_rx_queue, drainVars, channel, lock, stage, done, sockVars, waiter, env>>

(* Mutant: the queue is filled from the wrong end.                         *)
QueuedFirst == IF lock = Internal /\ batch[1].to # Tcp THEN <<batch[1]>> \o m_rx_queue ELSE m_rx_queue

(* The internal thread does not process UDP packets: they are queued, and  *)
(* the oldest one is the one to lose.                                      *)
Queued == IF lock = Internal /\ batch[1].to # Tcp THEN Append(m_rx_queue, batch[1]) ELSE m_rx_queue
ElementGood ==
  /\ stage = "elem" /\ batch # <<>> /\ (swCsum \/ ~batch[1].bad)
  /\ \E dropped \in BOOLEAN :
       /\ compensate_qp_poll_success(dropped)
       /\ IF lock = Internal /\ batch[1].to # Tcp
          THEN /\ m_rx_queue' = IF dropped THEN Tail(Queued) ELSE Queued
               /\ batch' = Tail(batch) /\ UNCHANGED stage
          ELSE /\ stage' = IF dropped THEN stage ELSE "deliver"
               /\ batch' = IF dropped THEN Tail(batch) ELSE batch
               /\ UNCHANGED m_rx_queue
  /\ UNCHANGED <<m_up, filled, cq, drainVars, channel, lock, done, sockVars, waiter, env>>

Deliver ==
  /\ stage = "deliver"
  /\ process_recv_buffer(batch[1])
  /\ batch' = Tail(batch) /\ stage' = "elem"
  /\ UNCHANGED <<pool, qp, cq, m_rx_queue, drainVars, channel, lock, done, reuse, pc, fresh, woken, env>>

-----------------------------------------------------------------------------
(* The internal thread: drain_and_proccess, when its try-lock succeeds.    *)
DrainStart ==
  /\ lock = None /\ lock' = Internal /\ stage' = "drain"
  /\ UNCHANGED <<pools, qp, cq, m_rx_queue, drainVars, channel, batch, done, sockVars, waiter, env>>

DrainMore == WceMax > m_n_wce_counter /\ ~m_b_was_drained

DrainStep ==
  /\ lock = Internal /\ (stage = "drain" \/ (stage = "elem" /\ batch = <<>>))
  /\ \/ DrainMore /\ TakeBatch(MaxBatch) /\ stage' = "elem" /\ UNCHANGED lock
     \/ /\ DrainMore /\ cq = <<>> /\ m_b_was_drained' = TRUE
        /\ lock' = None /\ stage' = None /\ UNCHANGED <<cq, batch, m_n_wce_counter, fresh>>
     \/ /\ ~DrainMore /\ m_n_wce_counter' = 0 /\ m_b_was_drained' = FALSE
        /\ lock' = None /\ stage' = None /\ UNCHANGED <<cq, batch, fresh>>
  /\ UNCHANGED <<pools, qp, m_rx_queue, channel, done, sockVars, pc, wakefd, woken, env>>

-----------------------------------------------------------------------------
(* Buffers of socket s go back to the ring, or to the global pool when the *)
(* ring is busy; a pool of the CQ that holds twice its level gives the     *)
(* excess away (return_extra_buffers).                                     *)
Extra(n) == IF n < 2 * CompLevel THEN 0 ELSE n - CompLevel
Reclaim(n) ==
  LET have == m_rx_pool + n
  IN  m_rx_pool' = have - Extra(have) /\ pool' = pool + Extra(have)

(* dequeue_packet and reuse_buffer: the application reads a packet.        *)
Dequeue(s) ==
  /\ ready[s] # <<>>
  /\ ready' = [ready EXCEPT ![s] = Tail(@)]
  /\ \/ /\ reuse[s] + 1 < 2 * ReuseBatch
        /\ reuse' = [reuse EXCEPT ![s] = @ + 1] /\ UNCHANGED pools
     \/ /\ reuse[s] + 1 >= 2 * ReuseBatch
        /\ reuse' = [reuse EXCEPT ![s] = 0]
        /\ IF lock = None THEN Reclaim(reuse[s] + 1)
           ELSE pool' = pool + reuse[s] + 1 /\ UNCHANGED m_rx_pool

(* rx: postponed buffers are returned if the ring is not busy; then the    *)
(* ready list is looked at.  poll_sn is not initialised; the worst it can  *)
(* hold is what the last call left there.                                  *)
Rx(t) ==
  /\ pc[t] = "idle" /\ pc' = [pc EXCEPT ![t] = "poll"]
  /\ IF reuse[t] >= ReuseBatch /\ lock = None
     THEN Reclaim(reuse[t]) /\ reuse' = [reuse EXCEPT ![t] = 0]
     ELSE UNCHANGED <<pools, reuse>>
  /\ UNCHANGED <<qp, cq, m_rx_queue, drainVars, channel, holder, ready, fresh, wakefd, woken, env>>

(* is_readable is true, or the list is looked at again: rx returns.        *)
Looking == Polling \cup {"check", "woken"}
RxReturn(t) ==
  /\ pc[t] \in Looking /\ lock # t
  /\ Dequeue(t)
  /\ pc' = [pc EXCEPT ![t] = "idle"] /\ woken' = [woken EXCEPT ![t] = {}]
  /\ UNCHANGED <<qp, cq, m_rx_queue, drainVars, channel, holder, fresh, wakefd, env>>

(* The TCP socket is read by a thread that never blocks here.              *)
TcpRead ==
  /\ Dequeue(Tcp)
  /\ UNCHANGED <<qp, cq, m_rx_queue, drainVars, channel, holder, waiter, env>>

(* Mutant: the channel is armed without the look at the serial number.     *)
ArmBlindly(t) ==
  /\ pc[t] = "arm" /\ pc' = [pc EXCEPT ![t] = "check"]
  /\ m_b_notification_armed' = TRUE
  /\ hwArmed' = (hwArmed \/ ~m_b_notification_armed)
  /\ UNCHANGED <<events, pools, qp, cq, m_rx_queue, drainVars, holder, sockVars, fresh, wakefd, woken, env>>

(* request_notification: 1 when the ring is busy or was polled since, else *)
(* the channel is armed.  The adapter raises the event at once when the CQ *)
(* holds a completion.                                                     *)
Arm(t) ==
  /\ pc[t] = "arm"
  /\ \/ /\ lock # None \/ ~fresh[t]
        /\ pc' = [pc EXCEPT ![t] = "repoll"] /\ UNCHANGED channel
     \/ /\ lock = None /\ fresh[t] /\ pc' = [pc EXCEPT ![t] = "check"]
        /\ \/ m_b_notification_armed /\ UNCHANGED channel
           \/ /\ ~m_b_notification_armed /\ m_b_notification_armed' = TRUE
              /\ hwArmed' = (cq = <<>>) /\ events' = IF cq = <<>> THEN events ELSE events + 1
  /\ UNCHANGED <<pools, qp, cq, m_rx_queue, drainVars, holder, sockVars, fresh, wakefd, woken, env>>

(* The ready list is empty, and is looked at once more under m_lock_rcv    *)
(* with going_to_sleep.                                                    *)
CheckReady(t) ==
  /\ pc[t] = "check" /\ ready[t] = <<>>
  /\ pc' = [pc EXCEPT ![t] = "gosleep"]
  /\ UNCHANGED <<pools, qp, cq, m_rx_queue, drainVars, channel, holder, sockVars, fresh, wakefd, woken, env>>

going_to_sleep(t) ==
  /\ pc[t] = "gosleep"
  /\ pc' = [pc EXCEPT ![t] = IF ready[t] = <<>> THEN "sleep" ELSE "arm"]
  /\ UNCHANGED <<pools, qp, cq, m_rx_queue, drainVars, channel, holder, sockVars, fresh, wakefd, woken, env>>

(* epoll_wait returns the descriptors that are ready.                      *)
Awake(t) ==
  /\ pc[t] = "sleep" /\ (events > 0 \/ wakefd[t])
  /\ woken' = [woken EXCEPT ![t] = (IF events > 0 THEN {"cq"} ELSE {}) \cup (IF wakefd[t] THEN {"wakeup"} ELSE {})]
  /\ pc' = [pc EXCEPT ![t] = "woken"]
  /\ UNCHANGED <<pools, qp, cq, m_rx_queue, drainVars, channel, holder, sockVars, fresh, wakefd, env>>

(* The wakeup fd is removed; the channel is handled next.                  *)
HandleEvents(t) ==
  /\ pc[t] = "woken" /\ ready[t] = <<>>
  /\ wakefd' = [wakefd EXCEPT ![t] = @ /\ "wakeup" \notin woken[t]]
  /\ pc' = [pc EXCEPT ![t] = IF "cq" \in woken[t] THEN "event" ELSE "postpoll"]
  /\ woken' = [woken EXCEPT ![t] = {}]
  /\ UNCHANGED <<pools, qp, cq, m_rx_queue, drainVars, channel, holder, sockVars, fresh, env>>

(* Mutant: the channel counts as armed after its event was read.           *)
GetEventStaysArmed(t) ==
  /\ pc[t] = "event" /\ lock # t
  /\ \/ /\ lock = None /\ m_b_notification_armed /\ events > 0
        /\ events' = events - 1
        /\ StartPoll(t) /\ UNCHANGED <<pc, hwArmed, m_b_notification_armed>>
     \/ /\ lock # None \/ ~m_b_notification_armed \/ events = 0
        /\ pc' = [pc EXCEPT ![t] = "postpoll"] /\ UNCHANGED <<channel, holder>>
  /\ UNCHANGED <<pools, qp, cq, m_rx_queue, drainVars, sockVars, fresh, wakefd, woken, env>>

(* wait_for_notification_and_process_element: the event is read and the    *)
(* ring polled, unless the ring is busy or another thread was faster.      *)
GetEvent(t) ==
  /\ pc[t] = "event" /\ lock # t
  /\ \/ /\ lock = None /\ m_b_notification_armed /\ events > 0
        /\ events' = events - 1 /\ m_b_notification_armed' = FALSE
        /\ StartPoll(t) /\ UNCHANGED <<pc, hwArmed>>
     \/ /\ lock # None \/ ~m_b_notification_armed \/ events = 0
        /\ pc' = [pc EXCEPT ![t] = "postpoll"] /\ UNCHANGED <<channel, holder>>
  /\ UNCHANGED <<pools, qp, cq, m_rx_queue, drainVars, sockVars, fresh, wakefd, woken, env>>

-----------------------------------------------------------------------------
(* stop_active_qp_mgr: the QP goes to the error state and flushes its      *)
(* requests; release_rx_buffers drains the CQ until it meets the last one  *)
(* posted, and del_qp_rx forgets the QP.  own of the flushed buffers were  *)
(* used by this CQ before.  If the last request was polled already, the    *)
(* loop waits for it for ever.                                             *)
LastIsPolled == m_last_posted_rx_wr_id /\ posted + Len(cq) = 0
stop_active_qp_mgr ==
  /\ lock = None /\ m_up /\ MayHappen(StopCost)
  /\ stops' = stops + 1 /\ m_up' = FALSE
  /\ \/ /\ ~LastIsPolled
        /\ \E own \in {0, posted + m_curr_rx_wr} :
             LET have == m_rx_pool + Len(cq) + own
             IN  /\ m_rx_pool' = have - Extra(have)
                 /\ pool' = pool + posted + m_curr_rx_wr - own + Extra(have)
        /\ posted' = 0 /\ m_curr_rx_wr' = 0 /\ m_last_posted_rx_wr_id' = FALSE /\ cq' = <<>> /\ debt' = 0
        /\ filled' = 0
        /\ m_b_was_drained' = (m_b_was_drained /\ ~m_last_posted_rx_wr_id)
        /\ m_n_wce_counter' = IF m_last_posted_rx_wr_id THEN 0 ELSE m_n_wce_counter
        /\ fresh' = IF posted + Len(cq) > 0 THEN [t \in Threads |-> FALSE] ELSE fresh
        /\ events' = (IF hwArmed /\ posted > 0 THEN events + 1 ELSE events)
        /\ hwArmed' = (hwArmed /\ posted = 0)
        /\ UNCHANGED <<lock, stage>>
     \/ /\ LastIsPolled /\ lock' = Internal /\ stage' = "stuck"
        /\ UNCHANGED <<pools, posted, m_curr_rx_wr, m_last_posted_rx_wr_id, cq, debt, filled, drainVars, fresh,
                       events, hwArmed>>
  /\ UNCHANGED <<m_rx_queue, m_b_notification_armed, batch, done, sockVars, pc, wakefd, woken, arrived, keepFull, swCsum,
                 m_n_buffers_created>>

(* start_active_qp_mgr: the QP is filled from the global pool.             *)
start_active_qp_mgr ==
  /\ lock = None /\ ~m_up /\ m_up' = TRUE
  /\ posted' = Batches(pool) * PostBatch /\ m_curr_rx_wr' = Rest(pool)
  /\ pool' = pool - posted' - m_curr_rx_wr' /\ filled' = posted' + m_curr_rx_wr'
  /\ m_last_posted_rx_wr_id' = (posted' > 0) /\ debt' = 0
  /\ UNCHANGED <<m_rx_pool, cq, m_rx_queue, drainVars, channel, holder, sockVars, waiter, env>>

-----------------------------------------------------------------------------
RingStep == ElementBad \/ ElementGood \/ Deliver
Wait(t) ==
  \/ RxReturn(t) \/ Arm(t) \/ CheckReady(t) \/ going_to_sleep(t) \/ Awake(t) \/ HandleEvents(t) \/ GetEvent(t)
  \/ PollQueue(t) \/ PollCq(t) \/ PollEnd(t)

Next ==
  \/ \E pkt \in Traffic : Arrive(pkt[1], pkt[2])
  \/ \E t \in Threads : Rx(t) \/ PollLocked(t) \/ PollBusy(t) \/ Wait(t)
  \/ RingStep \/ DrainStart \/ DrainStep \/ TcpRead
  \/ stop_active_qp_mgr \/ start_active_qp_mgr

(* Threads keep running, the internal thread's timer keeps firing, a       *)
(* stopped ring is started again, and a thread that tries the lock again   *)
(* and again does not always meet its holder.                              *)
Fairness ==
  /\ WF_vars(RingStep) /\ WF_vars(DrainStep) /\ SF_vars(DrainStart) /\ SF_vars(start_active_qp_mgr)
  /\ \A t \in Threads : WF_vars(Wait(t)) /\ SF_vars(PollLocked(t)) /\ SF_vars(GetEvent(t))

Spec == Init /\ [][Next]_vars
FairSpec == Spec /\ Fairness

-----------------------------------------------------------------------------
Packets == [to : Socks, bad : BOOLEAN, n : 1..MaxEvents]
Places == {"idle", "poll", "repoll", "postpoll", "arm", "check", "gosleep", "sleep", "woken", "event"}

(* Counts are natural numbers, an array of requests is never full between  *)
(* two operations, and the armed flag covers at most one event.            *)
TypeOK ==
  /\ {pool, m_rx_pool, posted, debt, filled} \subseteq 0..m_n_buffers_created /\ m_curr_rx_wr \in 0..(PostBatch - 1)
  /\ {m_last_posted_rx_wr_id, m_up, keepFull, swCsum, m_b_was_drained, m_b_notification_armed, hwArmed} \subseteq BOOLEAN
  /\ {cq, m_rx_queue, batch} \subseteq Seq(Packets) /\ \A s \in Socks : ready[s] \in Seq(Packets)
  /\ m_n_wce_counter \in 0..WceMax /\ events \in 0..1 /\ done \in 0..(2 * PollBatch)
  /\ lock \in Threads \cup {Internal, None}
  /\ stage \in {None, "queue", "elem", "deliver", "end", "drain", "stuck"}
  /\ reuse \in [Socks -> 0..(2 * ReuseBatch - 1)]
  /\ pc \in [Threads -> Places] /\ fresh \in [Threads -> BOOLEAN] /\ wakefd \in [Threads -> BOOLEAN]
  /\ woken \in [Threads -> SUBSET {"cq", "wakeup"}]
  /\ {arrived, stops} \subseteq 0..MaxEvents

(* Polled completions that compensate_qp_poll_success has not counted.     *)
Uncounted == Len(batch) - (IF stage = "deliver" THEN 1 ELSE 0)

(* buffer_pool panics when more buffers come back than were created; fewer *)
(* are a leak.  Every buffer is in one place, through drops, reposts,      *)
(* reclaims from a busy ring and failovers.                                *)
BuffersConserved ==
  m_n_buffers_created =
          pool + m_rx_pool + m_curr_rx_wr + posted + Len(cq) + Len(batch) + Len(m_rx_queue)
          + MapThenSumSet(LAMBDA s : Len(ready[s]) + reuse[s], Socks)

(* compensate_qp_poll_success: "Compensate QP for all completions that we  *)
(* found": what the receive queue lost since the QP came up is remembered  *)
(* as debt, so that the QP can always be filled again.                     *)
CompensatesAll == m_up => posted + m_curr_rx_wr + Len(cq) + Uncounted + debt = filled

(* This holds when checksums are verified by software (VMA_RX_SW_CSUM), so *)
(* that no completion is refused by process_cq_element_rx.                 *)
QpIsCompensated == swCsum => CompensatesAll

(* A QP that came up full keeps a receive request, however many buffers    *)
(* the sockets hold: between the requests kept back for a batch and the    *)
(* debt that waits for one there is always one left.  release_rx_buffers   *)
(* relies on it: it waits for the last request posted to complete.         *)
QpNeverStarves ==
  m_up /\ swCsum /\ filled = RxNumWr /\ (keepFull \/ MaxBatch >= PostBatch) => posted + Len(cq) + Uncounted > 0

(* The packets of a socket are read in the order they arrived in, whether  *)
(* the thread or the internal thread took them off the CQ.                 *)
To(seq, s) == SelectSeq(seq, LAMBDA p : p.to = s)
InOrder ==
  \A s \in Socks :
    LET all == ready[s] \o To(m_rx_queue, s) \o To(batch, s) \o To(cq, s)
    IN  \A i, j \in 1..Len(all) : i < j => all[i].n < all[j].n

(* sockinfo_udp::rx_wait blocks "on all rx_cq's notification channels and  *)
(* the socket's OS fd until we get an ip packet": a thread sleeps beside a *)
(* packet of its own only if an event will wake it up or another thread is *)
(* about to look at the ring.                                              *)
Waiting(t) == {p \in Range(cq) \cup Range(m_rx_queue) : p.to = t}
SleeperIsServed ==
  \A t \in Threads :
    pc[t] = "sleep" /\ Waiting(t) # {} =>
      events > 0 \/ wakefd[t] \/ \E u \in Threads : pc[u] \notin {"idle", "sleep"}

(* A packet that arrives for a sleeping thread wakes it up, even when the  *)
(* internal thread takes it off the CQ first.                              *)
PacketWakes ==
  \A t \in Threads : pc[t] = "sleep" /\ Waiting(t) # {} ~> pc[t] # "sleep"

(* VMA_PROGRESS_ENGINE: TCP goes on "even when the application doesn't     *)
(* access its socket": once packets cease to arrive no TCP packet stays in *)
(* the CQ, whatever the application polled before and the drain flags say. *)
TcpInCq == \E p \in Range(cq) : p.to = Tcp
TcpProgress == TcpInCq ~> (stage = "stuck" \/ ~TcpInCq)
====
