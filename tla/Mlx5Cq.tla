------------------------------ MODULE Mlx5Cq ------------------------------
(***************************************************************************)
(* The completion queues of mlx5: cq_mgr_mlx5, and below it cq_mgr_mp,     *)
(* which derives from it, with the cyclic-buffer ring it serves.  The two  *)
(* halves share no state.                                                  *)
(*                                                                         *)
(* cq_mgr_mlx5 reads the completions of the device from memory: the        *)
(* consumer index picks the slot, and the owner bit of the slot tells on   *)
(* which lap of the ring the device wrote it.  A receive completion does   *)
(* not name its buffer: poll takes it from m_rq_wqe_idx_to_wrid, which     *)
(* qp_mgr fills as it posts, and the queue starts over on a restart while  *)
(* the completion queue does not.                                          *)
(*                                                                         *)
(* One queue per behaviour, of the receive or of the send side.  The       *)
(* driver (external) rounds the size it is asked for up to a power of two. *)
(* A packet that no socket wants is one that the application returns.      *)
(***************************************************************************)
EXTENDS Naturals, Sequences, FiniteSets, SequencesExt, Bitwise

CONSTANTS RxWre,      \* VMA_RX_WRE
          TxWre,      \* VMA_TX_WRE
          PostNum,    \* VMA_RX_WRE_BATCHING: receives posted at once
          Level,      \* VMA_QP_COMPENSATION_LEVEL
          KeepFull,   \* VMA_CQ_KEEP_QP_FULL
          PollMax,    \* VMA_CQ_POLL_BATCH_MAX
          WceMax,     \* VMA_PROGRESS_ENGINE_WCE_MAX
          IndexSpace, \* size of the indices, a power of two
          RxBufs,     \* receive buffers, numbered from 1
          MaxUps      \* Bound: restarts

VARIABLES side,  \* "rx" or "tx"
          slots, \* the completion queue in memory
          prod,  \* the device's producer index
          rq,    \* posted buffers that the device has not filled
          m,     \* the cq_mgr_mlx5 and its qp_mgr
          ups

mcqVars == <<side, slots, prod, rq, m, ups>>

None == 0
Pow2 == {2^i : i \in 0..10}

\* align32pow2, and the size the driver gives a queue (external).
cq_align32pow2(n) == CHOOSE p \in Pow2 : p >= n /\ \A r \in Pow2 : r >= n => p <= r
DriverSize(n) == cq_align32pow2(n)

\* init_rx_cq_mgr aligns the number of receives, init_tx_cq_mgr takes what it is given.
RxSize == cq_align32pow2(RxWre)
init_cq_mgr(s) == IF s = "rx" THEN RxSize ELSE TxWre

Lowest(S) == CHOOSE b \in S : \A c \in S : b <= c
RECURSIVE LowestN(_, _)
LowestN(S, n) == IF n = 0 \/ S = {} THEN <<>>
                 ELSE <<Lowest(S)>> \o LowestN(S \ {Lowest(S)}, n - 1)
Least(a, b) == IF a < b THEN a ELSE b

---------------------------------------------------------------------------
\* The buffer takes the next index; a full batch goes to the device.
post_recv_buffer(x, b) ==
    LET a == [x EXCEPT !.idx[x.ctr % RxSize] = b, !.ctr = (@ + 1) % IndexSpace,
                       !.curr = Append(@, b)]
    IN  IF Len(a.curr) = PostNum
        THEN [a EXCEPT !.posts = @ \o a.curr, !.curr = <<>>,
                       !.head = (@ + PostNum) % IndexSpace]
        ELSE a

\* n buffers of the queue's own pool are posted.
post_recv_buffers(x, n) ==
    LET out == LowestN(x.pool, n)
    IN  FoldLeft(post_recv_buffer, [x EXCEPT !.pool = @ \ ToSet(out)], out)

request_more_buffers(x) ==
    IF Cardinality(x.free) < Level THEN x
    ELSE LET out == ToSet(LowestN(x.free, Level))
         IN  [x EXCEPT !.free = @ \ out, !.pool = @ \cup out]

return_extra_buffers(x) ==
    IF Cardinality(x.pool) < 2 * Level THEN x
    ELSE LET out == ToSet(LowestN(x.pool, Cardinality(x.pool) - Level))
         IN  [x EXCEPT !.free = @ \cup out, !.pool = @ \ out]

\* The debt is paid from the pool as far as it reaches.
Pay(x) == LET n == Least(x.debt, Cardinality(x.pool))
          IN  [post_recv_buffers(x, n) EXCEPT !.debt = @ - n]
More(x) == IF x.pool = {} THEN request_more_buffers(x) ELSE x

compensate_qp_poll_failed(x) == IF x.debt > 0 THEN Pay(More(x)) ELSE x

\* Sets "reposted" when the buffer at hand, and so its packet, went back.
compensate_qp_poll_success(x, b) ==
    LET owed == [x EXCEPT !.debt = @ + 1, !.reposted = FALSE]
        more == More(owed)
    IN  IF owed.debt < PostNum THEN owed
        ELSE IF more.pool # {} THEN Pay(more)
        ELSE IF KeepFull \/ owed.debt + PollMax > RxSize
             THEN [post_recv_buffer(owed, b) EXCEPT !.debt = @ - 1, !.reposted = TRUE]
        ELSE owed

---------------------------------------------------------------------------
\* The slot at the consumer index was written on this lap (get_cqe64 makes
\* the same test for the send side).
check_cqe(x) ==
    LET c == slots[x.cons & (x.size - 1)]
    IN  c.op # "none" /\ (c.own = 1) = ((x.cons & x.size) # 0)

\* The completion at the consumer index is taken; "sure" notes whether it is
\* the next one the device wrote, for the buffer that it was written for.
Take(x, buf) ==
    LET c == slots[x.cons & (x.size - 1)]
    IN  [x EXCEPT !.cons = (@ + 1) % IndexSpace,
                  !.sure = @ /\ c.n = x.cons /\ c.buf = buf]

\* The status that cqe64_to_mem_buff_desc gives a completion: BS_OK or an error.
cqe64_to_mem_buff_desc(x) == slots[x.cons & (x.size - 1)].op = "ok"

\* x.got is the buffer returned, None if there is none; x.ok its status.
poll(x) ==
    LET h == IF x.hot # None \/ x.tail = x.head THEN x
             ELSE [x EXCEPT !.hot = x.idx[x.tail % RxSize], !.idx[x.tail % RxSize] = None]
    IN  IF h.hot = None /\ x.tail = x.head THEN [h EXCEPT !.got = None]
        ELSE IF check_cqe(h)
             THEN [Take(h, h.hot) EXCEPT !.got = h.hot, !.ok = cqe64_to_mem_buff_desc(h),
                                         !.tail = (@ + 1) % IndexSpace, !.hot = None]
        ELSE [h EXCEPT !.got = None]

\* A bad completion gives its buffer back to the pool; there is no packet.
process_cq_element_rx(x) ==
    IF x.ok THEN x ELSE [x EXCEPT !.pool = @ \cup {x.got}, !.got = None]

Up(x, b) == [x EXCEPT !.held = @ \cup {b}]

\* Packets that the internal thread queued.
process_recv_queue(x) ==
    LET n == Least(PollMax, Len(x.rxq))
    IN  [x EXCEPT !.held = @ \cup {x.rxq[i] : i \in 1..n}, !.rxq = SubSeq(@, n + 1, Len(@))]

\* One turn of the loop of poll_and_process_element_rx.
PollOne(x) ==
    LET p == poll(x)
        q == process_cq_element_rx(p)
        s == compensate_qp_poll_success(q, q.got)
    IN  IF x.drained THEN x
        ELSE IF p.got = None THEN [p EXCEPT !.drained = TRUE]
        ELSE IF q.got = None THEN [q EXCEPT !.n = @ + 1]
        ELSE IF s.reposted THEN [s EXCEPT !.n = @ + 1] ELSE [Up(s, q.got) EXCEPT !.n = @ + 1]

poll_and_process_element_rx ==
    LET x == process_recv_queue([m EXCEPT !.n = 0, !.drained = FALSE])
        y == FoldLeft(LAMBDA a, i : PollOne(a), x, [i \in 1..PollMax |-> i])
    IN  IF Len(m.rxq) >= PollMax THEN x
        ELSE IF y.n = 0 THEN compensate_qp_poll_failed(y) ELSE y

\* One turn of drain_and_proccess: TCP is processed at once, UDP is queued
\* and the oldest queued packet is the one that may be reposted.
DrainOne(x, tcp) ==
    LET p   == poll(x)
        q   == process_cq_element_rx(p)
        s   == compensate_qp_poll_success(q, q.got)
        all == Append(q.rxq, q.got)
        u   == compensate_qp_poll_success(q, Head(all))
    IN  IF x.drained THEN x
        ELSE IF p.got = None THEN [p EXCEPT !.drained = TRUE]
        ELSE IF q.got = None THEN q
        ELSE IF tcp THEN (IF s.reposted THEN s ELSE Up(s, q.got))
        ELSE [u EXCEPT !.rxq = IF u.reposted THEN Tail(all) ELSE all]

drain_and_proccess(tcp) ==
    FoldLeft(LAMBDA a, i : DrainOne(a, tcp), [m EXCEPT !.drained = FALSE], [i \in 1..WceMax |-> i])

---------------------------------------------------------------------------
\* add_qp_rx with set_qp_rq: indices start over, and the queue is filled from
\* the global pool, a batch at a time.
set_qp_rq(x) == [x EXCEPT !.ctr = 0, !.hot = None]
FillBatch(x, left) ==
    LET n == Least(PostNum, left)
        out == LowestN(x.free, n)
    IN  IF Len(out) < n THEN x
        ELSE FoldLeft(post_recv_buffer, [x EXCEPT !.free = @ \ ToSet(out)], out)
add_qp_rx(x) ==
    LET y == FoldLeft(LAMBDA a, i : FillBatch(a, RxSize - (i - 1) * PostNum), set_qp_rq(x),
                      [i \in 1..((RxSize + PostNum - 1) \div PostNum) |-> i])
    IN  [y EXCEPT !.debt = 0]

\* Initially, a queue of either side that is up.
Fresh(s) == [size |-> init_cq_mgr(s), cons |-> 0, sure |-> TRUE,
             idx |-> [i \in 0..(RxSize - 1) |-> None], ctr |-> 0, curr |-> <<>>, posts |-> <<>>,
             head |-> 0, tail |-> 0, hot |-> None, debt |-> 0,
             pool |-> {}, free |-> RxBufs, held |-> {}, rxq |-> <<>>,
             got |-> None, ok |-> TRUE, n |-> 0, drained |-> FALSE, reposted |-> FALSE, alive |-> TRUE]

\* Of a completion that was taken only the owner bit is ever looked at again:
\* the model forgets the rest.
Ahead(cons) == {(cons + d) % IndexSpace : d \in 0..(((prod - cons + IndexSpace) % IndexSpace) - 1)}
Past(c) == [c EXCEPT !.op = "ok", !.n = IndexSpace, !.buf = None]
Forgotten(cons) ==
    [i \in DOMAIN slots |-> IF slots[i].op = "none" \/ slots[i].n \in Ahead(cons) THEN slots[i]
                           ELSE Past(slots[i])]

\* What the calls posted goes to the device; their local results are forgotten.
SettleCq(x) ==
    /\ rq' = rq \o x.posts
    /\ m' = [x EXCEPT !.posts = <<>>, !.got = None, !.ok = TRUE, !.n = 0,
                      !.drained = FALSE, !.reposted = FALSE]

McqInit ==
    /\ side \in {"rx", "tx"}
    /\ slots = [i \in 0..(DriverSize(init_cq_mgr(side)) - 1) |->
                   [own |-> 0, op |-> "none", n |-> 0, buf |-> None]]
    /\ prod = 0 /\ ups = 0
    /\ LET x == IF side = "rx" THEN add_qp_rx(Fresh("rx")) ELSE Fresh("tx")
       IN  rq = x.posts /\ m = [x EXCEPT !.posts = <<>>]

\* The device writes a completion of buffer b; the owner bit is the lap's.
Written(s, p, op, b) ==
    LET size == DriverSize(m.size)
    IN  [s EXCEPT ![p % size] = [own |-> (p \div size) % 2, op |-> op, n |-> p, buf |-> b]]
Outstanding == (prod - m.cons + IndexSpace) % IndexSpace

HwReceives ==
    /\ side = "rx" /\ rq # <<>>
    /\ \E op \in {"ok", "err"} : slots' = Written(slots, prod, op, Head(rq))
    /\ rq' = Tail(rq) /\ prod' = (prod + 1) % IndexSpace
    /\ UNCHANGED <<side, m, ups>>

HwSends ==
    /\ side = "tx" /\ Outstanding < m.size
    /\ \E op \in {"ok", "err"} : slots' = Written(slots, prod, op, None)
    /\ prod' = (prod + 1) % IndexSpace
    /\ UNCHANGED <<side, rq, m, ups>>

Poll ==
    /\ side = "rx" /\ m.alive
    /\ SettleCq(poll_and_process_element_rx)
    /\ slots' = Forgotten(m'.cons)
    /\ UNCHANGED <<side, prod, ups>>

Drain ==
    /\ side = "rx" /\ m.alive
    /\ \E tcp \in BOOLEAN : SettleCq(drain_and_proccess(tcp))
    /\ slots' = Forgotten(m'.cons)
    /\ UNCHANGED <<side, prod, ups>>

\* poll_and_process_element_tx takes one completion, good or bad.
CqPollTx ==
    /\ side = "tx" /\ check_cqe(m)
    /\ m' = Take(m, None)
    /\ slots' = Forgotten(m'.cons)
    /\ UNCHANGED <<side, prod, rq, ups>>

\* The application returns a buffer: to the queue, or, once it is gone, to the global pool.
reclaim_recv_buffers ==
    /\ m.held # {}
    /\ LET b == Lowest(m.held)  \* the buffers held are alike
       IN  m' = IF m.alive
                THEN return_extra_buffers([m EXCEPT !.held = @ \ {b}, !.pool = @ \cup {b}])
                ELSE [m EXCEPT !.held = @ \ {b}, !.free = @ \cup {b}]
    /\ UNCHANGED <<side, slots, prod, rq, ups>>

\* down: the device flushes what is posted, release_rx_buffers returns what
\* was not posted yet and drains until the last posted buffer, and del_qp_rx
\* returns what the pool has too much.
Flushed == FoldLeft(LAMBDA a, b : [s |-> Written(a.s, a.p, "flush", b), p |-> (a.p + 1) % IndexSpace],
                    [s |-> slots, p |-> prod], rq)
down == LET mine == {i \in DOMAIN slots :
                       slots[i].op # "none" /\ \E d \in 0..(m.size - 1) :
                          d < Outstanding /\ slots[i].n = (m.cons + d) % IndexSpace}
            bufs == {slots[i].buf : i \in mine} \cup ToSet(rq) \cup ToSet(m.curr)
        IN  return_extra_buffers([m EXCEPT !.pool = @ \cup bufs, !.curr = <<>>, !.hot = None,
                                           !.cons = Flushed.p,
                                           !.head = 0, !.tail = 0, !.debt = 0,
                                           !.idx = [i \in DOMAIN @ |-> None]])

cq_restart ==
    /\ side = "rx" /\ m.alive /\ ups < MaxUps /\ ups' = ups + 1
    /\ LET x == add_qp_rx(down)
       IN  rq' = x.posts /\ m' = [x EXCEPT !.posts = <<>>]
    /\ slots' = [i \in DOMAIN slots |-> IF Flushed.s[i].op = "none" THEN Flushed.s[i] ELSE Past(Flushed.s[i])]
    /\ prod' = Flushed.p
    /\ UNCHANGED side

\* ~qp_mgr and ~cq_mgr after down: the queued packets and the pool go to the
\* global pool.
destroy ==
    /\ side = "rx" /\ m.alive
    /\ m' = [down EXCEPT !.alive = FALSE, !.free = @ \cup down.pool \cup ToSet(m.rxq),
                         !.pool = {}, !.rxq = <<>>]
    /\ slots' = [i \in DOMAIN slots |-> IF Flushed.s[i].op = "none" THEN Flushed.s[i] ELSE Past(Flushed.s[i])]
    /\ prod' = Flushed.p /\ rq' = <<>>
    /\ UNCHANGED <<side, ups>>

McqNext == HwReceives \/ HwSends \/ Poll \/ Drain \/ CqPollTx \/ reclaim_recv_buffers
           \/ cq_restart \/ destroy

McqSpec == McqInit /\ [][McqNext]_mcqVars

---------------------------------------------------------------------------
(* The indices and sets of a cq_mgr_mlx5 and of its receive queue.         *)
McqTypeOK ==
    /\ prod \in 0..(IndexSpace - 1) /\ m.cons \in 0..(IndexSpace - 1)
    /\ ToSet(rq) \subseteq RxBufs
    /\ m.pool \cup m.free \cup m.held \subseteq RxBufs
    /\ m.debt \in 0..RxSize /\ Len(m.curr) < PostNum

(* The completion that poll or get_cqe64 finds is the next one the device  *)
(* wrote, it finds one exactly when there is one, and the buffer that      *)
(* m_rq_wqe_idx_to_wrid gives is the one that the device filled: over laps *)
(* of the ring, batches half posted, reposted buffers and restarts.        *)
CompletionsSeen ==
    /\ m.sure
    /\ check_cqe(m) <=> Outstanding > 0

(* Every receive buffer is in exactly one place: with the device, with a   *)
(* completion, in the batch, in a pool, queued or with the application;    *)
(* and none is left with the queue once it is destroyed.                   *)
RxBuffersTracked ==
    side = "rx" =>
    LET unpolled == [d \in 1..Outstanding |-> slots[((m.cons + d - 1) % IndexSpace) % RxSize].buf]
        placed   == rq \o unpolled \o m.curr \o m.rxq \o SetToSeq(m.pool) \o SetToSeq(m.free) \o SetToSeq(m.held)
    IN  /\ ToSet(placed) = RxBufs /\ Len(placed) = Cardinality(RxBufs)
        /\ ~m.alive => m.free \cup m.held = RxBufs

-----------------------------------------------------------------------------
(***************************************************************************)
(* The cyclic-buffer receive ring: ring_eth_cb over qp_mgr_mp and          *)
(* cq_mgr_mp.  A striding receive queue has m_wq_count work elements, each *)
(* of m_strides_num strides; the device writes packets into consecutive    *)
(* strides of one contiguous memory area and completes each with the       *)
(* number of strides it took.  cyclic_buffer_read polls the completions    *)
(* and hands the application one pointer and a count, computed from how    *)
(* many strides it believes were used before the first packet.             *)
(* A position is a stride number in the whole area (the byte address is    *)
(* the base plus the position times m_payload_len); lengths are in bytes   *)
(* only in the memory layout, which is computed once, at creation.         *)
(***************************************************************************)
CONSTANTS
    Requests,      \* vma_cyclic_buffer_ring_attr records the application may ask for
    NetLen,        \* length of the Ethernet, IP and UDP headers
    Caps,          \* the device's mp_rq_caps: logs of the least and largest stride and element
    MaxWqes,       \* MAX_MP_WQES
    Asks,          \* <<min, max>> arguments of cyclic_buffer_read
    Faults,        \* kinds of completion other than "good" the device may produce
    CbPackets      \* bound: packets the device receives

VARIABLES
    geo,           \* the ring's geometry and layout, or "none"
    res,           \* verbs resources the ring holds
    life,          \* "none", "up", "failed", "deleted"
    posted,        \* work elements with the device, oldest first
    hwOff,         \* strides of the oldest one the device has used
    cb,            \* the software state, see CbStart
    out,           \* the last completion returned to the application
    arrivals       \* packets received so far

cyclicVars == <<geo, res, life, posted, hwOff, cb, out, arrivals>>

MinWqes == 2
NoAddr == 1000
NoCompletion == [ptr |-> NoAddr, packets |-> 0, strides |-> 0, want |-> <<>>]
Modes == {"raw", "strip", "separate", "padded"}

-----------------------------------------------------------------------------
(* Geometry and layout.                                                     *)

ilog_2(n) == IF n = 0 THEN 0 ELSE CHOOSE t \in 0..31 : 2^t >= n /\ \A k \in 0..(t - 1) : 2^k < n
align32pow2(n) == 2^ilog_2(n)
AtLeast(x, low) == IF x < low THEN low ELSE x
AtMost(x, high) == IF x > high THEN high ELSE x

Geometry(q) ==
    LET strideLog == AtMost(AtLeast(ilog_2(align32pow2(q.stride + q.hdr + NetLen)), Caps.minStride),
                            Caps.maxStride)
        asked     == q.num \div 2^Caps.maxWqe
        many      == asked > 2
    IN [strideSize |-> 2^strideLog,
        wqs        |-> IF many THEN AtMost(asked, MaxWqes) ELSE MinWqes,
        strides    |-> IF many THEN 2^Caps.maxWqe
                       ELSE 2^AtLeast(ilog_2(align32pow2(q.num) \div MinWqes), Caps.minWqe)]

Region(base, per, step) == [base |-> base, per |-> per, step |-> step]

(* allocate_umr_mem: how many strides one packet takes, the size of the     *)
(* area and the blocks the device scatters a packet's parts to.             *)
UmrCount(q, g) == CHOOSE c \in 1..(q.stride + 1) : /\ g.strideSize * c > q.stride
                                                   /\ \A k \in 1..(c - 1) : g.strideSize * k <= q.stride

allocate_umr_mem(q, g) ==
    LET n == g.strides * g.wqs
    IN CASE q.mode = "raw"      -> <<Region(0, NetLen + q.stride, NetLen + q.stride)>>
         [] q.mode = "strip"    -> (<<Region(0, NetLen, 0)>>
                                    \o (IF q.hdr > 0 THEN <<Region(n * NetLen, q.hdr, q.hdr)>> ELSE <<>>)
                                    \o <<Region(n * (NetLen + q.hdr), q.stride, q.stride)>>)
         [] q.mode = "separate" -> <<Region(0, NetLen + q.hdr, NetLen + q.hdr),
                                     Region(n * (NetLen + q.hdr), q.stride, q.stride)>>

Layout(q, g) ==
    IF q.mode = "padded" THEN [count |-> 1, size |-> g.strideSize * g.strides * g.wqs,
                               blocks |-> <<Region(0, g.strideSize, g.strideSize)>>]
    ELSE [count |-> UmrCount(q, g), size |-> (NetLen + q.hdr + q.stride) * g.strides * g.wqs,
          blocks |-> allocate_umr_mem(q, g)]

-----------------------------------------------------------------------------
(* The completion queue and the work queue.  c is a value of cb.            *)

CbStart == [cqes |-> <<>>, unacked |-> 0, repost |-> <<>>, used |-> 0, packets |-> 0,
            padd |-> 0, all |-> 0, wq |-> 0, addr |-> NoAddr, want |-> <<>>, upset |-> FALSE,
            ret |-> "none"]

(* What one poll sees: nothing, an error, which is not consumed, or a       *)
(* completion, which is.                                                    *)
poll_mp_cq(c) ==
    IF c.cqes = <<>> THEN [kind |-> "empty", strides |-> 0, pos |-> 0, c |-> c]
    ELSE LET e == Head(c.cqes)
         IN [kind |-> e.kind, strides |-> e.strides, pos |-> e.pos,
             c |-> IF e.kind = "error" THEN c
                   ELSE [c EXCEPT !.cqes = Tail(@), !.unacked = @ + 1]]

update_dbell(c) == [c EXCEPT !.unacked = 0]

(* The element just used up goes back to the device; TRUE in `wrapped' when *)
(* it was the last of the area.                                             *)
reload_wq(c) ==
    LET d == update_dbell(c)
        w == (c.wq + 1) % geo.wqs
    IN [c |-> [d EXCEPT !.repost = Append(@, c.wq), !.wq = w, !.used = 0,
                        !.all = IF w = 0 THEN 0 ELSE @ + geo.strides],
        wrapped |-> w = 0]

ReloadIfUsed(c) == IF c.used >= geo.strides THEN reload_wq(c) ELSE [c |-> c, wrapped |-> FALSE]

Use(c, n) == [c EXCEPT !.used = @ + n]
Ends(c, how) == [c EXCEPT !.ret = how]
Wanted(c, p) == [c EXCEPT !.want = Append(@, [pos |-> p.pos, strides |-> p.strides])]

RECURSIVE mp_loop_padded(_, _)
mp_loop_padded(c, limit) ==
    IF c.packets >= limit THEN Ends(c, "limit")
    ELSE LET p == poll_mp_cq(c)
             u == Use(p.c, p.strides)
             g == ReloadIfUsed([Wanted(u, p) EXCEPT !.padd = @ + p.strides, !.packets = @ + 1])
         IN CASE p.kind = "empty" -> Ends(c, "drained")
              [] p.kind = "error" -> Ends(c, "return")
              [] p.kind \in {"bad", "filler"} -> Ends(ReloadIfUsed(u).c, "return")
              [] p.kind = "good" -> IF g.wrapped THEN Ends(g.c, "return")
                                    ELSE mp_loop_padded(g.c, limit)

RECURSIVE mp_loop(_, _)
mp_loop(c, limit) ==
    IF c.packets >= limit THEN Ends(c, "limit")
    ELSE LET p == poll_mp_cq(c)
             u == Use(p.c, p.strides)
             g == ReloadIfUsed([Wanted(u, p) EXCEPT !.packets = @ + 1])
         IN CASE p.kind = "empty" -> Ends(c, "drained")
              [] p.kind = "error" -> Ends(c, "return")
              [] p.kind = "big" -> Ends([u EXCEPT !.upset = TRUE], "return")
              [] p.kind \in {"bad", "filler"} -> Ends(ReloadIfUsed(u).c, "return")
              [] p.kind = "good" -> IF g.wrapped THEN Ends(g.c, "return") ELSE mp_loop(g.c, limit)

(* The two limits: first the least the caller wants, then, when that many   *)
(* came, as many as it takes; only the first loop's result counts.          *)
Loops(c, min, max) ==
    LET Loop(d, limit) == IF geo.mode = "padded" THEN mp_loop_padded(d, limit) ELSE mp_loop(d, limit)
        first == Loop(c, min)
    IN IF first.ret = "limit" THEN [Loop(first, max) EXCEPT !.ret = "limit"] ELSE first

(* The packet of the call's first poll starts a batch or joins the one an   *)
(* earlier, drained call left.                                              *)
FirstPacket(c, p) ==
    LET u == [Wanted(Use(p.c, p.strides), p) EXCEPT !.padd = @ + p.strides]
    IN IF c.addr = NoAddr THEN [u EXCEPT !.addr = c.used + c.all, !.packets = 1]
       ELSE [u EXCEPT !.packets = @ + 1]

Completion(c) == [ptr |-> c.addr, packets |-> c.packets,
                  strides |-> IF geo.mode = "padded" THEN c.padd ELSE c.packets, want |-> c.want]
Delivered(c) == [c EXCEPT !.addr = NoAddr, !.padd = 0, !.want = <<>>, !.ret = "none"]

(* Gives elements back to the device and keeps the rest.                    *)
Settle(c) == /\ posted' = posted \o c.repost
             /\ cb' = [c EXCEPT !.repost = <<>>, !.ret = "none"]

cyclic_buffer_read ==
    /\ life = "up"
    /\ \E a \in Asks :
         LET p == poll_mp_cq(cb)
             b == [Use(p.c, p.strides) EXCEPT !.padd = @ + p.strides, !.upset = TRUE]
             f == ReloadIfUsed(FirstPacket(cb, p))
             g == IF f.wrapped THEN f.c ELSE Loops(f.c, a[1], a[2])
         IN \/ /\ a[1] > a[2] \/ p.kind \in {"empty", "error"}
               /\ UNCHANGED <<posted, cb, out>>
            \/ /\ a[1] <= a[2] /\ p.kind = "big"
               /\ Settle([p.c EXCEPT !.upset = TRUE])
               /\ UNCHANGED out
            \/ /\ a[1] <= a[2] /\ p.kind \in {"bad", "filler"}
               /\ out' = Completion(b)
               /\ Settle(Delivered(b))
            \/ /\ a[1] <= a[2] /\ p.kind = "good"
               /\ IF g.ret = "drained" THEN Settle(g) /\ UNCHANGED out
                  ELSE Settle(Delivered(g)) /\ out' = Completion(g)
    /\ UNCHANGED <<geo, res, life, hwOff, arrivals>>

-----------------------------------------------------------------------------
(* External: the device.  A packet that does not fit the rest of the        *)
(* element in use is preceded by a filler completion for that rest.         *)
CqSize == align32pow2(geo.strides * geo.wqs)

Complete(kind, n) ==
    LET e == [kind |-> kind, strides |-> n, pos |-> Head(posted) * geo.strides + hwOff]
    IN /\ cb' = [cb EXCEPT !.cqes = Append(@, e)]
       /\ IF hwOff + n = geo.strides THEN posted' = Tail(posted) /\ hwOff' = 0
          ELSE posted' = posted /\ hwOff' = hwOff + n

Receive(kind, n) ==
    /\ life = "up" /\ posted # <<>> /\ arrivals < CbPackets
    /\ n = 1 \/ (geo.mode = "padded" /\ kind = "good") \/ (geo.count = n)
    /\ n >= geo.count
    /\ kind = "big" => geo.mode # "padded"
    /\ IF n > geo.strides - hwOff THEN Complete("filler", geo.strides - hwOff) /\ arrivals' = arrivals
       ELSE Complete(kind, n) /\ arrivals' = arrivals + 1
    /\ UNCHANGED <<geo, res, life, out>>

-----------------------------------------------------------------------------
(* Creation and destruction.                                                *)

RingSteps(q) == IF q.mode = "padded" THEN <<"domain", "buffer">>
                ELSE <<"domain", "buffer", "umr_key", "umr_fill">>
QpSteps == <<"wq", "wq_family", "table", "qp">>
Held(s, n) == {s[k] : k \in 1..n}

(* A user header with raw packets is refused.                               *)
BadRequest(q) == q.mode = "raw" /\ q.hdr > 0

remove_umr_res(r) == r \ {"umr_key", "umr_fill"}

(* prepare_ibv_qp: all of its resources, or none of them.                   *)
prepare_ibv_qp(n) == IF n = Len(QpSteps) THEN Held(QpSteps, n)
                     ELSE Held(QpSteps, n) \ {"wq", "wq_family", "table", "qp"}

(* ~ring_eth_cb with ~qp_mgr_mp, and the allocator's destructor.            *)
DestroyRing(r) == remove_umr_res(r \ {"domain", "wq", "wq_family", "table", "qp"}) \ {"buffer"}

(* When a step fails the constructor throws: no destructor of the ring      *)
(* runs and only its members, here the buffer's allocator, clean up.        *)
FailsAfter(q, n, k) ==
    LET s == RingSteps(q)
    IN IF n < Len(s) THEN remove_umr_res(Held(s, n)) \ {"buffer"}
       ELSE (Held(s, n) \cup prepare_ibv_qp(k)) \ {"buffer"}

create_resources ==
    /\ life = "none"
    /\ \E q \in Requests :
         LET g == Geometry(q)
             l == Layout(q, g)
             s == RingSteps(q)
         IN \/ /\ ~BadRequest(q)
               /\ life' = "up"
               /\ geo' = [strideSize |-> g.strideSize, wqs |-> g.wqs, strides |-> g.strides,
                          num |-> q.num, mode |-> q.mode, count |-> l.count, size |-> l.size,
                          blocks |-> l.blocks]
               /\ res' = Held(s, Len(s)) \cup prepare_ibv_qp(Len(QpSteps))
               /\ posted' = [k \in 1..g.wqs |-> k - 1]
            \/ \E n \in 0..Len(s), k \in 0..(Len(QpSteps) - 1) :
                 /\ n < Len(s) => k = 0
                 /\ BadRequest(q) => n = 1
                 /\ life' = "failed"
                 /\ res' = FailsAfter(q, n, k)
                 /\ UNCHANGED <<geo, posted>>
    /\ UNCHANGED <<hwOff, cb, out, arrivals>>

(* ~ring_eth_cb.  ~cq_mgr_mp polls until the queue is empty, so it never    *)
(* returns while an error completion, which no poll consumes, is there.     *)
DeleteRing ==
    /\ life = "up"
    /\ \A k \in 1..Len(cb.cqes) : cb.cqes[k].kind # "error"
    /\ life' = "deleted"
    /\ res' = DestroyRing(res)
    /\ geo' = "none" /\ posted' = <<>> /\ hwOff' = 0 /\ cb' = CbStart /\ out' = NoCompletion
    /\ UNCHANGED arrivals

CyclicInit == /\ geo = "none" /\ res = {} /\ life = "none" /\ posted = <<>> /\ hwOff = 0
              /\ cb = CbStart /\ out = NoCompletion /\ arrivals = 0

CyclicNext == \/ create_resources
              \/ \E kind \in Faults \cup {"good"}, n \in 1..2 : Receive(kind, n)
              \/ cyclic_buffer_read
              \/ DeleteRing

CyclicSpec == CyclicInit /\ [][CyclicNext]_cyclicVars

-----------------------------------------------------------------------------
(* The shapes of the ring's state.                                          *)
CyclicTypeOK ==
    /\ life \in {"none", "up", "failed", "deleted"}
    /\ life = "up" => /\ geo.mode \in Modes
                      /\ hwOff \in 0..(geo.strides - 1)
                      /\ cb.wq \in 0..(geo.wqs - 1)
                      /\ cb.all \in 0..(geo.strides * (geo.wqs - 1))
                      /\ \A k \in 1..Len(posted) : posted[k] \in 0..(geo.wqs - 1)
    /\ arrivals \in 0..CbPackets

(* What cyclic_buffer_read returns is exactly what arrived: the pointer is  *)
(* the first packet taken since the last completion, the packets lie one    *)
(* behind the other, their number is the count and the length ends with the *)
(* last.  Excepted: a read that met a bad packet, a filler or an oversized  *)
(* packet where the code loses count, and packets of more than one stride   *)
(* outside the padded mode.                                                 *)
Exact ==
    LET w == out.want
        n == Len(w)
    IN /\ out.packets = n
       /\ n > 0 => /\ out.ptr = w[1].pos
                   /\ \A k \in 1..(n - 1) : w[k + 1].pos = w[k].pos + w[k].strides
                   /\ w[n].pos + w[n].strides = out.ptr + out.strides
CompletionIsExact == (life = "up" /\ geo.count = 1 /\ ~cb.upset) => Exact

(* An element is given back to the device only once: never while it is      *)
(* there, and never while a completion of its packets has not been polled;  *)
(* and the completions fit the queue as the device, told only by            *)
(* update_dbell, sees it.                                                   *)
ElementsReused ==
    life = "up" =>
    /\ \A i, j \in 1..Len(posted) : i # j => posted[i] # posted[j]
    /\ \A k \in 1..Len(cb.cqes), i \in 1..Len(posted) :
         LET e == cb.cqes[k]
         IN e.pos \div geo.strides = posted[i] =>
              i = 1 /\ (e.pos % geo.strides) + e.strides <= hwOff
    /\ Len(cb.cqes) + cb.unacked <= CqSize

(* The blocks the device scatters to lie inside the allocated area and      *)
(* overlap nowhere, and the ring holds as many packets as were asked for    *)
(* unless that takes more than MAX_MP_WQES elements.                        *)
EndOf(b) == b.base + b.step * (geo.strides * geo.wqs - 1) + b.per
LayoutSound ==
    life = "up" =>
    /\ \A i \in DOMAIN geo.blocks : EndOf(geo.blocks[i]) <= geo.size
    /\ \A i, j \in DOMAIN geo.blocks : i < j => EndOf(geo.blocks[i]) <= geo.blocks[j].base
    /\ geo.num <= geo.strides * geo.wqs \/ geo.wqs = MaxWqes \/ geo.num \div 2^Caps.maxWqe = geo.wqs

(* A deleted ring holds no verbs resource; one whose creation failed keeps  *)
(* at most the resource domain and the UMR key its constructor had made.    *)
RingResources ==
    /\ life = "deleted" => res = {}
    /\ life = "failed" => res \subseteq {"domain", "umr_key", "umr_fill"}
====
