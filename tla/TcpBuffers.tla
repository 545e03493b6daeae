----------------------------- MODULE TcpBuffers -----------------------------
(***************************************************************************)
(* The resources of sockinfo_tcp: the receive window it shares with lwIP   *)
(* (bytes the peer may send, bytes lwIP was not yet told were consumed),   *)
(* the packets that wait, that the application holds (zero copy) or that   *)
(* go back to the ring in batches, the send buffer, and the segments taken *)
(* from the global pool.  All of it happens under m_tcp_con_lock.          *)
(***************************************************************************)
EXTENDS Integers, Sequences, FiniteSets

CONSTANTS
  Lens,         \* payloads of the packets
  TcpWnd,       \* TCP_WND_SCALED
  SockMss,      \* the mss of the pcb
  RcvBufs,      \* values of SO_RCVBUF
  SndBufs,      \* values of the send buffer: SO_SNDBUF, with and without nagle
  Reuse,        \* rx_bufs_batch: batch of buffers that go back to the ring
  MaxHeld,      \* bound: packets that wait or are lent
  MaxDrift,     \* bound: how far below zero m_rcvbuff_current is followed
  Comp,         \* TCP_SEG_COMPENSATION
  Segs,         \* size of the segment pool
  SegSocks         \* sockets that take segments from the pool

ASSUME BufAssumption ==
  /\ Lens \subseteq Nat /\ RcvBufs \subseteq Nat /\ SndBufs \subseteq Nat
  /\ TcpWnd \in Nat /\ SockMss \in Nat /\ Reuse \in Nat \ {0}
  /\ Comp \in Nat \ {0} /\ Segs \in Nat /\ IsFiniteSet(SegSocks)

VARIABLES
  conn,         \* "no", "yes" (is_connected), "half"
  wnd, wndMax, desired, \* rcv_wnd, rcv_wnd_max, rcv_wnd_max_desired
  buffMax, current, nonRecved, \* m_rcvbuff_max, _current, _non_tcp_recved
  rxReady, offset,        \* m_rx_pkt_ready_list, m_rx_pkt_ready_offset
  lent,         \* packets the application holds
  reuse, revPending, postponed, \* m_rx_reuse_buff, m_rx_reuse_buf_pending, _postponed
  sndMax, sndBuf, inflight,
  pool, segs, used      \* segments: in the pool, of each socket, in use

wndVars == <<conn, wnd, wndMax, desired, buffMax, current, nonRecved>>
pktVars == <<rxReady, offset, lent, reuse, revPending, postponed>>
sndVars == <<sndMax, sndBuf, inflight>>
segVars == <<pool, segs, used>>
bufVars == <<wndVars, pktVars, sndVars, segVars>>

MinOf(a, b) == IF a < b THEN a ELSE b
MaxOf(a, b) == IF a > b THEN a ELSE b

BufInit ==
  /\ conn = "no" /\ buffMax \in RcvBufs /\ current = 0 /\ nonRecved = 0
  /\ desired = MinOf(TcpWnd, buffMax) /\ wndMax = desired /\ wnd = desired
  /\ rxReady = <<>> /\ offset = 0 /\ lent = <<>> /\ reuse = 0 /\ revPending = FALSE /\ postponed = FALSE
  /\ sndMax \in SndBufs /\ sndBuf = sndMax /\ inflight = 0
  /\ pool = Segs /\ segs = [s \in SegSocks |-> 0] /\ used = [s \in SegSocks |-> 0]

-----------------------------------------------------------------------------
(* fit_rcv_wnd(force), with m_rcvbuff_max = m.                             *)
fit_rcv_wnd(m, force) ==
  LET d == MinOf(TcpWnd, m)
      diff == d - wndMax
  IN
  /\ buffMax' = m /\ desired' = d
  /\ IF force
     THEN /\ wndMax' = d /\ wnd' = MaxOf(0, wnd + diff)
          /\ nonRecved' = IF wnd' = 0 THEN d ELSE nonRecved
     ELSE /\ wndMax' = MaxOf(wndMax, d) /\ wnd' = wnd + MaxOf(0, diff) /\ UNCHANGED nonRecved

connect_lwip_cb ==
  /\ conn = "no" /\ conn' = "yes" /\ fit_rcv_wnd(MaxOf(buffMax, 2 * SockMss), FALSE)
  /\ UNCHANGED <<current, pktVars, sndVars, segVars>>
SetRcvBuf ==
  /\ \E v \in RcvBufs : fit_rcv_wnd(MaxOf(2 * SockMss, v), conn # "yes")
  /\ UNCHANGED <<conn, current, pktVars, sndVars, segVars>>
HalfClosed == conn = "yes" /\ conn' = "half" /\ UNCHANGED <<wnd, wndMax, desired, buffMax, current, nonRecved, pktVars, sndVars, segVars>>

-----------------------------------------------------------------------------
(* Mutant: the batch that went back is still counted.                      *)
BatchStays == revPending' = FALSE /\ reuse' = reuse + 1 /\ postponed' = (reuse + 1 >= Reuse)

(* reuse_buffer: a buffer goes back, in batches of Reuse to 2 * Reuse.     *)
reuse_buffer ==
  /\ revPending' = FALSE
  /\ reuse' = IF reuse + 1 >= 2 * Reuse THEN 0 ELSE reuse + 1
  /\ postponed' = IF reuse + 1 < Reuse THEN postponed ELSE reuse + 1 < 2 * Reuse
KeepReuse == UNCHANGED <<reuse, revPending, postponed>>

(* tcp_recved                                                              *)
Opened(w, m, n) == MinOf(w + n, m)

(* Mutant: what does not fit is not remembered once the window shrinks.    *)
ForgetsRest(len, drop) ==
  LET space == MaxOf(0, buffMax - current - desired)
      told == IF drop THEN len ELSE MinOf(space, len)
      shrink == MinOf(MaxOf(0, wndMax - desired), len - told)
  IN
  /\ current' = IF drop THEN current ELSE current + len
  /\ wnd' = Opened(wnd - len, wndMax, told) /\ wndMax' = wndMax - shrink
  /\ nonRecved' = IF wndMax > desired THEN nonRecved ELSE nonRecved + len - told

(* rx_lwip_cb's RCVBUFF accounting of len bytes, after tcp_receive took    *)
(* them from the window.                                                   *)
Account(len, drop) ==
  LET space == MaxOf(0, buffMax - current - desired)
      told == IF drop THEN len ELSE MinOf(space, len)
      shrink == MinOf(MaxOf(0, wndMax - desired), len - told)
  IN
  /\ current' = IF drop THEN current ELSE current + len
  /\ wnd' = Opened(wnd - len, wndMax, told) /\ wndMax' = wndMax - shrink
  /\ nonRecved' = nonRecved + len - told - shrink

(* The user's callback may take (HOLD), drop, or leave the packet.         *)
rx_lwip_cb ==
  /\ conn # "no" /\ Len(rxReady) + Len(lent) < MaxHeld
  /\ \E len \in Lens, verdict \in {"RECV", "DROP", "HOLD"} :
       /\ len <= wnd /\ (verdict # "RECV" => rxReady = <<>>)
       /\ Account(len, verdict = "DROP")
       /\ rxReady' = IF verdict = "RECV" THEN Append(rxReady, len) ELSE rxReady
       /\ lent' = IF verdict = "HOLD" THEN Append(lent, len) ELSE lent
       /\ IF verdict = "DROP" THEN reuse_buffer ELSE KeepReuse
  /\ UNCHANGED <<conn, desired, buffMax, offset, sndVars, segVars>>

(* The bytes a reader or free_packets gave up.                             *)
Released(n) ==
  LET told == MinOf(nonRecved, n) IN
  /\ current' = current - n /\ nonRecved' = nonRecved - told
  /\ wnd' = IF told > 0 THEN Opened(wnd, wndMax, told) ELSE wnd

(* rx: some bytes of the first packet (a longer read does this again).     *)
rx ==
  /\ rxReady # <<>>
  /\ \E n \in 1..(Head(rxReady) - offset) :
       /\ Released(n)
       /\ IF n = Head(rxReady) - offset THEN rxReady' = Tail(rxReady) /\ offset' = 0 /\ reuse_buffer
          ELSE offset' = offset + n /\ UNCHANGED rxReady /\ KeepReuse
  /\ UNCHANGED <<conn, wndMax, desired, buffMax, lent, sndVars, segVars>>

(* zero_copy_rx: the application gets the packet and gives it back: all of *)
(* it is counted then, also what rx had already read of it.                *)
zero_copy_rx ==
  /\ rxReady # <<>> /\ rxReady' = Tail(rxReady) /\ lent' = Append(lent, Head(rxReady)) /\ offset' = 0
  /\ KeepReuse /\ UNCHANGED <<wndVars, sndVars, segVars>>
free_packets ==
  /\ lent # <<>> /\ current - Head(lent) >= -MaxDrift /\ Released(Head(lent)) /\ lent' = Tail(lent) /\ reuse_buffer
  /\ UNCHANGED <<conn, wndMax, desired, buffMax, rxReady, offset, sndVars, segVars>>

(* return_reuse_buffers_postponed, at the start of rx; and the timer's     *)
(* return_pending_rx_buffs, at the second run without a new buffer.        *)
return_reuse_buffers_postponed ==
  /\ postponed /\ revPending' = FALSE
  /\ \/ reuse < Reuse /\ postponed' = FALSE /\ UNCHANGED reuse
     \/ reuse >= Reuse /\ postponed' = FALSE /\ reuse' = 0
     \/ reuse >= Reuse /\ UNCHANGED <<reuse, postponed>> \* the ring is busy
  /\ UNCHANGED <<wndVars, rxReady, offset, lent, sndVars, segVars>>
return_pending_rx_buffs ==
  /\ reuse > 0 /\ revPending' = ~revPending /\ reuse' = IF revPending THEN 0 ELSE reuse
  /\ UNCHANGED <<wndVars, rxReady, offset, lent, postponed, sndVars, segVars>>

-----------------------------------------------------------------------------
(* fit_snd_bufs, by SO_SNDBUF and by TCP_NODELAY.                          *)
fit_snd_bufs ==
  /\ \E m \in SndBufs : sndMax - sndBuf <= m /\ sndMax' = m /\ sndBuf' = m - (sndMax - sndBuf)
  /\ UNCHANGED <<wndVars, pktVars, inflight, segVars>>
SendBytes ==
  /\ conn # "no" /\ \E n \in 1..sndBuf : sndBuf' = sndBuf - n /\ inflight' = inflight + n
  /\ UNCHANGED <<wndVars, pktVars, sndMax, segVars>>
Acked ==
  /\ \E n \in 1..inflight : sndBuf' = sndBuf + n /\ inflight' = inflight - n
  /\ UNCHANGED <<wndVars, pktVars, sndMax, segVars>>

-----------------------------------------------------------------------------
get_tcp_seg(s) ==
  LET more == segs[s] = used[s] IN
  /\ (more => pool >= Comp)
  /\ pool' = IF more THEN pool - Comp ELSE pool
  /\ segs' = IF more THEN [segs EXCEPT ![s] = @ + Comp] ELSE segs
  /\ used' = [used EXCEPT ![s] = @ + 1]
  /\ UNCHANGED <<wndVars, pktVars, sndVars>>

(* Mutant: it is not asked how many segments are in use.                   *)
PutSegHalf(s) ==
  LET back == IF segs[s] > 2 * Comp THEN segs[s] \div 2 ELSE 0 IN
  /\ used[s] > 0 /\ used' = [used EXCEPT ![s] = @ - 1]
  /\ segs' = [segs EXCEPT ![s] = @ - back] /\ pool' = pool + back
  /\ UNCHANGED <<wndVars, pktVars, sndVars>>
(* put_tcp_seg: half of the free ones go back when less than half are used. *)
put_tcp_seg(s) ==
  LET u == used[s] - 1
      back == IF segs[s] > 2 * Comp /\ u < segs[s] \div 2 THEN (segs[s] - u) \div 2 ELSE 0
  IN
  /\ used[s] > 0 /\ used' = [used EXCEPT ![s] = u]
  /\ segs' = [segs EXCEPT ![s] = @ - back] /\ pool' = pool + back
  /\ UNCHANGED <<wndVars, pktVars, sndVars>>
(* ~sockinfo_tcp, after tcp_pcb_purge returned the segments in use.        *)
FreeSegs(s) ==
  /\ used[s] = 0 /\ segs[s] > 0 /\ pool' = pool + segs[s] /\ segs' = [segs EXCEPT ![s] = 0]
  /\ UNCHANGED <<used, wndVars, pktVars, sndVars>>

BufNext ==
  \/ connect_lwip_cb \/ SetRcvBuf \/ HalfClosed \/ rx_lwip_cb \/ rx \/ zero_copy_rx \/ free_packets
  \/ return_reuse_buffers_postponed \/ return_pending_rx_buffs \/ fit_snd_bufs \/ SendBytes \/ Acked
  \/ \E s \in SegSocks : get_tcp_seg(s) \/ put_tcp_seg(s) \/ FreeSegs(s)
(* The timer comes again and again, and the ring is not always busy.       *)
BufFairness ==
  /\ WF_bufVars(return_pending_rx_buffs)
  /\ SF_bufVars(return_reuse_buffers_postponed /\ reuse' = 0)
BufSpec == BufInit /\ [][BufNext]_bufVars /\ BufFairness

-----------------------------------------------------------------------------
SegsOf[A \in SUBSET SegSocks] ==
  IF A = {} THEN 0 ELSE LET a == CHOOSE x \in A : TRUE IN segs[a] + SegsOf[A \ {a}]
SumSegs == SegsOf[SegSocks]

BufTypeOK ==
  /\ conn \in {"no", "yes", "half"} /\ wnd \in Nat /\ wndMax \in Nat /\ desired \in Nat /\ buffMax \in Nat
  /\ current \in Int /\ nonRecved \in Nat /\ sndBuf \in 0..sndMax /\ inflight \in Nat /\ reuse \in 0..(2 * Reuse)
  /\ revPending \in BOOLEAN /\ postponed \in BOOLEAN /\ pool \in Nat
  /\ segs \in [SegSocks -> Nat] /\ used \in [SegSocks -> Nat]

(* No byte of the window is lost: what the peer may still send and what    *)
(* lwIP was not yet told of make up the whole window, whatever SO_RCVBUF,  *)
(* reads and packets do.                                                   *)
WindowConserved == wnd + nonRecved = wndMax

(* The window opens again: when the application has read, or given back,   *)
(* everything, lwIP was told of all of it.                                 *)
WindowReopens == conn # "no" /\ rxReady = <<>> /\ lent = <<>> => nonRecved = 0

(* Every segment of the pool is in it or belongs to one socket, which has  *)
(* at least as many as it uses; the send buffer is the same way whole.     *)
SegsAccounted ==
  /\ pool + SumSegs = Segs /\ (\A s \in SegSocks : used[s] <= segs[s]) /\ sndBuf + inflight = sndMax

=============================================================================
