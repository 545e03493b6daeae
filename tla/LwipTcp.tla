------------------------------ MODULE LwipTcp -------------------------------
(***************************************************************************)
(* The data transfer of VMA's TCP stack (src/src/vma/lwip): one pcb sends a *)
(* stream of bytes and closes, its peer's pcb receives them, over a network *)
(* that loses, duplicates and reorders segments.                            *)
(*                                                                          *)
(* A byte of the stream is its index, so what the application receives can  *)
(* be compared with what was written.  Sequence numbers are kept modulo     *)
(* SeqSpace (2^32 in the code) and start at ISS, so that they wrap.  A pcb is *)
(* a record whose fields have the names of struct tcp_pcb; the segments and *)
(* acknowledgements a call emits are collected in its field out and put on  *)
(* the network by the action.  Every pbuf holds one segment, as it does     *)
(* with TCP_OVERSIZE; TCP timestamps, dummy sends and keepalives are left   *)
(* out, the window is not scaled.                                           *)
(***************************************************************************)
EXTENDS Integers, Sequences, SequencesExt, FiniteSets

CONSTANTS SeqSpace, ISS,          \* the sequence space, the first sequence number
          Mss, SndBufMax,       \* pcb->mss, pcb->max_snd_buff
          RcvWndMax,            \* the receiver's rcv_wnd_max
          MaxRtx,               \* TCP_MAXRTX
          Bytes,                \* bound: bytes the application writes
          Writes, Reads,        \* bound: sizes of one write, of one read
          MaxData, MaxAcks,     \* bound: segments, acknowledgements on the way
          MaxCwnd               \* bound: cwnd saturates here

VARIABLES snd,                  \* the sender's pcb
          rcv,                  \* the receiver's pcb
          toRcv, toSnd,         \* segments and acknowledgements on the way
          written               \* bytes the application has written

lwipVars == <<snd, rcv, toRcv, toSnd, written>>

-----------------------------------------------------------------------------
(* Sequence arithmetic: the u32 difference and the TCP_SEQ_ macros *)

Plus(a, n) == (a + n) % SeqSpace
Diff(a, b) == (a - b) % SeqSpace
TCP_SEQ_LT(a, b) == Diff(a, b) >= SeqSpace \div 2
TCP_SEQ_LEQ(a, b) == a = b \/ TCP_SEQ_LT(a, b)
TCP_SEQ_GT(a, b) == TCP_SEQ_LT(b, a)
TCP_SEQ_BETWEEN(a, b, c) == TCP_SEQ_LEQ(b, a) /\ TCP_SEQ_LEQ(a, c)

Least(a, b) == IF a < b THEN a ELSE b
Most(a, b) == IF a > b THEN a ELSE b

Segment(seqno, data, fin) == [seqno |-> seqno, data |-> data, fin |-> fin]
SegLen(g) == Len(g.data)
TCP_TCPLEN(g) == SegLen(g) + (IF g.fin THEN 1 ELSE 0)
DataEnd(g) == Plus(g.seqno, SegLen(g))
SegEnd(g) == Plus(g.seqno, TCP_TCPLEN(g))
Cut(g, n) == [g EXCEPT !.data = SubSeq(@, 1, n)]

(* the list q with segment g inserted before the first one not below it *)
InsertSorted(q, g) ==
  LET k == Cardinality({i \in 1..Len(q) : TCP_SEQ_LT(q[i].seqno, g.seqno)})
  IN  SubSeq(q, 1, k) \o <<g>> \o SubSeq(q, k + 1, Len(q))

-----------------------------------------------------------------------------
(* Congestion control, the "lwip" algorithm of cc_lwip.c *)

Cwnd(n) == Least(n, MaxCwnd)

lwip_ack_received(p, dup) ==
  IF dup \/ p.cwnd < p.ssthresh
  THEN [p EXCEPT !.cwnd = Cwnd(@ + Mss)]
  ELSE [p EXCEPT !.cwnd = Cwnd(@ + (Mss * Mss) \div @)]

lwip_cong_signal(p, type) ==
  LET thresh == Most(Least(p.cwnd, p.snd_wnd) \div 2, 2 * Mss)
  IN  [p EXCEPT !.ssthresh = thresh,
                !.cwnd = IF type = "NDUPACK" THEN Cwnd(thresh + 3 * Mss) ELSE Mss]

lwip_post_recovery(p) == [p EXCEPT !.cwnd = Cwnd(p.ssthresh)]

-----------------------------------------------------------------------------
(* Output *)

(* Segments are no bigger than half the largest window the peer announced. *)
mss_local(p) ==
  LET half == Least(Mss, p.snd_wnd_max \div 2) IN IF half = 0 THEN Mss ELSE half

RECURSIVE Chop(_, _, _)
Chop(seqno, data, size) ==
  IF Len(data) <= size THEN <<Segment(seqno, data, FALSE)>>
  ELSE <<Segment(seqno, SubSeq(data, 1, size), FALSE)>>
         \o Chop(Plus(seqno, size), SubSeq(data, size + 1, Len(data)), size)

tcp_write_checks(p, len) == ~p.fin /\ ~p.dead /\ len <= p.snd_buf

(* The data first fills the last unsent segment (phases 1 and 2), the rest  *)
(* is cut into new segments (phase 3).                                      *)
tcp_write(p, data) ==
  LET last  == p.unsent[Len(p.unsent)]
      room  == IF p.unsent = <<>> \/ SegLen(last) = 0 THEN 0
               ELSE Most(0, mss_local(p) - SegLen(last))
      fill  == Least(room, Len(data))
      rest  == SubSeq(data, fill + 1, Len(data))
      grown == IF fill = 0 THEN p.unsent
               ELSE [p.unsent EXCEPT ![Len(p.unsent)].data = @ \o SubSeq(data, 1, fill)]
      queue == IF rest = <<>> THEN <<>>
               ELSE Chop(Plus(p.snd_lbb, fill), rest, mss_local(p))
  IN  [p EXCEPT !.unsent = grown \o queue,
                !.snd_lbb = Plus(@, Len(data)), !.snd_buf = @ - Len(data)]

tcp_enqueue_flags(p) ==
  [p EXCEPT !.unsent = Append(@, Segment(p.snd_lbb, <<>>, TRUE)),
            !.snd_lbb = Plus(@, 1), !.fin = TRUE]

(* The FIN rides on the last unsent segment when there is one. *)
tcp_send_fin(p) ==
  IF p.unsent # <<>> /\ ~Last(p.unsent).fin
  THEN [p EXCEPT !.unsent[Len(p.unsent)].fin = TRUE, !.fin = TRUE]
  ELSE tcp_enqueue_flags(p)

(* The head of unsent is cut to the window.  The header flags of the first  *)
(* part are left as they were and the new segment is made without any.      *)
tcp_split_segment(p, wnd) ==
  LET seg  == Head(p.unsent)
      off  == Diff(seg.seqno, p.lastack)
      send == wnd - off
  IN  IF off >= wnd \/ SegLen(seg) <= send THEN p
      ELSE [p EXCEPT !.unsent =
              <<Cut(seg, send),
                Segment(Plus(seg.seqno, send), SubSeq(seg.data, send + 1, SegLen(seg)), FALSE)>>
              \o Tail(p.unsent)]

tcp_do_output_nagle(p) ==
  \/ p.unacked = <<>> \/ p.infr
  \/ Len(p.unsent) > 1 \/ SegLen(Head(p.unsent)) >= Mss
  \/ p.snd_buf = 0

(* Emits the head of unsent and files it with the unacknowledged ones. *)
tcp_output_segment(p) ==
  LET seg == Head(p.unsent)
      q   == [p EXCEPT !.unsent = Tail(@), !.out = @ \union {seg},
                       !.rtime = TRUE,
                       !.snd_nxt = IF TCP_SEQ_LT(@, SegEnd(seg)) THEN SegEnd(seg) ELSE @]
  IN  IF TCP_TCPLEN(seg) > 0 THEN [q EXCEPT !.unacked = InsertSorted(@, seg)] ELSE q

Fits(p, wnd) ==
  Diff(DataEnd(Head(p.unsent)), p.lastack) <= wnd

(* hold: Nagle's algorithm is on and its counters of small segments ask to  *)
(* wait whenever tcp_do_output_nagle allows it                              *)
RECURSIVE tcp_output(_, _)
tcp_output(p, hold) ==
  IF p.unsent = <<>> THEN p
  ELSE LET wnd == Least(p.snd_wnd, p.cwnd)
           q   == IF p.unacked = <<>> /\ wnd > 0 /\ ~Fits(p, wnd)
                  THEN tcp_split_segment(p, wnd) ELSE p
       IN  IF ~Fits(q, wnd) \/ (hold /\ ~tcp_do_output_nagle(q) /\ ~q.fin) THEN q
           ELSE tcp_output(tcp_output_segment(q), hold)

-----------------------------------------------------------------------------
(* Retransmission.  Bound: nrtx saturates one past MaxRtx. *)

Nrtx(n) == Least(n, MaxRtx + 1)

tcp_rexmit_rto(p, hold) ==
  tcp_output([p EXCEPT !.unsent = p.unacked \o @, !.unacked = <<>>, !.nrtx = Nrtx(@ + 1)], hold)

tcp_rexmit(p) ==
  [p EXCEPT !.unsent = InsertSorted(@, Head(p.unacked)),
            !.unacked = Tail(@), !.nrtx = Nrtx(@ + 1)]

tcp_rexmit_fast(p) ==
  IF p.unacked # <<>> /\ ~p.infr
  THEN [lwip_cong_signal(tcp_rexmit(p), "NDUPACK") EXCEPT !.infr = TRUE]
  ELSE p

(* One byte of the head of unsent, or its FIN, to provoke an answer. *)
tcp_zero_window_probe(p) ==
  IF p.unsent = <<>> THEN p
  ELSE LET seg == Head(p.unsent)
           fin == seg.fin /\ SegLen(seg) = 0
           nxt == Plus(seg.seqno, 1)
       IN  [p EXCEPT !.out = @ \union {IF fin THEN seg ELSE [Cut(seg, 1) EXCEPT !.fin = FALSE]},
                     !.snd_nxt = IF TCP_SEQ_LT(@, nxt) THEN nxt ELSE @]

-----------------------------------------------------------------------------
(* tcp_receive, the acknowledgement half *)

RECURSIVE DropAcked(_, _)
DropAcked(q, ackno) ==
  IF q # <<>> /\ TCP_SEQ_LEQ(SegEnd(Head(q)), ackno) THEN DropAcked(Tail(q), ackno) ELSE q

RECURSIVE DropUnsent(_, _, _)
DropUnsent(q, ackno, nxt) ==
  IF q # <<>> /\ TCP_SEQ_BETWEEN(ackno, SegEnd(Head(q)), nxt)
  THEN DropUnsent(Tail(q), ackno, nxt) ELSE q

UpdatesWindow(p, a) ==
  TCP_SEQ_LT(p.snd_wl2, a.ackno) \/ (p.snd_wl2 = a.ackno /\ a.wnd > p.snd_wnd)

(* a window of zero leaves the persist timer as it is until the             *)
(* acknowledgement turns out to have emptied the unacked queue              *)
WindowUpdate(p, a) ==
  IF ~UpdatesWindow(p, a) THEN p
  ELSE [p EXCEPT !.snd_wnd = a.wnd, !.snd_wnd_max = Most(@, a.wnd), !.snd_wl2 = a.ackno,
                 !.persist = @ /\ a.wnd = 0]

Dupack(p, old) ==
  IF Plus(p.snd_wl2, p.snd_wnd) = Plus(old.snd_wl2, old.snd_wnd) /\ p.rtime
  THEN LET q == [p EXCEPT !.dupacks = Least(@ + 1, 4)]
       IN  IF q.dupacks > 3 THEN lwip_ack_received(q, TRUE)
           ELSE IF q.dupacks = 3 THEN tcp_rexmit_fast(q) ELSE q
  ELSE [p EXCEPT !.dupacks = 0]

NewAck(p, a, old) ==
  LET acked   == Diff(a.ackno, p.lastack)
      q       == IF p.infr THEN [lwip_post_recovery(p) EXCEPT !.infr = FALSE] ELSE p
      unacked == DropAcked(p.unacked, a.ackno)
      start   == unacked = <<>> /\ UpdatesWindow(old, a) /\ a.wnd = 0
  IN  lwip_ack_received([q EXCEPT !.nrtx = 0, !.snd_buf = @ + acked, !.dupacks = 0,
                           !.lastack = a.ackno, !.unacked = unacked,
                           !.rtime = unacked # <<>>, !.persist = @ \/ start], FALSE)

tcp_receive_ack(p, a) ==
  LET u == WindowUpdate(p, a)
      q == IF TCP_SEQ_LEQ(a.ackno, p.lastack)
           THEN IF a.ackno = p.lastack THEN Dupack(u, p) ELSE [u EXCEPT !.dupacks = 0]
           ELSE IF TCP_SEQ_BETWEEN(a.ackno, Plus(p.lastack, 1), p.snd_nxt)
                THEN NewAck(u, a, p)
                ELSE [u EXCEPT !.out = @ \union {Segment(p.snd_nxt, <<>>, FALSE)}]
  IN  [q EXCEPT !.unsent = DropUnsent(@, a.ackno, q.snd_nxt)]

-----------------------------------------------------------------------------
(* The receiver's window *)

tcp_update_rcv_ann_wnd(r) ==
  LET right == Plus(r.rcv_nxt, r.rcv_wnd)
      step  == Least(RcvWndMax \div 2, Mss)
  IN  IF ~TCP_SEQ_LT(right, Plus(r.right_edge, step)) THEN [r EXCEPT !.ann_wnd = r.rcv_wnd]
      ELSE IF TCP_SEQ_GT(r.rcv_nxt, r.right_edge) THEN [r EXCEPT !.ann_wnd = 0]
      ELSE [r EXCEPT !.ann_wnd = Diff(r.right_edge, r.rcv_nxt)]

tcp_send_empty_ack(r) ==
  [r EXCEPT !.out = @ \union {[ackno |-> r.rcv_nxt, wnd |-> r.ann_wnd]},
            !.right_edge = Plus(r.rcv_nxt, r.ann_wnd),
            !.ack_delay = FALSE, !.ack_now = FALSE]

(* tcp_output of a pcb that has nothing to send *)
AnswerNow(r) == IF r.ack_now THEN tcp_send_empty_ack(r) ELSE r

tcp_ack(r) == IF r.ack_delay THEN [r EXCEPT !.ack_delay = FALSE, !.ack_now = TRUE]
              ELSE [r EXCEPT !.ack_delay = TRUE]

(* the application has read n bytes *)
tcp_recved(r, n) ==
  LET grown == [r EXCEPT !.rcv_wnd = Least(@ + n, RcvWndMax), !.unread = @ - n]
      right == Plus(grown.rcv_nxt, grown.rcv_wnd)
      u     == tcp_update_rcv_ann_wnd(grown)
      step  == Least(RcvWndMax \div 2, Mss)
      more  == IF TCP_SEQ_LT(right, Plus(r.right_edge, step)) THEN 0 ELSE Diff(right, r.right_edge)
  IN  IF more >= RcvWndMax \div 4 THEN tcp_send_empty_ack(u) ELSE u

-----------------------------------------------------------------------------
(* tcp_receive, the data half *)

(* the sequence number behind g, with its FIN or without *)
End(g, fin) == IF fin THEN SegEnd(g) ELSE DataEnd(g)

RECURSIVE DropCovered(_, _, _)
DropCovered(g, q, fin) ==   \* ooseq segments that g covers; their FIN is kept
  IF q # <<>> /\ ~TCP_SEQ_LT(End(g, fin), DataEnd(Head(q)))
  THEN DropCovered([g EXCEPT !.fin = @ \/ Head(q).fin], Tail(q), fin)
  ELSE <<g, q>>

TrimTo(g, q, fin) ==     \* g ends where the first of q begins
  IF q # <<>> /\ TCP_SEQ_GT(End(g, fin), Head(q).seqno)
  THEN Cut(g, Diff(Head(q).seqno, g.seqno)) ELSE g

tcp_oos_insert_segment(g, q) ==
  IF g.fin THEN <<g>>
  ELSE LET c == DropCovered(g, q, FALSE) IN <<TrimTo(c[1], c[2], FALSE)>> \o c[2]

(* the end of the ooseq list: the overrun test compares plain u32 sums *)
AppendOoseq(r, q, g) ==
  LET last == q[Len(q)]
      kept == IF TCP_SEQ_GT(DataEnd(last), g.seqno)
              THEN [q EXCEPT ![Len(q)] = Cut(last, Diff(g.seqno, last.seqno))] ELSE q
      over == SegEnd(g) > Plus(r.rcv_nxt, r.rcv_wnd)
      room == Diff(Plus(r.rcv_nxt, r.rcv_wnd), g.seqno)
      tail == IF over THEN [Cut(g, Least(room, SegLen(g))) EXCEPT !.fin = FALSE] ELSE g
  IN  IF last.fin THEN q ELSE Append(kept, tail)

OosInsert(r, q, g) ==
  LET above  == {i \in 1..Len(q) : ~TCP_SEQ_LT(q[i].seqno, g.seqno)}
      k      == CHOOSE i \in above : \A j \in above : i <= j
      before == SubSeq(q, 1, k - 1)
      from   == SubSeq(q, k, Len(q))
      prev   == before[k - 1]
      cut    == IF k > 1 /\ q[k].seqno # g.seqno
                   /\ TCP_SEQ_GT(DataEnd(prev), g.seqno)
                THEN [before EXCEPT ![k - 1] = Cut(prev, Diff(g.seqno, prev.seqno))]
                ELSE before
  IN  IF q = <<>> THEN <<g>>
      ELSE IF above = {} THEN AppendOoseq(r, q, g)
      ELSE IF q[k].seqno = g.seqno /\ SegLen(g) <= SegLen(q[k]) THEN q
      ELSE cut \o tcp_oos_insert_segment(g, from)

(* g is next in sequence: it goes to the application *)
Deliver(r, g) ==
  tcp_update_rcv_ann_wnd(
    [r EXCEPT !.rcv_nxt = Plus(@, TCP_TCPLEN(g)), !.rcv_wnd = @ - TCP_TCPLEN(g),
              !.stream = @ \o g.data, !.unread = @ + SegLen(g), !.got_fin = @ \/ g.fin])

RECURSIVE PullOoseq(_)
PullOoseq(r) ==
  IF r.ooseq # <<>> /\ Head(r.ooseq).seqno = r.rcv_nxt
  THEN PullOoseq(Deliver([r EXCEPT !.ooseq = Tail(@)], Head(r.ooseq)))
  ELSE r

InSequence(r, seg) ==
  LET g == IF TCP_TCPLEN(seg) > r.rcv_wnd THEN [Cut(seg, r.rcv_wnd) EXCEPT !.fin = FALSE] ELSE seg
      c == IF g.fin THEN <<g, <<>>>> ELSE DropCovered(g, r.ooseq, TRUE)
      d == Deliver([r EXCEPT !.ooseq = c[2]], TrimTo(c[1], c[2], TRUE))
      e == PullOoseq(d)
      chained == SegLen(c[1]) > 0 /\ e.unread > d.unread
  IN  IF chained THEN [e EXCEPT !.ack_now = TRUE] ELSE tcp_ack(e)


(* the first edge of seg is cut to rcv_nxt *)
TrimFirstEdge(r, seg) ==
  Segment(r.rcv_nxt, SubSeq(seg.data, Diff(r.rcv_nxt, seg.seqno) + 1, SegLen(seg)), seg.fin)

tcp_receive_data(r, seg) ==
  LET n   == TCP_TCPLEN(seg)
      mid == TCP_SEQ_BETWEEN(r.rcv_nxt, Plus(seg.seqno, 1), Plus(seg.seqno, n - 1))
      g   == IF mid THEN TrimFirstEdge(r, seg) ELSE seg
      q   == IF ~mid /\ TCP_SEQ_LT(seg.seqno, r.rcv_nxt) THEN [r EXCEPT !.ack_now = TRUE] ELSE r
      open(s) == TCP_SEQ_BETWEEN(s, r.rcv_nxt, Plus(r.rcv_nxt, r.rcv_wnd - 1))
  IN  IF n = 0 \/ r.got_fin
      THEN IF open(seg.seqno) THEN r ELSE [r EXCEPT !.ack_now = TRUE]
      ELSE IF ~open(g.seqno) THEN tcp_send_empty_ack(q)
      ELSE IF g.seqno = r.rcv_nxt THEN InSequence(q, g)
      ELSE LET e == tcp_send_empty_ack(q) IN [e EXCEPT !.ooseq = OosInsert(e, @, g)]

(* tcp_process in ESTABLISHED and CLOSE_WAIT, then the end of               *)
(* L3_level_tcp_input: the FIN's sequence number is given back to the       *)
(* window and tcp_output answers                                            *)
L3_level_tcp_input(r, seg) ==
  LET q   == tcp_receive_data(r, seg)
      fin == q.got_fin /\ ~r.got_fin
  IN  AnswerNow(IF fin THEN [q EXCEPT !.ack_now = TRUE, !.rcv_wnd = Least(@ + 1, RcvWndMax)]
                ELSE q)

-----------------------------------------------------------------------------
(* Actions.  What a call emits may be lost, in part or as a whole; a        *)
(* delivered segment may stay on the network and arrive again.              *)

Sends(p, net, max) ==
  {m \in {net \union s : s \in SUBSET p.out} : Cardinality(m) <= max}

SndStep(p) ==
  /\ snd' = [p EXCEPT !.out = {}]
  /\ toRcv' \in Sends(p, toRcv, MaxData)

RcvStep(r) ==
  /\ rcv' = [r EXCEPT !.out = {}]
  /\ toSnd' \in Sends(r, toSnd, MaxAcks)

LwipInit ==
  /\ snd = [unsent |-> <<>>, unacked |-> <<>>, lastack |-> ISS, snd_nxt |-> ISS,
            snd_lbb |-> ISS, snd_buf |-> SndBufMax, snd_wnd |-> RcvWndMax,
            snd_wnd_max |-> RcvWndMax, snd_wl2 |-> ISS, cwnd |-> 2 * Mss,
            ssthresh |-> 10 * Mss, dupacks |-> 0, infr |-> FALSE, nrtx |-> 0,
            rtime |-> FALSE, persist |-> FALSE, fin |-> FALSE, dead |-> FALSE, out |-> {}]
  /\ rcv = [rcv_nxt |-> ISS, rcv_wnd |-> RcvWndMax, ann_wnd |-> RcvWndMax,
            right_edge |-> Plus(ISS, RcvWndMax), ooseq |-> <<>>, ack_delay |-> FALSE,
            ack_now |-> FALSE, got_fin |-> FALSE, stream |-> <<>>, unread |-> 0, out |-> {}]
  /\ toRcv = {} /\ toSnd = {} /\ written = 0

AppWrite(n, hold) ==
  /\ written + n <= Bytes
  /\ tcp_write_checks(snd, n)
  /\ written' = written + n
  /\ SndStep(tcp_output(tcp_write(snd, [i \in 1..n |-> written + i]), hold))
  /\ UNCHANGED <<rcv, toSnd>>

AppClose(hold) ==
  /\ ~snd.fin /\ ~snd.dead
  /\ SndStep(tcp_output(tcp_send_fin(snd), hold))
  /\ UNCHANGED <<rcv, toSnd, written>>

AppRead(n) ==
  /\ n <= rcv.unread
  /\ RcvStep(tcp_recved(rcv, n))
  /\ UNCHANGED <<snd, toRcv, written>>

DataArrives(seg, again) ==
  /\ seg \in toRcv
  /\ RcvStep(L3_level_tcp_input(rcv, seg))
  /\ toRcv' = IF again THEN toRcv ELSE toRcv \ {seg}
  /\ UNCHANGED <<snd, written>>

AckArrives(a, hold) ==
  /\ a \in toSnd
  /\ SndStep(IF snd.dead THEN snd ELSE tcp_output(tcp_receive_ack(snd, a), hold))
  /\ toSnd' = toSnd \ {a}
  /\ UNCHANGED <<rcv, written>>

(* The sender's slow timer: after MaxRtx retransmissions the pcb is purged; *)
(* else the persist timer probes or, when the retransmission time is over,  *)
(* the unacknowledged segments are sent again; at last the poll timer.      *)
tcp_slowtmr(p, hold) ==
  IF p.nrtx = MaxRtx THEN [p EXCEPT !.dead = TRUE, !.unsent = <<>>, !.unacked = <<>>, !.rtime = FALSE]
  ELSE tcp_output(IF p.persist THEN tcp_zero_window_probe(p)
                  ELSE IF p.unacked # <<>> /\ p.rtime
                       THEN tcp_rexmit_rto(lwip_cong_signal(p, "RTO"), hold) ELSE p, hold)

SndTimer(hold) ==
  /\ ~snd.dead
  /\ SndStep(tcp_slowtmr(snd, hold))
  /\ UNCHANGED <<rcv, toSnd, written>>

(* the receiver's slow timer: out of sequence data is dropped after a while *)
OoseqTimeout ==
  /\ rcv.ooseq # <<>>
  /\ rcv' = [rcv EXCEPT !.ooseq = <<>>]
  /\ UNCHANGED <<snd, toRcv, toSnd, written>>

tcp_fasttmr ==
  /\ rcv.ack_delay
  /\ RcvStep(tcp_send_empty_ack(rcv))
  /\ UNCHANGED <<snd, toRcv, written>>

LwipNext ==
  \/ \E n \in Writes, hold \in BOOLEAN : AppWrite(n, hold)
  \/ \E hold \in BOOLEAN : AppClose(hold)
  \/ \E n \in Reads : AppRead(n)
  \/ \E seg \in toRcv, again \in BOOLEAN : DataArrives(seg, again)
  \/ \E a \in toSnd, hold \in BOOLEAN : AckArrives(a, hold)
  \/ \E hold \in BOOLEAN : SndTimer(hold)
  \/ OoseqTimeout
  \/ tcp_fasttmr

-----------------------------------------------------------------------------
(* Properties *)

(* Both ends keep the shape the code relies on: the queues hold segments of *)
(* at most an MSS, the ooseq list is sorted and disjoint, above rcv_nxt,    *)
(* and a FIN only ends it (tcp_receive takes its head when it is next).     *)
LwipTypeOK ==
  /\ snd.snd_buf \in 0..SndBufMax + 1 /\ snd.cwnd \in 1..MaxCwnd
  /\ \A g \in Range(snd.unsent) \union Range(snd.unacked) : SegLen(g) <= Mss
  /\ rcv.rcv_wnd \in 0..RcvWndMax /\ ~rcv.ack_now
  /\ LET q == rcv.ooseq
     IN  \A i \in 1..Len(q) :
           /\ TCP_SEQ_GT(q[i].seqno, rcv.rcv_nxt) \/ rcv.got_fin
           /\ i < Len(q) => TCP_SEQ_LEQ(DataEnd(q[i]), q[i + 1].seqno) /\ ~q[i].fin

(* Whatever is lost, repeated or reordered, the application of the receiver *)
(* gets the bytes of the stream in order, each once and none that was not   *)
(* written: the trimming at both edges and the ooseq list of tcp_receive.   *)
InOrderOnce ==
  /\ Len(rcv.stream) <= written
  /\ \A i \in 1..Len(rcv.stream) : rcv.stream[i] = i

(* A byte the peer has not acknowledged is still held by one of the two     *)
(* queues, so it can be sent again: splitting, extending and requeueing     *)
(* lose no byte and the two queues together are sorted.                     *)
UnackedIsHeld ==
  LET q == SortSeq(snd.unacked \o snd.unsent, LAMBDA g, h : TCP_SEQ_LT(g.seqno, h.seqno))
      all == FoldLeft(LAMBDA acc, g : acc \o g.data, <<>>, q)
  IN  ~snd.dead => /\ \A i \in 1..Len(all) - 1 : all[i + 1] = all[i] + 1
                   /\ written - Len(all) <= Diff(snd.lastack, ISS)
                   /\ all # <<>> => Last(all) = written

-----------------------------------------------------------------------------
(***************************************************************************)
(* lwIP packet buffers (lwip/pbuf.c): chains of reference-counted buffers  *)
(* whose heads record the length of the whole rest of the chain.           *)
(*                                                                         *)
(* A pbuf is its payload (a sequence of bytes), tot_len, next and ref;     *)
(* `held' counts the pointers the stack itself keeps to it.  The stack     *)
(* trims (pbuf_header, pbuf_realloc), joins (pbuf_cat, pbuf_chain), splits *)
(* (pbuf_dechain, pbuf_split_64k) and frees; the read-only functions are   *)
(* operators on the heap.                                                  *)
(***************************************************************************)


CONSTANTS
  Pb,          \* the pbufs
  Payloads,    \* payloads of a new pbuf
  SplitAt,     \* the 64K a chain must stay below
  MaxRef,      \* bound on the references
  NoPbuf

VARIABLES
  heap,        \* [Pb -> [data, tot, next, ref]]
  held         \* [Pb -> pointers the stack keeps]

pbufVars == <<heap, held>>

Unused == [data |-> <<>>, tot |-> 0, next |-> NoPbuf, ref |-> 0]
PLen(p) == Len(heap[p].data)
RECURSIVE Chain(_, _)
Chain(h, p) == IF p = NoPbuf THEN <<>> ELSE <<p>> \o Chain(h, h[p].next)
RECURSIVE Content(_, _)
Content(h, p) == IF p = NoPbuf THEN <<>> ELSE h[p].data \o Content(h, h[p].next)
In(seq) == {seq[i] : i \in 1..Len(seq)}

PbufInit ==
  /\ heap = [p \in Pb |-> Unused]
  /\ held = [p \in Pb |-> 0]

-----------------------------------------------------------------------------
\* A pbuf comes out of the socket's pool (tcp_tx_pbuf_alloc) or around a
\* received buffer, pbuf_alloced_custom: referenced once.
pbuf_alloced_custom(p, data) ==
  /\ heap[p].ref = 0 /\ held[p] = 0
  /\ heap' = [heap EXCEPT ![p] = [data |-> data, tot |-> Len(data), next |-> NoPbuf, ref |-> 1]]
  /\ held' = [held EXCEPT ![p] = 1]

\* pbuf_free on a heap: pbufs are released from the head while the count
\* reaches zero.
RECURSIVE Freed(_, _)
Freed(h, p) ==
  IF p = NoPbuf THEN h
  ELSE IF h[p].ref > 1 THEN [h EXCEPT ![p].ref = @ - 1]
  ELSE Freed([h EXCEPT ![p] = Unused], h[p].next)

pbuf_free(p) ==
  /\ held[p] > 0
  /\ heap' = Freed(heap, p)
  /\ held' = [held EXCEPT ![p] = @ - 1]

pbuf_ref(p) ==
  /\ held[p] > 0 /\ heap[p].ref < MaxRef
  /\ heap' = [heap EXCEPT ![p].ref = @ + 1]
  /\ held' = [held EXCEPT ![p] = @ + 1]

\* A chain the caller alone may change: nothing precedes its head and nobody
\* else holds a part of it.
Owned(p) ==
  /\ held[p] = 1 /\ heap[p].ref = 1
  /\ \A q \in In(Chain(heap, p)) \ {p} : heap[q].ref = 1

\* pbuf_header with a negative increment: hide n bytes of the first pbuf.
HideHeader(h, p, n) == [h EXCEPT ![p].data = SubSeq(@, n + 1, Len(@)), ![p].tot = @ - n]
pbuf_header(p, n) ==
  /\ Owned(p) /\ n <= PLen(p)
  /\ heap' = HideHeader(heap, p, n)
  /\ UNCHANGED held

\* pbuf_realloc: shrink the chain to new_len bytes; the pbufs behind the new
\* last one are freed.
RECURSIVE Shrunk(_, _, _, _)
Shrunk(h, p, rem, less) ==
  IF rem > Len(h[p].data)
  THEN Shrunk([h EXCEPT ![p].tot = @ - less], h[p].next, rem - Len(h[p].data), less)
  ELSE Freed([h EXCEPT ![p].data = SubSeq(@, 1, rem), ![p].tot = rem, ![p].next = NoPbuf], h[p].next)

pbuf_realloc(p, new_len) ==
  /\ Owned(p) /\ new_len < heap[p].tot
  /\ heap' = Shrunk(heap, p, new_len, heap[p].tot - new_len)
  /\ UNCHANGED held

\* pbuf_cat: every total of the first chain grows; the caller's reference to
\* the second becomes the chain's.
Joined(h, p, t) ==
  LET c == Chain(h, p) IN
  [q \in Pb |-> IF q \notin In(c) THEN h[q]
                ELSE [h[q] EXCEPT !.tot = @ + h[t].tot,
                                  !.next = IF q = c[Len(c)] THEN t ELSE @]]
pbuf_cat(p, t) ==
  /\ Owned(p) /\ held[t] > 0 /\ t \notin In(Chain(heap, p)) /\ p \notin In(Chain(heap, t))
  /\ heap' = Joined(heap, p, t)
  /\ held' = [held EXCEPT ![t] = @ - 1]

\* pbuf_chain: the same, and the caller keeps its reference.
pbuf_chain(p, t) ==
  /\ Owned(p) /\ held[t] > 0 /\ t \notin In(Chain(heap, p)) /\ p \notin In(Chain(heap, t))
  /\ heap[t].ref < MaxRef
  /\ heap' = [Joined(heap, p, t) EXCEPT ![t].ref = @ + 1]
  /\ UNCHANGED held

\* pbuf_dechain: cut the first pbuf off; the tail loses the reference.
pbuf_dechain(p) ==
  LET q == heap[p].next IN
  /\ held[p] = 1 /\ heap[p].ref = 1
  /\ q # NoPbuf
  /\ heap' = Freed([heap EXCEPT ![p].next = NoPbuf, ![p].tot = PLen(p),
                                ![q].tot = heap[p].tot - PLen(p)], q)
  /\ UNCHANGED held

\* pbuf_split_64k: the longest prefix of pbufs that fits below the limit stays,
\* the rest becomes a chain of its own (the caller now points to it).
RECURSIVE FrontOf(_, _, _)
FrontOf(h, p, room) ==
  IF p = NoPbuf \/ Len(h[p].data) > room THEN <<>>
  ELSE <<p>> \o FrontOf(h, h[p].next, room - Len(h[p].data))
pbuf_split_64k(p) ==
  LET front == FrontOf(heap, p, SplitAt)
      last == front[Len(front)]
      rest == heap[last].next
  IN /\ Owned(p) /\ heap[p].tot >= SplitAt
     /\ front # <<>> /\ rest # NoPbuf
     /\ heap' = [q \in Pb |-> IF q \notin In(front) THEN heap[q]
                              ELSE [heap[q] EXCEPT !.tot = @ - heap[rest].tot,
                                                   !.next = IF q = last THEN NoPbuf ELSE @]]
     /\ held' = [held EXCEPT ![rest] = @ + 1]

-----------------------------------------------------------------------------
(* The functions that only read or fill payloads.                           *)

RECURSIVE pbuf_get_at(_, _)
pbuf_get_at(p, off) ==
  IF p = NoPbuf THEN 0
  ELSE IF PLen(p) <= off THEN pbuf_get_at(heap[p].next, off - PLen(p))
  ELSE heap[p].data[off + 1]

RECURSIVE pbuf_copy_partial(_, _, _)
pbuf_copy_partial(p, n, off) ==
  IF n = 0 \/ p = NoPbuf THEN <<>>
  ELSE IF off # 0 /\ off >= PLen(p) THEN pbuf_copy_partial(heap[p].next, n, off - PLen(p))
  ELSE LET k == IF PLen(p) - off > n THEN n ELSE PLen(p) - off
       IN SubSeq(heap[p].data, off + 1, off + k) \o pbuf_copy_partial(heap[p].next, n - k, 0)

\* pbuf_take: fill the chain from a flat buffer.
RECURSIVE Taken(_, _, _)
Taken(h, p, data) ==
  IF data = <<>> THEN h
  ELSE LET k == IF Len(data) > Len(h[p].data) THEN Len(h[p].data) ELSE Len(data)
       IN Taken([h EXCEPT ![p].data = SubSeq(data, 1, k) \o SubSeq(@, k + 1, Len(@))],
                h[p].next, SubSeq(data, k + 1, Len(data)))
pbuf_take(p, data) ==
  /\ Owned(p) /\ heap[p].tot >= Len(data)
  /\ heap' = Taken(heap, p, data)
  /\ UNCHANGED held

\* pbuf_copy of chain f into chain t, payload by payload.
RECURSIVE Copied(_, _, _, _, _)
Copied(h, t, ot, f, of) ==
  IF t = NoPbuf \/ f = NoPbuf THEN h
  ELSE LET lt == Len(h[t].data) - ot
           lf == Len(h[f].data) - of
           k == IF lt >= lf THEN lf ELSE lt
           h2 == [h EXCEPT ![t].data = SubSeq(@, 1, ot) \o SubSeq(h[f].data, of + 1, of + k)
                                       \o SubSeq(@, ot + k + 1, Len(@))]
           nt == IF k = lt THEN h[t].next ELSE t
           nf == IF k = lf THEN h[f].next ELSE f
       IN Copied(h2, nt, IF k = lt THEN 0 ELSE ot + k, nf, IF k = lf THEN 0 ELSE of + k)
pbuf_copy(t, f) ==
  /\ Owned(t) /\ held[f] > 0 /\ In(Chain(heap, t)) \cap In(Chain(heap, f)) = {}
  /\ heap[t].tot >= heap[f].tot
  /\ heap' = Copied(heap, t, 0, f, 0)
  /\ UNCHANGED held

PbufNext ==
  \/ \E p \in Pb, d \in Payloads : pbuf_alloced_custom(p, d)
  \/ \E p \in Pb : pbuf_free(p) \/ pbuf_ref(p) \/ pbuf_dechain(p) \/ pbuf_split_64k(p)
  \/ \E p \in Pb, n \in 1..2 : pbuf_header(p, n) \/ pbuf_realloc(p, n - 1)
  \/ \E p, t \in Pb : pbuf_cat(p, t) \/ pbuf_chain(p, t) \/ pbuf_copy(p, t)
  \/ \E p \in Pb, d \in Payloads : pbuf_take(p, d)

PbufSpec == PbufInit /\ [][PbufNext]_pbufVars

-----------------------------------------------------------------------------
PbufTypeOK ==
  \A p \in Pb : /\ heap[p].ref \in 0..(MaxRef + 1) /\ held[p] \in 0..MaxRef
                /\ heap[p].next \in Pb \cup {NoPbuf}

Pointers(p) == held[p] + Cardinality({q \in Pb : heap[q].ref > 0 /\ heap[q].next = p})

(* Whatever the stack joined, trimmed, split and freed: a pbuf's count is the *)
(* number of pointers to it, a pbuf somebody points to is not free, and its   *)
(* tot_len is what the chain behind it holds (the invariant pbuf_dechain      *)
(* asserts).                                                                  *)
ChainsSound ==
  \A p \in Pb : /\ heap[p].ref = Pointers(p)
                /\ heap[p].ref > 0 => heap[p].tot = Len(Content(heap, p))

(* Reading at an offset sees the chain as one flat packet, wherever the       *)
(* boundaries of its pbufs are.                                               *)
ReadsAreFlat ==
  \A p \in Pb : heap[p].ref > 0 =>
    LET flat == Content(heap, p) IN
    \A off \in 0..(Len(flat) + 1), n \in 0..(Len(flat) + 1) :
      /\ pbuf_copy_partial(p, n, off) = SubSeq(flat, off + 1, IF off + n > Len(flat) THEN Len(flat) ELSE off + n)
      /\ pbuf_get_at(p, off) = IF off < Len(flat) THEN flat[off + 1] ELSE 0
=============================================================================
