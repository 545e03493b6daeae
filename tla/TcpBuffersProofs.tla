-------------------------- MODULE TcpBuffersProofs --------------------------
(* Proofs about TcpBuffers: the receive window, the send buffer and the    *)
(* segments are conserved for any sizes of buffers, packets and pools.     *)
EXTENDS TcpBuffers, FiniteSetTheorems, WellFoundedInduction, TLAPS

(* n is the number of bytes of the packets of s: there are sums c[i] of    *)
(* the packets from i on, and n is the first of them.                      *)
Bytes(s, n) ==
  \E c \in [1..(Len(s) + 1) -> Nat] :
    /\ c[Len(s) + 1] = 0 /\ c[1] = n
    /\ \A i \in 1..Len(s) : c[i] = s[i] + c[i + 1]

(* An empty queue has no bytes.                                            *)
LEMMA BytesOfNone == Bytes(<<>>, 0) /\ \A n : Bytes(<<>>, n) => n = 0
<1>1. Bytes(<<>>, 0)
  <2> DEFINE c == [i \in 1..1 |-> 0]
  <2>1. Len(<<>>) = 0
    OBVIOUS
  <2>2. c \in [1..(Len(<<>>) + 1) -> Nat] /\ c[1] = 0 /\ c[Len(<<>>) + 1] = 0
    BY <2>1
  <2>3. \A i \in 1..Len(<<>>) : c[i] = <<>>[i] + c[i + 1]
    BY <2>1
  <2> QED
    BY <2>2, <2>3 DEF Bytes
<1>2. ASSUME NEW n, Bytes(<<>>, n) PROVE n = 0
  <2>1. Len(<<>>) = 0
    OBVIOUS
  <2> QED
    BY <1>2, <2>1 DEF Bytes
<1> QED
  BY <1>1, <1>2

(* A packet that is appended adds its length.                              *)
LEMMA BytesOfAppend ==
  ASSUME NEW s \in Seq(Nat), NEW x \in Nat, NEW n \in Nat, Bytes(s, n)
  PROVE  Bytes(Append(s, x), n + x)
<1>1. PICK c \in [1..(Len(s) + 1) -> Nat] :
        c[Len(s) + 1] = 0 /\ c[1] = n /\ \A i \in 1..Len(s) : c[i] = s[i] + c[i + 1]
  BY DEF Bytes
<1> DEFINE t == Append(s, x)
           b == [i \in 1..(Len(t) + 1) |-> IF i = Len(t) + 1 THEN 0 ELSE c[i] + x]
<1>2. Len(t) = Len(s) + 1 /\ Len(s) \in Nat /\ t[Len(t)] = x /\ \A i \in 1..Len(s) : t[i] = s[i]
  OBVIOUS
<1>3. b \in [1..(Len(t) + 1) -> Nat]
  BY <1>1, <1>2
<1>4. b[Len(t) + 1] = 0 /\ b[1] = n + x
  BY <1>1, <1>2
<1>5. ASSUME NEW i \in 1..Len(t) PROVE b[i] = t[i] + b[i + 1]
  <2>1. CASE i = Len(t)
    BY <1>1, <1>2, <2>1
  <2>2. CASE i # Len(t)
    <3>1. i \in 1..Len(s) /\ i + 1 # Len(t) + 1 /\ i # Len(t) + 1 /\ i + 1 \in 1..(Len(t) + 1) /\ i \in 1..(Len(t) + 1)
      BY <1>2, <2>2
    <3>2. b[i] = c[i] + x /\ b[i + 1] = c[i + 1] + x
      BY <3>1
    <3> HIDE DEF t, b
    <3>3. t[i] = s[i]
      BY <1>2, <3>1
    <3>4. s[i] \in Nat
      BY <3>1
    <3>5. c[i] = s[i] + c[i + 1]
      BY <1>1, <3>1
    <3>6. i + 1 \in 1..(Len(s) + 1)
      BY <1>2, <3>1
    <3>7. c[i + 1] \in Nat
      BY <1>1, <3>6
    <3> QED
      BY <3>2, <3>3, <3>4, <3>5, <3>7
  <2> QED
    BY <2>1, <2>2
<1> HIDE DEF t, b
<1>6. Bytes(t, n + x)
  BY <1>3, <1>4, <1>5 DEF Bytes
<1> QED
  BY <1>6 DEF t

(* The first packet that leaves takes its length along.                    *)
LEMMA BytesOfTail ==
  ASSUME NEW s \in Seq(Nat), s # <<>>, NEW n \in Nat, Bytes(s, n)
  PROVE  \E h \in Nat : /\ h = Head(s) /\ h <= n /\ Tail(s) \in Seq(Nat) /\ Bytes(Tail(s), n - h)
                        /\ (Tail(s) # <<>> => 0 <= Head(Tail(s)))
<1>1. PICK c \in [1..(Len(s) + 1) -> Nat] :
        c[Len(s) + 1] = 0 /\ c[1] = n /\ \A i \in 1..Len(s) : c[i] = s[i] + c[i + 1]
  BY DEF Bytes
<1> DEFINE t == Tail(s)
           b == [i \in 1..(Len(t) + 1) |-> c[i + 1]]
<1>2. /\ Len(s) \in Nat /\ Len(t) = Len(s) - 1 /\ Len(t) \in Nat
      /\ Head(s) = s[1] /\ s[1] \in Nat /\ \A i \in 1..Len(t) : t[i] = s[i + 1]
  OBVIOUS
<1>3. b \in [1..(Len(t) + 1) -> Nat]
  BY <1>1, <1>2
<1>4. b[Len(t) + 1] = 0 /\ b[1] = n - Head(s) /\ b[1] \in Nat
  BY <1>1, <1>2
<1>5. ASSUME NEW i \in 1..Len(t) PROVE b[i] = t[i] + b[i + 1]
  BY <1>1, <1>2
<1> HIDE DEF t, b
<1>6. Bytes(t, n - Head(s))
  BY <1>3, <1>4, <1>5 DEF Bytes
<1> QED
  BY <1>1, <1>2, <1>4, <1>6 DEF t

-----------------------------------------------------------------------------
(* The window: the bytes lwIP was not told of are bytes of packets that    *)
(* wait or that the application holds, and none before a connection.       *)
HeldInv ==
  /\ rxReady \in Seq(Nat) /\ lent \in Seq(Nat) /\ offset \in Nat
  /\ (IF rxReady = <<>> THEN offset = 0 ELSE offset <= Head(rxReady))
  /\ \E a, b \in Nat : Bytes(rxReady, a) /\ Bytes(lent, b) /\ nonRecved <= (a + b) - offset
WndInv ==
  /\ wnd \in Nat /\ wndMax \in Nat /\ desired \in Nat /\ buffMax \in Nat /\ current \in Int /\ nonRecved \in Nat
  /\ conn \in {"no", "yes", "half"} /\ (conn = "no" => nonRecved = 0)
  /\ WindowConserved

(* fit_rcv_wnd keeps the window whole, and owes the peer nothing more.     *)
LEMMA FitKeeps ==
  ASSUME WndInv, NEW m \in Nat, NEW force \in BOOLEAN, fit_rcv_wnd(m, force)
  PROVE  /\ wnd' \in Nat /\ wndMax' \in Nat /\ desired' \in Nat /\ buffMax' \in Nat /\ nonRecved' \in Nat
         /\ WindowConserved' /\ nonRecved' <= nonRecved
<1>1. MinOf(TcpWnd, m) \in Nat
  BY BufAssumption DEF MinOf
<1> QED
  BY <1>1 DEF WndInv, fit_rcv_wnd, WindowConserved, MaxOf

(* The accounting of a received packet keeps it whole, and owes the peer   *)
(* at most the packet more, and nothing for a packet that is dropped.      *)
LEMMA AccountKeeps ==
  ASSUME WndInv, NEW len \in Nat, len <= wnd, NEW drop \in BOOLEAN, Account(len, drop)
  PROVE  /\ wnd' \in Nat /\ wndMax' \in Nat /\ nonRecved' \in Nat /\ current' \in Int
         /\ WindowConserved' /\ nonRecved' <= nonRecved + (IF drop THEN 0 ELSE len)
<1> DEFINE space == MaxOf(0, buffMax - current - desired)
           told == IF drop THEN len ELSE MinOf(space, len)
           shrink == MinOf(MaxOf(0, wndMax - desired), len - told)
<1>1. told \in Nat /\ told <= len
  BY DEF WndInv, MinOf, MaxOf
<1> HIDE DEF told
<1>2. shrink \in Nat /\ shrink <= len - told
  BY <1>1 DEF WndInv, MinOf, MaxOf
<1>3. drop => told = len
  BY DEF told
<1> HIDE DEF shrink
<1>4. /\ current' = IF drop THEN current ELSE current + len
      /\ wnd' = Opened(wnd - len, wndMax, told) /\ wndMax' = wndMax - shrink
      /\ nonRecved' = nonRecved + len - told - shrink
  BY DEF Account, told, shrink
<1> QED
  BY <1>1, <1>2, <1>3, <1>4 DEF WndInv, WindowConserved, Opened, MinOf

(* Giving bytes up keeps it whole, and pays that many bytes back.          *)
LEMMA ReleasedKeeps ==
  ASSUME WndInv, NEW n \in Nat, Released(n), UNCHANGED wndMax
  PROVE  /\ wnd' \in Nat /\ nonRecved' \in Nat /\ current' \in Int /\ WindowConserved'
         /\ nonRecved' = IF nonRecved < n THEN 0 ELSE nonRecved - n
BY DEF WndInv, WindowConserved, Released, Opened, MinOf

(* The packets and the window hold together at every step.                 *)
LEMMA WindowStep ==
  ASSUME WndInv, HeldInv, [BufNext]_bufVars
  PROVE  WndInv' /\ HeldInv'
<1> USE BufAssumption DEF bufVars, wndVars, pktVars, sndVars, segVars
<1>1. PICK a \in Nat, b \in Nat : Bytes(rxReady, a) /\ Bytes(lent, b) /\ nonRecved <= (a + b) - offset
  BY DEF HeldInv
<1>2. \A m \in Nat : MaxOf(buffMax, 2 * SockMss) \in Nat /\ MaxOf(2 * SockMss, m) \in Nat
  BY DEF WndInv, MaxOf
<1>0. /\ wnd \in Nat /\ wndMax \in Nat /\ desired \in Nat /\ buffMax \in Nat /\ current \in Int /\ nonRecved \in Nat
      /\ offset \in Nat /\ rxReady \in Seq(Nat) /\ lent \in Seq(Nat)
  BY DEF WndInv, HeldInv
<1>3. ASSUME UNCHANGED <<rxReady, lent, offset>>, nonRecved' \in Nat, nonRecved' <= nonRecved
      PROVE  HeldInv'
  BY <1>1, <1>3 DEF HeldInv, WndInv
<1>4. ASSUME UNCHANGED <<wndVars, rxReady, lent, offset>>
      PROVE  WndInv' /\ HeldInv'
  <2>1. WndInv'
    BY <1>4 DEF WndInv, WindowConserved
  <2> QED
    BY <1>3, <1>4, <2>1 DEF WndInv
<1>5. CASE connect_lwip_cb
  <2>1. fit_rcv_wnd(MaxOf(buffMax, 2 * SockMss), FALSE)
    BY <1>5 DEF connect_lwip_cb
  <2>2. /\ wnd' \in Nat /\ wndMax' \in Nat /\ desired' \in Nat /\ buffMax' \in Nat /\ nonRecved' \in Nat
        /\ WindowConserved' /\ nonRecved' <= nonRecved
    BY <1>2, <2>1, FitKeeps
  <2> QED
    BY <1>3, <1>5, <2>2 DEF connect_lwip_cb, WndInv
<1>6. CASE SetRcvBuf
  <2>1. PICK v \in RcvBufs : fit_rcv_wnd(MaxOf(2 * SockMss, v), conn # "yes")
    BY <1>6 DEF SetRcvBuf
  <2>2. (conn # "yes") \in BOOLEAN /\ v \in Nat
    OBVIOUS
  <2>3. /\ wnd' \in Nat /\ wndMax' \in Nat /\ desired' \in Nat /\ buffMax' \in Nat /\ nonRecved' \in Nat
        /\ WindowConserved' /\ nonRecved' <= nonRecved
    BY <1>2, <2>1, <2>2, FitKeeps
  <2> QED
    BY <1>3, <1>6, <2>3 DEF SetRcvBuf, WndInv
<1>7. CASE HalfClosed
  <2>1. WndInv'
    BY <1>7 DEF HalfClosed, WndInv, WindowConserved
  <2> QED
    BY <1>3, <1>7, <2>1 DEF HalfClosed, WndInv
<1>8. CASE rx_lwip_cb
  <2>1. PICK len \in Lens, verdict \in {"RECV", "DROP", "HOLD"} :
          /\ len <= wnd /\ Account(len, verdict = "DROP")
          /\ (verdict # "RECV" => rxReady = <<>>)
          /\ rxReady' = IF verdict = "RECV" THEN Append(rxReady, len) ELSE rxReady
          /\ lent' = IF verdict = "HOLD" THEN Append(lent, len) ELSE lent
    BY <1>8 DEF rx_lwip_cb
  <2>2. len \in Nat /\ (verdict = "DROP") \in BOOLEAN
    OBVIOUS
  <2>3. /\ wnd' \in Nat /\ wndMax' \in Nat /\ nonRecved' \in Nat /\ current' \in Int /\ WindowConserved'
        /\ nonRecved' <= nonRecved + (IF verdict = "DROP" THEN 0 ELSE len)
    BY <2>1, <2>2, AccountKeeps
  <2>4. conn # "no" /\ UNCHANGED <<conn, desired, buffMax, offset>>
    BY <1>8 DEF rx_lwip_cb
  <2>5. WndInv'
    BY <2>3, <2>4 DEF WndInv
  <2>6. CASE verdict = "RECV"
    <3>1. rxReady' = Append(rxReady, len) /\ rxReady' # <<>> /\ rxReady' \in Seq(Nat)
      BY <1>0, <2>1, <2>2, <2>6
    <3>4. offset <= Head(rxReady')
      <4>1. Head(rxReady') = IF rxReady = <<>> THEN len ELSE Head(rxReady)
        BY <1>0, <2>2, <3>1
      <4> QED
        BY <2>2, <4>1 DEF HeldInv
    <3>2. Bytes(rxReady', a + len) /\ lent' = lent
      BY <1>1, <2>1, <2>2, <2>6, <3>1, BytesOfAppend DEF HeldInv
    <3>3. nonRecved' <= ((a + len) + b) - offset' /\ a + len \in Nat
      BY <1>0, <1>1, <2>2, <2>3, <2>4, <2>6
    <3> QED
      BY <1>1, <2>4, <2>5, <3>1, <3>2, <3>3, <3>4 DEF HeldInv
  <2>7. CASE verdict = "HOLD"
    <3>1. lent' = Append(lent, len) /\ lent' \in Seq(Nat) /\ rxReady' = rxReady
      BY <2>1, <2>2, <2>7 DEF HeldInv
    <3>2. Bytes(lent', b + len)
      BY <1>1, <2>2, <3>1, BytesOfAppend DEF HeldInv
    <3>3. nonRecved' <= (a + (b + len)) - offset' /\ b + len \in Nat
      BY <1>0, <1>1, <2>2, <2>3, <2>4, <2>7
    <3> QED
      BY <1>1, <2>4, <2>5, <3>1, <3>2, <3>3 DEF HeldInv
  <2>8. CASE verdict = "DROP"
    <3>1. nonRecved' <= nonRecved
      BY <2>3, <2>8 DEF WndInv
    <3> QED
      BY <1>3, <2>1, <2>3, <2>4, <2>5, <2>8, <3>1
  <2> QED
    BY <2>1, <2>6, <2>7, <2>8
<1>9. CASE rx
  <2>2. rxReady # <<>> /\ UNCHANGED <<conn, wndMax, desired, buffMax, lent>>
    BY <1>9 DEF rx
  <2>3. PICK h \in Nat : /\ h = Head(rxReady) /\ h <= a /\ Tail(rxReady) \in Seq(Nat) /\ Bytes(Tail(rxReady), a - h)
                        /\ (Tail(rxReady) # <<>> => 0 <= Head(Tail(rxReady)))
    BY <1>0, <1>1, <2>2, BytesOfTail
  <2>1. PICK n \in 1..(h - offset) :
          /\ Released(n)
          /\ IF n = h - offset THEN rxReady' = Tail(rxReady) /\ offset' = 0
             ELSE offset' = offset + n /\ UNCHANGED rxReady
    BY <1>9, <2>3 DEF rx
  <2>9. h <= a
    BY <2>3
  <2>4. n \in Nat /\ n <= h - offset /\ offset \in Nat
    BY <1>0, <2>9
  <2>5. /\ wnd' \in Nat /\ nonRecved' \in Nat /\ current' \in Int /\ WindowConserved'
        /\ nonRecved' = IF nonRecved < n THEN 0 ELSE nonRecved - n
    BY <2>1, <2>2, <2>4, ReleasedKeeps
  <2>6. WndInv'
    BY <2>2, <2>4, <2>5 DEF WndInv
  <2>7. CASE n = h - offset
    <3>1. rxReady' = Tail(rxReady) /\ offset' = 0
      BY <2>1, <2>7
    <3>2. nonRecved' <= ((a - h) + b) - offset' /\ a - h \in Nat
      BY <1>0, <1>1, <2>9, <2>4, <2>5, <2>7, <3>1
    <3>3. Bytes(rxReady', a - h) /\ Bytes(lent', b)
      BY <1>1, <2>2, <2>3, <3>1
    <3>4. /\ rxReady' \in Seq(Nat) /\ lent' \in Seq(Nat) /\ offset' \in Nat
          /\ (IF rxReady' = <<>> THEN offset' = 0 ELSE offset' <= Head(rxReady'))
      BY <1>0, <2>2, <2>3, <3>1
    <3> QED
      BY <2>6, <3>2, <3>3, <3>4 DEF HeldInv
  <2>8. CASE n # h - offset
    <3>1. rxReady' = rxReady /\ offset' = offset + n
      BY <2>1, <2>8
    <3>2. nonRecved' <= (a + b) - offset' /\ offset' \in Nat /\ offset' <= h
      BY <1>0, <1>1, <2>3, <2>4, <2>5, <3>1
    <3> QED
      BY <1>0, <1>1, <2>2, <2>3, <2>6, <3>1, <3>2 DEF HeldInv
  <2> QED
    BY <2>7, <2>8
<1>10. CASE zero_copy_rx
  <2>1. /\ rxReady # <<>> /\ rxReady' = Tail(rxReady) /\ lent' = Append(lent, Head(rxReady)) /\ offset' = 0
        /\ UNCHANGED wndVars
    BY <1>10 DEF zero_copy_rx
  <2>2. PICK h \in Nat : /\ h = Head(rxReady) /\ h <= a /\ Tail(rxReady) \in Seq(Nat) /\ Bytes(Tail(rxReady), a - h)
                        /\ (Tail(rxReady) # <<>> => 0 <= Head(Tail(rxReady)))
    BY <1>0, <1>1, <2>1, BytesOfTail
  <2>7. h <= a
    BY <2>2
  <2>8. b + h \in Nat /\ a - h \in Nat
    BY <2>7
  <2>3. Bytes(Append(lent, h), b + h)
    BY <1>0, <1>1, BytesOfAppend
  <2>4. rxReady' \in Seq(Nat) /\ lent' = Append(lent, h) /\ lent' \in Seq(Nat)
    BY <1>0, <2>1, <2>2
  <2>5. nonRecved <= ((a - h) + (b + h)) - 0
    BY <1>0, <1>1, <2>7
  <2>6. WndInv' /\ nonRecved' = nonRecved
    BY <2>1 DEF WndInv, WindowConserved
  <2>9. Bytes(rxReady', a - h) /\ Bytes(lent', b + h)
    BY <2>1, <2>2, <2>3, <2>4
  <2>10. offset' = 0 /\ (rxReady' # <<>> => 0 <= Head(rxReady'))
    BY <2>1, <2>2
  <2> QED
    BY <2>4, <2>5, <2>6, <2>8, <2>9, <2>10 DEF HeldInv
<1>11. CASE free_packets
  <2>1. /\ lent # <<>> /\ Released(Head(lent)) /\ lent' = Tail(lent)
        /\ UNCHANGED <<conn, wndMax, desired, buffMax, rxReady, offset>>
    BY <1>11 DEF free_packets
  <2>2. PICK h \in Nat : /\ h = Head(lent) /\ h <= b /\ Tail(lent) \in Seq(Nat) /\ Bytes(Tail(lent), b - h)
    BY <1>0, <1>1, <2>1, BytesOfTail
  <2>3. /\ wnd' \in Nat /\ nonRecved' \in Nat /\ current' \in Int /\ WindowConserved'
        /\ nonRecved' = IF nonRecved < h THEN 0 ELSE nonRecved - h
    BY <2>1, <2>2, ReleasedKeeps
  <2>4. WndInv'
    BY <2>1, <2>2, <2>3 DEF WndInv
  <2>5. offset <= a
    <3>1. CASE rxReady = <<>>
      BY <3>1 DEF HeldInv
    <3>2. CASE rxReady # <<>>
      <4>1. PICK g \in Nat : g = Head(rxReady) /\ g <= a
        BY <1>0, <1>1, <3>2, BytesOfTail
      <4>2. offset <= g
        BY <3>2, <4>1 DEF HeldInv
      <4> QED
        BY <1>0, <4>1, <4>2
    <3> QED
      BY <3>1, <3>2
  <2>9. h <= b
    BY <2>2
  <2>6. nonRecved' <= (a + (b - h)) - offset /\ b - h \in Nat
    BY <1>0, <1>1, <2>3, <2>5, <2>9
  <2>7. /\ rxReady' \in Seq(Nat) /\ lent' \in Seq(Nat) /\ offset' \in Nat /\ offset' = offset
        /\ (IF rxReady' = <<>> THEN offset' = 0 ELSE offset' <= Head(rxReady'))
    BY <1>0, <2>1, <2>2 DEF HeldInv
  <2>8. Bytes(rxReady', a) /\ Bytes(lent', b - h)
    BY <1>1, <2>1, <2>2
  <2> QED
    BY <2>4, <2>6, <2>7, <2>8 DEF HeldInv
<1>12. CASE return_reuse_buffers_postponed \/ return_pending_rx_buffs
  BY <1>4, <1>12 DEF return_reuse_buffers_postponed, return_pending_rx_buffs
<1>13. CASE fit_snd_bufs \/ SendBytes \/ Acked
  BY <1>4, <1>13 DEF fit_snd_bufs, SendBytes, Acked
<1>14. CASE \E s \in SegSocks : get_tcp_seg(s) \/ put_tcp_seg(s) \/ FreeSegs(s)
  BY <1>4, <1>14 DEF get_tcp_seg, put_tcp_seg, FreeSegs
<1>15. CASE UNCHANGED bufVars
  BY <1>4, <1>15
<1> QED
  BY <1>5, <1>6, <1>7, <1>8, <1>9, <1>10, <1>11, <1>12, <1>13, <1>14, <1>15 DEF BufNext

(* The window and the packets hold together in every behaviour.            *)
LEMMA WindowInv == BufSpec => [](WndInv /\ HeldInv)
<1>1. BufInit => WndInv /\ HeldInv
  <2> SUFFICES ASSUME BufInit PROVE WndInv /\ HeldInv
    OBVIOUS
  <2>1. WndInv
    BY BufAssumption DEF BufInit, WndInv, WindowConserved, MinOf
  <2>2. <<>> \in Seq(Nat)
    OBVIOUS
  <2> QED
    BY <2>1, <2>2, BytesOfNone DEF BufInit, HeldInv
<1>2. (WndInv /\ HeldInv) /\ [BufNext]_bufVars => (WndInv /\ HeldInv)'
  BY WindowStep
<1> QED
  BY <1>1, <1>2, PTL DEF BufSpec

(* The window of sockinfo_tcp is never partly lost, whatever reads,        *)
(* packets, zero copy and SO_RCVBUF do, and at any sizes.                  *)
THEOREM WindowIsConserved == BufSpec => []WindowConserved
<1>1. WndInv /\ HeldInv => WindowConserved
  BY DEF WndInv
<1> QED
  BY <1>1, WindowInv, PTL

(* When the application has read or given back every packet, lwIP was told *)
(* of every byte: a reader that keeps up never leaves the window closed.   *)
THEOREM WindowAlwaysReopens == BufSpec => []WindowReopens
<1>1. WndInv /\ HeldInv => WindowReopens
  <2> SUFFICES ASSUME WndInv, HeldInv, rxReady = <<>>, lent = <<>> PROVE nonRecved = 0
    BY DEF WindowReopens
  <2>1. PICK a \in Nat, b \in Nat : Bytes(<<>>, a) /\ Bytes(<<>>, b) /\ nonRecved <= (a + b) - offset
    BY DEF HeldInv
  <2>2. a = 0 /\ b = 0
    BY <2>1, BytesOfNone
  <2> QED
    BY <2>1, <2>2 DEF WndInv, HeldInv
<1> QED
  BY <1>1, WindowInv, PTL

-----------------------------------------------------------------------------
(* t gives the number of segments of every set of sockets.                 *)
Totals(t, f) ==
  /\ t \in [SUBSET SegSocks -> Nat] /\ t[{}] = 0
  /\ \A A \in SUBSET SegSocks : \A x \in A : t[A] = f[x] + t[A \ {x}]

(* When the segments of one socket change, the totals change by as much.   *)
LEMMA TotalsChange ==
  ASSUME NEW f \in [SegSocks -> Nat], NEW t, Totals(t, f), NEW s \in SegSocks, NEW d \in Int, f[s] + d \in Nat
  PROVE  \E r : Totals(r, [f EXCEPT ![s] = f[s] + d]) /\ r[SegSocks] = t[SegSocks] + d
<1> DEFINE g == [f EXCEPT ![s] = f[s] + d]
           r == [A \in SUBSET SegSocks |-> IF s \in A THEN t[A] + d ELSE t[A]]
<1>1. g \in [SegSocks -> Nat] /\ g[s] = f[s] + d /\ \A x \in SegSocks : x # s => g[x] = f[x]
  OBVIOUS
<1>2. ASSUME NEW A \in SUBSET SegSocks PROVE r[A] \in Nat
  <2>1. CASE s \in A
    <3>1. t[A] = f[s] + t[A \ {s}] /\ t[A \ {s}] \in Nat /\ f[s] \in Nat /\ t[A] \in Nat
      BY <2>1 DEF Totals
    <3>2. t[A] + d \in Nat
      BY <3>1
    <3> QED
      BY <2>1, <3>2
  <2>2. CASE s \notin A
    BY <2>2 DEF Totals
  <2> QED
    BY <2>1, <2>2
<1>3. ASSUME NEW A \in SUBSET SegSocks, NEW x \in A PROVE r[A] = g[x] + r[A \ {x}]
  <2>1. /\ A \ {x} \in SUBSET SegSocks /\ t[A] = f[x] + t[A \ {x}] /\ x \in SegSocks
        /\ t[A] \in Nat /\ t[A \ {x}] \in Nat /\ f[x] \in Nat
    BY DEF Totals
  <2>2. r[A] = (IF s \in A THEN t[A] + d ELSE t[A]) /\ r[A \ {x}] = IF s \in A \ {x} THEN t[A \ {x}] + d ELSE t[A \ {x}]
    BY <2>1
  <2> HIDE DEF r, g
  <2>3. CASE x = s
    <3>1. r[A] = t[A] + d /\ r[A \ {x}] = t[A \ {x}] /\ g[x] = f[x] + d
      BY <1>1, <2>2, <2>3
    <3> QED
      BY <2>1, <3>1
  <2>4. CASE x # s /\ s \in A
    <3>1. r[A] = t[A] + d /\ r[A \ {x}] = t[A \ {x}] + d /\ g[x] = f[x]
      BY <1>1, <2>1, <2>2, <2>4
    <3> QED
      BY <2>1, <3>1
  <2>5. CASE s \notin A
    <3>1. r[A] = t[A] /\ r[A \ {x}] = t[A \ {x}] /\ g[x] = f[x]
      BY <1>1, <2>1, <2>2, <2>5
    <3> QED
      BY <2>1, <3>1
  <2> QED
    BY <2>3, <2>4, <2>5
<1>4. r \in [SUBSET SegSocks -> Nat]
  BY <1>2
<1>5. r[{}] = 0 /\ r[SegSocks] = t[SegSocks] + d
  BY DEF Totals
<1>6. Totals(r, g)
  <2> HIDE DEF r, g
  <2> QED
    BY <1>3, <1>4, <1>5 DEF Totals
<1> QED
  BY <1>5, <1>6

(* SumSegs is the total: a smallest set of sockets on which the two        *)
(* differed would be neither empty nor larger than a smaller one by one.   *)
LEMMA SumIsTotal ==
  ASSUME NEW t, Totals(t, segs)
  PROVE  SumSegs = t[SegSocks]
<1> DEFINE Def(g) == g = [A \in SUBSET SegSocks |->
                            IF A = {} THEN 0 ELSE LET a == CHOOSE x \in A : TRUE IN segs[a] + g[A \ {a}]]
<1>1. Def(t)
  <2>1. ASSUME NEW A \in SUBSET SegSocks, A # {}
        PROVE  t[A] = segs[CHOOSE x \in A : TRUE] + t[A \ {CHOOSE x \in A : TRUE}]
    <3>1. (CHOOSE x \in A : TRUE) \in A
      BY <2>1
    <3> QED
      BY <3>1 DEF Totals
  <2>2. t = [A \in SUBSET SegSocks |-> t[A]]
    BY DEF Totals
  <2>3. t[{}] = 0
    BY DEF Totals
  <2> QED
    BY <2>1, <2>2, <2>3
<1>2. Def(SegsOf)
  <2>1. SegsOf = CHOOSE g : Def(g)
    BY DEF SegsOf
  <2> HIDE DEF Def
  <2> QED
    BY <1>1, <2>1
<1> DEFINE Diff == {A \in SUBSET SegSocks : SegsOf[A] # t[A]}
<1>3. CASE Diff = {}
  BY <1>3 DEF SumSegs
<1>4. ASSUME Diff # {} PROVE FALSE
  <2>1. IsWellFoundedOn(StrictSubsetOrdering(SegSocks), SUBSET SegSocks)
    BY FS_StrictSubsetOrderingWellFounded, FS_FiniteSubsetsOfFinite, BufAssumption
  <2>2. PICK A \in Diff : \A B \in Diff : ~(<<B, A>> \in StrictSubsetOrdering(SegSocks))
    <3>1. Diff \subseteq SUBSET SegSocks
      OBVIOUS
    <3> HIDE DEF Diff
    <3> QED
      BY <1>4, <2>1, <3>1, WFMin
  <2>3. A \in SUBSET SegSocks /\ SegsOf[A] # t[A]
    OBVIOUS
  <2>4. A # {}
    BY <1>1, <1>2, <2>3
  <2> DEFINE x == CHOOSE y \in A : TRUE
  <2>5. x \in A
    BY <2>4
  <2>6. SegsOf[A] = segs[x] + SegsOf[A \ {x}] /\ t[A] = segs[x] + t[A \ {x}]
    BY <1>1, <1>2, <2>3, <2>4
  <2> HIDE DEF x, Def
  <2>7. A \ {x} \in SUBSET SegSocks /\ A \ {x} \subseteq A /\ A \ {x} # A
    BY <2>3, <2>5
  <2>8. <<A \ {x}, A>> \in StrictSubsetOrdering(SegSocks)
    BY <2>3, <2>7 DEF StrictSubsetOrdering
  <2>9. A \ {x} \notin Diff
    BY <2>2, <2>8
  <2>10. SegsOf[A \ {x}] = t[A \ {x}]
    BY <2>7, <2>9
  <2> QED
    BY <2>3, <2>6, <2>10
<1> QED
  BY <1>3, <1>4

-----------------------------------------------------------------------------
(* The segments and the send buffer, with the totals as witness.           *)
SegInv ==
  /\ pool \in Nat /\ segs \in [SegSocks -> Nat] /\ used \in [SegSocks -> Nat]
  /\ \A s \in SegSocks : used[s] <= segs[s]
  /\ \E t : Totals(t, segs) /\ pool = Segs - t[SegSocks]
SndInv ==
  /\ sndMax \in Nat /\ sndBuf \in Nat /\ inflight \in Nat /\ sndMax = sndBuf + inflight

(* What moves d segments between the pool and a socket keeps them all.     *)
LEMMA SegsMove ==
  ASSUME SegInv, NEW s \in SegSocks, NEW d \in Int, segs[s] + d \in Nat, pool - d \in Nat,
         segs' = [segs EXCEPT ![s] = segs[s] + d], pool' = pool - d,
         NEW u \in Nat, used' = [used EXCEPT ![s] = u], u <= segs[s] + d
  PROVE  SegInv'
<1>1. PICK t : Totals(t, segs) /\ pool = Segs - t[SegSocks]
  BY DEF SegInv
<1>2. PICK r : Totals(r, segs') /\ r[SegSocks] = t[SegSocks] + d
  <2>1. segs \in [SegSocks -> Nat]
    BY DEF SegInv
  <2>2. \E r : Totals(r, [segs EXCEPT ![s] = segs[s] + d]) /\ r[SegSocks] = t[SegSocks] + d
    BY <1>1, <2>1, TotalsChange
  <2> QED
    BY <2>2
<1>3. t[SegSocks] \in Nat
  BY <1>1 DEF Totals
<1>4. pool' = Segs - r[SegSocks]
  BY <1>1, <1>2, <1>3, BufAssumption
<1>5. \A x \in SegSocks : used'[x] <= segs'[x]
  BY DEF SegInv
<1>6. segs' \in [SegSocks -> Nat] /\ used' \in [SegSocks -> Nat] /\ pool' \in Nat
  BY DEF SegInv
<1> QED
  BY <1>2, <1>4, <1>5, <1>6 DEF SegInv

(* Every step keeps the segments.                                          *)
LEMMA SegStep == SegInv /\ [BufNext]_bufVars => SegInv'
<1> SUFFICES ASSUME SegInv, [BufNext]_bufVars PROVE SegInv'
  OBVIOUS
<1> USE BufAssumption
<1>1. ASSUME UNCHANGED segVars PROVE SegInv'
  BY <1>1 DEF SegInv, segVars
<1>2. ASSUME NEW s \in SegSocks, get_tcp_seg(s) PROVE SegInv'
  <2>1. segs[s] \in Nat /\ used[s] \in Nat /\ used[s] <= segs[s] /\ pool \in Nat /\ segs = [segs EXCEPT ![s] = segs[s] + 0]
    BY DEF SegInv
  <2>2. used' = [used EXCEPT ![s] = used[s] + 1]
    BY <1>2 DEF get_tcp_seg
  <2>3. CASE segs[s] = used[s]
    <3>1. pool >= Comp /\ pool' = pool - Comp /\ segs' = [segs EXCEPT ![s] = segs[s] + Comp]
      BY <1>2, <2>3 DEF get_tcp_seg
    <3>2. segs[s] + Comp \in Nat /\ pool - Comp \in Nat /\ used[s] + 1 \in Nat /\ used[s] + 1 <= segs[s] + Comp /\ Comp \in Int
      BY <2>1, <2>3, <3>1
    <3> QED
      BY <2>2, <3>1, <3>2, SegsMove
  <2>4. CASE segs[s] # used[s]
    <3>1. pool' = pool - 0 /\ segs' = [segs EXCEPT ![s] = segs[s] + 0]
      BY <1>2, <2>1, <2>4 DEF get_tcp_seg
    <3>2. segs[s] + 0 \in Nat /\ pool - 0 \in Nat /\ used[s] + 1 \in Nat /\ used[s] + 1 <= segs[s] + 0 /\ 0 \in Int
      BY <2>1, <2>4
    <3> QED
      BY <2>2, <3>1, <3>2, SegsMove
  <2> QED
    BY <2>3, <2>4
<1>3. ASSUME NEW s \in SegSocks, put_tcp_seg(s) PROVE SegInv'
  <2> DEFINE u == used[s] - 1
             back == IF segs[s] > 2 * Comp /\ u < segs[s] \div 2 THEN (segs[s] - u) \div 2 ELSE 0
  <2>1. segs[s] \in Nat /\ used[s] \in Nat /\ used[s] <= segs[s] /\ pool \in Nat
    BY DEF SegInv
  <2>2. used[s] > 0 /\ used' = [used EXCEPT ![s] = u] /\ segs' = [segs EXCEPT ![s] = @ - back] /\ pool' = pool + back
    BY <1>3 DEF put_tcp_seg
  <2>3. u \in Nat /\ u <= segs[s]
    BY <2>1, <2>2
  <2> HIDE DEF u
  <2>4. back \in Nat /\ back <= segs[s] - u
    <3>1. segs[s] - u \in Nat
      BY <2>1, <2>3
    <3>2. \A n \in Nat : n \div 2 \in Nat /\ n \div 2 <= n
      OBVIOUS
    <3>3. (segs[s] - u) \div 2 \in Nat /\ (segs[s] - u) \div 2 <= segs[s] - u
      BY <3>1, <3>2
    <3> QED
      BY <3>1, <3>3
  <2> HIDE DEF back
  <2> DEFINE d == 0 - back
  <2>5. d \in Int /\ segs[s] + d = segs[s] - back /\ pool - d = pool + back /\ segs[s] + d \in Nat /\ pool - d \in Nat /\ u <= segs[s] + d
    BY <2>1, <2>3, <2>4
  <2>6. segs' = [segs EXCEPT ![s] = segs[s] + d] /\ pool' = pool - d
    BY <2>2, <2>5
  <2> HIDE DEF d
  <2> QED
    BY <2>2, <2>3, <2>5, <2>6, SegsMove
<1>4. ASSUME NEW s \in SegSocks, FreeSegs(s) PROVE SegInv'
  <2> DEFINE d == 0 - segs[s]
  <2>1. segs[s] \in Nat /\ used[s] = 0 /\ pool \in Nat
    BY <1>4 DEF SegInv, FreeSegs
  <2>2. d \in Int /\ segs[s] + d = 0 /\ pool - d = pool + segs[s] /\ segs[s] + d \in Nat /\ pool - d \in Nat /\ 0 <= segs[s] + d
    BY <2>1
  <2>3. segs' = [segs EXCEPT ![s] = 0] /\ pool' = pool + segs[s] /\ used' = used
    BY <1>4 DEF FreeSegs
  <2>4. used' = [used EXCEPT ![s] = 0]
    BY <2>1, <2>3 DEF SegInv
  <2>5. segs' = [segs EXCEPT ![s] = segs[s] + d] /\ pool' = pool - d
    BY <2>2, <2>3
  <2> HIDE DEF d
  <2> QED
    BY <2>2, <2>4, <2>5, SegsMove
<1>5. CASE \E s \in SegSocks : get_tcp_seg(s) \/ put_tcp_seg(s) \/ FreeSegs(s)
  BY <1>2, <1>3, <1>4, <1>5
<1>6. CASE connect_lwip_cb \/ SetRcvBuf \/ HalfClosed \/ rx_lwip_cb \/ rx \/ zero_copy_rx \/ free_packets
  BY <1>1, <1>6 DEF connect_lwip_cb, SetRcvBuf, HalfClosed, rx_lwip_cb, rx, zero_copy_rx, free_packets
<1>7. CASE return_reuse_buffers_postponed \/ return_pending_rx_buffs \/ fit_snd_bufs \/ SendBytes \/ Acked
  BY <1>1, <1>7 DEF return_reuse_buffers_postponed, return_pending_rx_buffs, fit_snd_bufs, SendBytes, Acked
<1>8. CASE UNCHANGED bufVars
  BY <1>1, <1>8 DEF bufVars
<1> QED
  BY <1>5, <1>6, <1>7, <1>8 DEF BufNext

(* Every step keeps the send buffer whole.                                 *)
LEMMA SndStep == SndInv /\ [BufNext]_bufVars => SndInv'
<1> SUFFICES ASSUME SndInv, [BufNext]_bufVars PROVE SndInv'
  OBVIOUS
<1>1. ASSUME UNCHANGED sndVars PROVE SndInv'
  BY <1>1 DEF SndInv, sndVars
<1>2. CASE fit_snd_bufs
  BY <1>2, BufAssumption DEF SndInv, fit_snd_bufs
<1>3. CASE SendBytes
  BY <1>3 DEF SndInv, SendBytes
<1>4. CASE Acked
  BY <1>4 DEF SndInv, Acked
<1>5. CASE \E s \in SegSocks : get_tcp_seg(s) \/ put_tcp_seg(s) \/ FreeSegs(s)
  BY <1>1, <1>5 DEF get_tcp_seg, put_tcp_seg, FreeSegs
<1>6. CASE connect_lwip_cb \/ SetRcvBuf \/ HalfClosed \/ rx_lwip_cb \/ rx \/ zero_copy_rx \/ free_packets
  BY <1>1, <1>6 DEF connect_lwip_cb, SetRcvBuf, HalfClosed, rx_lwip_cb, rx, zero_copy_rx, free_packets
<1>7. CASE return_reuse_buffers_postponed \/ return_pending_rx_buffs
  BY <1>1, <1>7 DEF return_reuse_buffers_postponed, return_pending_rx_buffs
<1>8. CASE UNCHANGED bufVars
  BY <1>1, <1>8 DEF bufVars
<1> QED
  BY <1>2, <1>3, <1>4, <1>5, <1>6, <1>7, <1>8 DEF BufNext

(* get_tcp_seg, put_tcp_seg and ~sockinfo_tcp neither lose nor invent a    *)
(* segment of the pool, a socket never uses more than it has, and the send *)
(* buffer and the bytes in flight stay whole: for any number of sockets.   *)
THEOREM SegmentsAreAccounted == BufSpec => []SegsAccounted
<1>1. BufInit => SegInv /\ SndInv
  <2> SUFFICES ASSUME BufInit PROVE SegInv /\ SndInv
    OBVIOUS
  <2> DEFINE t == [A \in SUBSET SegSocks |-> 0]
  <2>1. Totals(t, segs)
    BY DEF BufInit, Totals
  <2>2. pool = Segs - t[SegSocks]
    BY BufAssumption DEF BufInit
  <2>3. /\ pool \in Nat /\ segs \in [SegSocks -> Nat] /\ used \in [SegSocks -> Nat]
        /\ \A s \in SegSocks : used[s] <= segs[s]
    BY BufAssumption DEF BufInit
  <2> HIDE DEF t
  <2> QED
    BY <2>1, <2>2, <2>3, BufAssumption DEF BufInit, SegInv, SndInv
<1>2. (SegInv /\ SndInv) /\ [BufNext]_bufVars => (SegInv /\ SndInv)'
  BY SegStep, SndStep
<1>3. SegInv /\ SndInv => SegsAccounted
  <2> SUFFICES ASSUME SegInv, SndInv PROVE SegsAccounted
    OBVIOUS
  <2>1. PICK t : Totals(t, segs) /\ pool = Segs - t[SegSocks]
    BY DEF SegInv
  <2>2. SumSegs = t[SegSocks] /\ t[SegSocks] \in Nat
    BY <2>1, SumIsTotal DEF Totals
  <2>3. pool + SumSegs = Segs
    BY <2>1, <2>2, BufAssumption
  <2> QED
    BY <2>3 DEF SegInv, SndInv, SegsAccounted
<1> QED
  BY <1>1, <1>2, <1>3, PTL DEF BufSpec

=============================================================================
