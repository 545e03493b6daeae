------------------------------ MODULE TcpConn ------------------------------
(***************************************************************************)
(* One sockinfo_tcp: the calls of the application on it, the callbacks of  *)
(* its pcb, its timer, blocking, and what epoll is told.  Everything under *)
(* m_tcp_con_lock is the record s, and an operation is a function from     *)
(* such records to such records, so a callback inside a call is part of    *)
(* the call.  A step is what a thread does while it holds the lock.        *)
(*                                                                         *)
(* Threads: "app" binds, connects, listens, sends and receives; another    *)
(* one shuts down, closes and waits in epoll; the internal thread runs the *)
(* timer; others poll the ring and bring the packets of the peer.          *)
(***************************************************************************)
EXTENDS Integers, FiniteSets

CONSTANTS
  SndBuf,   \* the send buffer, in writes
  MaxReady, \* bound: packets in the ready list
  MaxPkts   \* bound: packets of the peer

VARIABLES
  s,         \* the socket, see New
  blocking,  \* m_b_blocking
  deferred,  \* internal_thread_tcp_timer_handling is DEFERRED
  app,       \* the application's thread: place, and bytes left to send
  fresh,     \* poll_sn is current: nobody polled the ring since "app" did
  armed, event, \* the completion channel is armed; has an event
  closing,   \* the closing thread: "no", "linger", "done"
  pkts

connVars == <<s, blocking, deferred, app, fresh, armed, event, closing, pkts>>

Active == {"SYN_SENT", "ESTABLISHED", "CLOSE_WAIT", "FIN_WAIT_1", "FIN_WAIT_2", "CLOSING", "LAST_ACK"}
Connected == {"RD", "WR", "RDWR"}
Server == {"ACCEPT_READY", "ACCEPT_SHUT"}

(* off: m_sock_offload; sock, conn: m_sock_state, m_conn_state; rxclosed:  *)
(* TF_RXCLOSED; drop: the receive callback is rx_drop_lwip_cb; space:      *)
(* tcp_sndbuf; told: events given to epoll; binds (up to 2), fin: history. *)
New == [off |-> TRUE, sock |-> "INITED", conn |-> "INIT", pcb |-> "CLOSED", rxclosed |-> FALSE,
        drop |-> FALSE, ready |-> 0, space |-> SndBuf, err |-> "0", report |-> FALSE,
        timer |-> FALSE, pending |-> FALSE, told |-> {}, asleep |-> FALSE, wakefd |-> FALSE,
        binds |-> 0, fin |-> FALSE]

Init ==
  /\ s = New /\ blocking \in BOOLEAN /\ deferred \in BOOLEAN /\ app = [pc |-> "idle", left |-> 0, by |-> "idle"]
  /\ fresh = FALSE /\ armed = FALSE /\ event = FALSE /\ closing = "no" /\ pkts = 0

-----------------------------------------------------------------------------
is_rtr(x) == x.ready > 0 \/ x.sock \in {"RD", "RDWR"}
is_rts(x) == x.sock \in {"WR", "RDWR"}
set_events(x, E) == [x EXCEPT !.told = @ \cup E]
do_wakeup(x) == [x EXCEPT !.wakefd = @ \/ x.asleep]
Unacked(x) == x.space < SndBuf \/ x.pcb \in {"SYN_SENT", "FIN_WAIT_1", "CLOSING", "LAST_ACK"}

(* What connect_lwip_cb does when the connection is up.                    *)
connect_lwip_cb(x) ==
  IF x.conn = "TIMEOUT" THEN [x EXCEPT !.err = "ETIMEDOUT"]
  ELSE do_wakeup(set_events([x EXCEPT !.conn = "CONNECTED", !.sock = "RDWR", !.err = "0"], {"OUT"}))

(* The connection is dead.  The state of a socket that was bound by hand   *)
(* is kept, "to avoid binding twice".                                      *)
err_lwip_cb(x, e) ==
  LET async == x.sock = "ASYNC"
      tells == (x.sock \in {"RD", "RDWR", "ASYNC"} \/ x.conn = "CONNECTING") /\ x.pcb \in Active
      E == CASE e = "RST" /\ async -> {"IN", "ERR", "HUP"} [] e = "RST" /\ ~async -> {"IN", "HUP", "RDHUP"}
             [] e # "RST" -> {"IN", "HUP"}
  IN do_wakeup([x EXCEPT
       !.told = IF tells THEN @ \cup E ELSE @,
       !.conn = CASE e = "TIMEOUT" -> "TIMEOUT" [] e = "RST" /\ async -> "ERROR"
                  [] e = "RST" /\ ~async -> "RESETED" [] e = "ABRT" -> "FAILED",
       !.err = CASE e = "TIMEOUT" -> "ETIMEDOUT" [] e = "RST" /\ async -> "ECONNREFUSED"
                 [] e = "ABRT" \/ (e = "RST" /\ ~async) -> @,
       !.sock = IF @ = "BOUND" THEN @ ELSE "INITED",
       !.timer = FALSE])

Gone(x) == [x EXCEPT !.pcb = "CLOSED", !.space = SndBuf]
tcp_abort(x) == IF x.pcb = "CLOSED" THEN x ELSE err_lwip_cb(Gone(x), "ABRT")

(* rx_lwip_cb without data: the peer will send no more.                    *)
GotFin(x) ==
  LET y == do_wakeup(set_events([x EXCEPT !.rxclosed = TRUE, !.drop = TRUE], {"IN", "RDHUP"})) IN
  IF x.drop THEN x
  ELSE [y EXCEPT !.sock = IF is_rts(x) \/ (x.sock = "ASYNC" /\ x.conn = "CONNECTED") THEN "WR" ELSE "BOUND"]

(* rx_lwip_cb with data, and lwIP's answer to data after the end.          *)
rx_lwip_cb(x) ==
  IF x.rxclosed THEN tcp_abort(x)
  ELSE do_wakeup(set_events([x EXCEPT !.ready = @ + 1], {"IN"}))

ack_recvd_lwip_cb(x) == IF x.drop THEN x ELSE set_events(x, {"OUT"})

(* tcp_close_shutdown: the sending side is closed.                         *)
tcp_close_shutdown(x) ==
  CASE x.pcb \in {"LISTEN", "SYN_SENT"} -> Gone(x)
    [] x.pcb = "ESTABLISHED" -> [x EXCEPT !.pcb = "FIN_WAIT_1"]
    [] x.pcb = "CLOSE_WAIT" -> [x EXCEPT !.pcb = "LAST_ACK"]
    [] x.pcb \notin {"LISTEN", "SYN_SENT", "ESTABLISHED", "CLOSE_WAIT"} -> x
tcp_shutdown(x, rx, tx) ==
  LET y == IF rx THEN [x EXCEPT !.rxclosed = TRUE] ELSE x IN
  IF tx /\ (rx \/ x.pcb \in {"ESTABLISHED", "CLOSE_WAIT"}) THEN tcp_close_shutdown(y) ELSE y

-----------------------------------------------------------------------------
(* tcp_process and the callbacks of L3_level_tcp_input, for a packet the   *)
(* peer sends in the state the connection is in.                           *)
Acked(x) ==
  LET y == IF x.space < SndBuf THEN ack_recvd_lwip_cb([x EXCEPT !.space = SndBuf]) ELSE x IN
  CASE x.pcb = "FIN_WAIT_1" -> [y EXCEPT !.pcb = "FIN_WAIT_2"]
    [] x.pcb = "CLOSING" -> [y EXCEPT !.pcb = "TIME_WAIT"]
    [] x.pcb = "LAST_ACK" -> Gone(x)
    [] x.pcb \notin {"FIN_WAIT_1", "CLOSING", "LAST_ACK"} -> y
Fin(x) ==
  LET y == [x EXCEPT !.fin = TRUE] IN
  CASE x.pcb = "ESTABLISHED" -> GotFin([y EXCEPT !.pcb = "CLOSE_WAIT"])
    [] x.pcb = "FIN_WAIT_1" -> GotFin([y EXCEPT !.pcb = "CLOSING"])
    [] x.pcb = "FIN_WAIT_2" -> GotFin([y EXCEPT !.pcb = "TIME_WAIT"])
    [] x.pcb \notin {"ESTABLISHED", "FIN_WAIT_1", "FIN_WAIT_2"} -> x

tcp_input(x, k) ==
  CASE x.pcb = "SYN_SENT" -> (CASE k = "SYNACK" -> connect_lwip_cb([x EXCEPT !.pcb = "ESTABLISHED"])
                                [] k = "RST" -> Gone(err_lwip_cb(x, "RST"))
                                [] k \notin {"SYNACK", "RST"} -> x)
    [] x.pcb \in Active \ {"SYN_SENT"} ->
                               (CASE k = "RST" -> Gone(err_lwip_cb(x, "RST"))
                                  [] k = "ACK" -> Acked(x)
                                  [] k = "FIN" -> Fin(x)
                                  [] k = "DATA" /\ ~x.fin -> rx_lwip_cb(x)
                                  [] k = "SYNACK" \/ (k = "DATA" /\ x.fin) -> x)
    [] x.pcb \notin Active -> x
Kinds == {"SYNACK", "RST", "ACK", "FIN", "DATA"}

(* What tcp_tmr may do, the counters of retries and of ticks abstracted: a *)
(* connection attempt, a retransmission or a closing state runs out.       *)
tcp_tmr(x) ==
  {x} \cup (IF x.pcb = "SYN_SENT" THEN {Gone(err_lwip_cb(x, "TIMEOUT"))} ELSE {})
      \cup (IF x.pcb \in Active \ {"SYN_SENT"} /\ (Unacked(x) \/ (x.pcb = "FIN_WAIT_2" /\ x.rxclosed))
            THEN {Gone(err_lwip_cb(x, "ABRT"))} ELSE {})
      \cup (IF x.pcb = "TIME_WAIT" THEN {Gone(x)} ELSE {})
tcp_timer(x) == {[y EXCEPT !.pending = FALSE] : y \in tcp_tmr(x)}
(* unlock_tcp_con runs a timer that is due.                                *)
unlock_tcp_con(x) == IF x.pending THEN tcp_timer(x) ELSE {x}

-----------------------------------------------------------------------------
At(p) == app.pc = p
Go(p) == app' = [app EXCEPT !.pc = p]
Under(x) == s' \in unlock_tcp_con(x)
Rest == UNCHANGED <<blocking, deferred, fresh, armed, event, closing, pkts>>
(* A call that ends at once.                                               *)
Call(x) == At("idle") /\ closing = "no" /\ Under(x) /\ UNCHANGED app /\ Rest

(* bind: the system's bind may fail; an address of no known device leaves  *)
(* the socket to the system.                                               *)
Bound(x) == {[x EXCEPT !.sock = "BOUND", !.binds = @ + 1],
             [x EXCEPT !.sock = "BOUND", !.binds = @ + 1, !.off = FALSE],
             [x EXCEPT !.off = FALSE], x}
bind == s.sock = "INITED" /\ s.binds = 0 /\ \E x \in Bound(s) : Call(x)

prepareListen ==
  /\ s.off /\ s.sock = "BOUND" /\ s.pcb = "CLOSED" /\ s.conn = "INIT"
  /\ \/ Call([s EXCEPT !.sock = "LISTEN_READY"])
     \/ Call([s EXCEPT !.sock = "ACCEPT_READY", !.off = FALSE])

(* listen: without a ring the system takes over.                           *)
listen ==
  /\ s.off /\ s.sock = "LISTEN_READY"
  /\ \/ Call([s EXCEPT !.sock = "ACCEPT_READY", !.pcb = "LISTEN", !.timer = TRUE])
     \/ Call([s EXCEPT !.sock = "ACCEPT_READY", !.pcb = "LISTEN", !.off = FALSE])

(* connect: a socket that is connected, or about to be, only reports.      *)
ConnectAgain ==
  /\ s.off /\ s.sock \notin {"INITED", "BOUND"}
  /\ Call(IF s.sock \in Connected /\ s.report THEN [s EXCEPT !.report = FALSE] ELSE s)

Rebound == IF s.sock = "BOUND" THEN s ELSE [s EXCEPT !.sock = "BOUND", !.binds = IF @ = 2 THEN 2 ELSE @ + 1]
(* Assumption: the application connects again only after an attempt failed,*)
(* or a connection it has read to the end was reset.                       *)
Reusable == s.pcb = "CLOSED" /\ s.ready = 0 /\ ~s.rxclosed
Connecting(x) == [x EXCEPT !.conn = "CONNECTING", !.pcb = "SYN_SENT", !.timer = TRUE]
connect ==
  /\ At("idle") /\ closing = "no" /\ s.off /\ s.sock \in {"INITED", "BOUND"} /\ Reusable
  /\ \/ Under([Rebound EXCEPT !.off = FALSE]) /\ UNCHANGED app
     \/ /\ ~blocking /\ UNCHANGED app
        /\ Under([Connecting(Rebound) EXCEPT !.err = "EINPROGRESS", !.sock = "ASYNC", !.report = TRUE])
     \/ blocking /\ s' = Connecting(Rebound) /\ Go("conn")
  /\ Rest

(* wait_for_conn_ready, at the head of its loop, with the lock.            *)
wait_for_conn_ready ==
  /\ At("conn")
  /\ \/ /\ s.conn = "CONNECTING" /\ s.sock # "INITED" /\ Under(s)
        /\ app' = [app EXCEPT !.pc = "poll", !.by = "conn"]
     \/ /\ ~(s.conn = "CONNECTING" /\ s.sock # "INITED") /\ Go("idle")
        /\ Under(CASE s.sock = "INITED" -> [s EXCEPT !.conn = "FAILED", !.sock = "BOUND"]
                   [] s.sock # "INITED" /\ s.conn = "CONNECTED" -> [s EXCEPT !.sock = "RDWR"]
                   [] s.sock # "INITED" /\ s.conn # "CONNECTED" -> [s EXCEPT !.conn = "FAILED"])
  /\ Rest

-----------------------------------------------------------------------------
(* rx: without the lock until something is there.                          *)
rx ==
  /\ s.off /\ s.pcb # "LISTEN" /\ closing = "no"
  /\ \/ At("idle") /\ s.conn # "INIT" /\ Go("rx") /\ UNCHANGED s
     \/ At("rx") /\ s.ready > 0 /\ Under([s EXCEPT !.ready = @ - 1]) /\ Go("idle")
     \/ At("rx") /\ s.ready = 0 /\ is_rtr(s) /\ app' = [app EXCEPT !.pc = "poll", !.by = "rx"] /\ UNCHANGED s
     \/ At("rx") /\ ~is_rtr(s) /\ Go("rxerr") /\ UNCHANGED s
  /\ Rest
handle_rx_error ==
  /\ At("rxerr") /\ Go("idle") /\ Rest
  /\ Under(IF ~is_rtr(s) /\ s.conn = "RESETED" THEN [s EXCEPT !.conn = "FAILED"] ELSE s)

(* tx: one write after the other, until the buffer is full or there is no  *)
(* memory.                                                                 *)
tx ==
  /\ At("idle") /\ closing = "no" /\ s.off /\ is_rts(s) /\ UNCHANGED s /\ Rest
  /\ \E n \in 1..(SndBuf + 1) : app' = [app EXCEPT !.pc = "tx", !.left = n]
TxWrite ==
  /\ At("tx") /\ Rest
  /\ \/ /\ s.space > 0 /\ is_rts(s) /\ s.pcb \in {"ESTABLISHED", "CLOSE_WAIT"} /\ Under([s EXCEPT !.space = @ - 1])
        /\ app' = [app EXCEPT !.left = @ - 1, !.pc = IF app.left = 1 THEN "idle" ELSE "tx"]
     \/ /\ s.space > 0 /\ is_rts(s) /\ s.pcb \notin {"ESTABLISHED", "CLOSE_WAIT"} /\ Go("idle")
        /\ Under(tcp_shutdown([s EXCEPT !.sock = IF @ = "RDWR" THEN "RD" ELSE "BOUND"], FALSE, TRUE))
     \/ ~is_rts(s) /\ Under(s) /\ Go("idle")
     \/ is_rts(s) /\ ~blocking /\ Under(s) /\ Go("idle")
     \/ is_rts(s) /\ blocking /\ Under(s) /\ app' = [app EXCEPT !.pc = "poll", !.by = "tx"]

-----------------------------------------------------------------------------
(* rx_wait_helper: poll, arm, look again, sleep.  tx_wait resets its count *)
(* of polls and never goes on to sleep.                                    *)
Poll ==
  /\ At("poll") /\ fresh' = TRUE
  /\ Go(IF ~blocking THEN "idle" ELSE IF app.by = "tx" THEN "tx" ELSE "arm")
  /\ UNCHANGED <<s, blocking, deferred, armed, event, closing, pkts>>
PollAgain == At("arm") /\ Go(app.by) /\ UNCHANGED s /\ Rest
Arm ==
  /\ At("arm") /\ armed' = (armed \/ fresh) /\ Go(IF fresh THEN "check" ELSE app.by)
  /\ UNCHANGED <<s, blocking, deferred, fresh, event, closing, pkts>>
SleepCheck ==
  /\ At("check") /\ Rest
  /\ \/ s.ready = 0 /\ Under([s EXCEPT !.asleep = TRUE]) /\ Go("sleep")
     \/ s.ready > 0 /\ Under(s) /\ Go(app.by)
Wakes ==
  /\ At("sleep") /\ (s.wakefd \/ event) /\ Go(app.by)
  /\ Under([s EXCEPT !.asleep = FALSE, !.wakefd = FALSE]) /\ event' = FALSE
  /\ UNCHANGED <<blocking, deferred, fresh, armed, closing, pkts>>

(* A packet, processed under the lock by whoever polls the ring.           *)
rx_input_cb(k) ==
  /\ pkts < MaxPkts /\ pkts' = pkts + 1 /\ (k = "DATA" => s.ready < MaxReady) /\ s.pcb \notin {"CLOSED", "LISTEN"}
  /\ Under(tcp_input(s, k)) /\ fresh' = FALSE /\ event' = (event \/ armed) /\ armed' = FALSE
  /\ UNCHANGED <<blocking, deferred, app, closing>>

-----------------------------------------------------------------------------
(* handle_timer_expired: the trylock fails while somebody has the lock.    *)
TimerFails ==
  /\ s.timer /\ s' = [s EXCEPT !.pending = TRUE] /\ UNCHANGED app /\ Rest
handle_timer_expired ==
  /\ s.timer /\ UNCHANGED app /\ Rest
  /\ IF deferred /\ ~s.pending THEN s' = [s EXCEPT !.pending = TRUE]
     ELSE s' \in {[y EXCEPT !.pending = deferred] : y \in tcp_timer(s)}

(* epoll_wait looks at what it was told of.                                *)
is_readable(x) == x.sock # "ASYNC" /\ (x.ready > 0 \/ ~is_rtr(x))
is_writeable(x) == IF x.sock = "ASYNC" THEN x.conn # "CONNECTING" ELSE ~is_rts(x) \/ x.space > 0
EpollWait ==
  /\ s.told # {} /\ closing = "no" /\ UNCHANGED app /\ Rest
  /\ LET x == IF "OUT" \in s.told /\ s.sock = "ASYNC" /\ s.conn # "CONNECTING"
              THEN [s EXCEPT !.sock = IF s.conn = "CONNECTED" THEN "RDWR" ELSE "INITED"] ELSE s
     IN s' = [x EXCEPT !.told = {e \in @ : (e = "IN" /\ is_readable(x)) \/ (e = "OUT" /\ is_writeable(x))}]

-----------------------------------------------------------------------------
(* shutdown of a connected socket.                                         *)
Shut(x, how) ==
  CASE how = "RD" /\ x.sock = "RDWR" -> set_events([x EXCEPT !.sock = "WR"], {"IN"})
    [] how = "RD" /\ x.sock # "RDWR" -> set_events([x EXCEPT !.sock = "BOUND"], {"IN", "HUP"})
    [] how = "WR" /\ x.sock = "RDWR" -> [x EXCEPT !.sock = "RD"]
    [] how = "WR" /\ x.sock # "RDWR" -> set_events([x EXCEPT !.sock = "BOUND"], {"HUP"})
    [] how = "RDWR" -> set_events([x EXCEPT !.sock = "BOUND"], {"IN", "HUP"})
shutdown(how) ==
  LET rd == how \in {"RD", "RDWR"}
      y == Shut(s, how)
  IN
  /\ closing = "no" /\ s.off
  /\ CASE how = "RD" -> is_rtr(s) [] how = "WR" -> is_rts(s) [] how = "RDWR" -> is_rtr(s) \/ is_rts(s)
  /\ Under(do_wakeup(IF rd /\ s.ready > 0 THEN tcp_abort(y) ELSE tcp_shutdown(y, rd, how # "RD")))
  /\ UNCHANGED app /\ Rest

(* prepare_to_close of a socket that does not listen.                      *)
prepare_to_close ==
  LET x == IF s.sock \in Connected THEN [s EXCEPT !.sock = "BOUND"] ELSE s
      y == [(IF s.ready > 0 THEN tcp_abort(x) ELSE x) EXCEPT !.ready = 0]
      hard == tcp_abort(y)
      soft == [tcp_close_shutdown([y EXCEPT !.rxclosed = TRUE]) EXCEPT !.drop = TRUE]
      end(z) == do_wakeup(set_events(z, {"HUP"}))
  IN
  /\ closing = "no" /\ s.off /\ s.sock \notin Server \cup {"LISTEN_READY"} /\ app.pc # "conn"
  /\ \/ closing' = "done" /\ Under(end(hard))
     \/ closing' = "done" /\ Under(end(soft))
     \/ closing' = "linger" /\ Unacked(soft) /\ s' = soft
  /\ UNCHANGED <<blocking, deferred, app, fresh, armed, event, pkts>>
(* handle_socket_linger polls until all is acknowledged or time is up.     *)
handle_socket_linger ==
  /\ closing = "linger" /\ closing' = "done" /\ Under(do_wakeup(set_events(s, {"HUP"})))
  /\ UNCHANGED <<blocking, deferred, app, fresh, armed, event, pkts>>

Next ==
  \/ bind \/ prepareListen \/ listen \/ ConnectAgain \/ connect \/ wait_for_conn_ready
  \/ rx \/ handle_rx_error \/ tx \/ TxWrite \/ Poll \/ PollAgain \/ Arm \/ SleepCheck \/ Wakes
  \/ (\E k \in Kinds : rx_input_cb(k)) \/ TimerFails \/ handle_timer_expired \/ EpollWait
  \/ (\E h \in {"RD", "WR", "RDWR"} : shutdown(h)) \/ prepare_to_close \/ handle_socket_linger

(* A timer whose socket stays open comes again and again, and retries run  *)
(* out.                                                                    *)
TimerRunsOut == handle_timer_expired /\ s.pcb # "CLOSED" /\ s'.pcb = "CLOSED"
Spec == Init /\ [][Next]_connVars /\ WF_connVars(handle_timer_expired) /\ SF_connVars(TimerRunsOut)

-----------------------------------------------------------------------------
TypeOK ==
  /\ s.sock \in {"INITED", "BOUND", "LISTEN_READY", "ASYNC"} \cup Connected \cup Server
  /\ s.conn \in {"INIT", "CONNECTING", "CONNECTED", "FAILED", "TIMEOUT", "ERROR", "RESETED"}
  /\ s.pcb \in Active \cup {"CLOSED", "LISTEN", "TIME_WAIT"}
  /\ s.ready \in 0..MaxReady /\ s.space \in 0..SndBuf /\ s.told \subseteq {"IN", "OUT", "HUP", "RDHUP", "ERR"}

(* A reader never sleeps beside a packet.                                  *)
DataWakes == s.asleep /\ s.ready > 0 => s.wakefd \/ event

(* epoll knows: a socket that was connected and has data, or whose end was *)
(* reached, is among the ready ones until epoll_wait finds it is not.      *)
ReadableIsTold ==
  closing = "no" /\ s.conn \in {"CONNECTED", "RESETED"} /\ is_readable(s) => "IN" \in s.told

(* The socket state follows the connection: a socket tx() takes data for   *)
(* has a pcb that can send them and a timer that will send them again.     *)
(* (wait_for_conn_ready sets the state of a blocking socket once more, and *)
(* may undo what a FIN or a shutdown made of it.)                          *)
SenderCanSend == ~blocking /\ is_rts(s) => s.pcb \in {"ESTABLISHED", "CLOSE_WAIT"} /\ s.timer

=============================================================================
