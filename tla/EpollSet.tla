------------------------------ MODULE EpollSet ------------------------------
(***************************************************************************)
(* An epoll set (epfd_info) and the threads around it: one that calls      *)
(* epoll_ctl, those that call epoll_wait (epoll_wait_call and the loops of *)
(* io_mux_call), threads that change a socket and then notify the set      *)
(* without a common lock, and the internal thread that watches the set's   *)
(* kernel twin.  A step is a critical section of the set's lock.           *)
(***************************************************************************)
EXTENDS Integers, FiniteSets, Sequences, SequencesExt

CONSTANTS
  Socks,        \* offloaded sockets
  Foreign,      \* those that another epoll set holds
  Waiters,      \* threads that call epoll_wait
  Masks,        \* event masks: [ev : SUBSET {"in", "out"}, et, one : BOOLEAN]
  MaxSize,      \* m_size
  MaxChanges,   \* bound: calls of epoll_ctl
  MaxPackets,   \* bound: datagrams and hang-ups
  MaxWaits      \* bound: calls of epoll_wait

NoMask == [ev |-> {}, et |-> FALSE, one |-> FALSE]

VARIABLES
  sk,           \* per socket: ctx, mask, idx, flags, readable, hup, note
  readyFds,     \* m_ready_fds
  arr,          \* m_p_offloaded_fds
  plain,        \* m_fd_non_offloaded_map
  inOs,         \* fds registered with the kernel's epoll
  ctl,          \* what the thread in epoll_ctl is in the middle of
  w,            \* per waiter: pc, stale poll_sn
  cqs,          \* sockets whose datagrams wait in the completion queue
  cqArmed, cqEvent, wake,
  osData, osSeen, osWatch,    \* kernel data, m_b_os_data_available, the internal thread's registration
  changes, packets, waits

epVars == <<sk, readyFds, arr, plain, inOs, ctl, w, cqs, cqArmed, cqEvent, wake, osData, osSeen, osWatch,
            changes, packets, waits>>
Quiet == [at |-> "idle"]
Asleep == {v \in Waiters : w[v].pc = "asleep"}

EpInit ==
  /\ sk = [x \in Socks |-> [ctx |-> FALSE, mask |-> NoMask, idx |-> 0, flags |-> {},
                            readable |-> FALSE, hup |-> FALSE, note |-> {}]]
  /\ readyFds = <<>> /\ arr = <<>> /\ plain = {} /\ inOs = {} /\ ctl = Quiet
  /\ w = [v \in Waiters |-> [pc |-> "idle", stale |-> TRUE]]
  /\ cqs = <<>> /\ cqArmed = FALSE /\ cqEvent = FALSE /\ wake = FALSE
  /\ osData = FALSE /\ osSeen = FALSE /\ osWatch = TRUE
  /\ changes = 0 /\ packets = 0 /\ waits = 0

-----------------------------------------------------------------------------
(* The set as a value, for the operators that run under its lock.          *)
Set == [sk |-> sk, ready |-> readyFds, wake |-> wake]


(* insert_epoll_event, do_wakeup                                           *)
insert_epoll_event(e, x, fl) ==
  [e EXCEPT !.sk[x].flags = IF x \in Range(e.ready) THEN @ \cup fl ELSE fl,
            !.ready = IF x \in Range(@) THEN @ ELSE Append(@, x),
            !.wake = @ \/ Asleep # {}]

(* insert_epoll_event_cb: hang-ups and errors pass whatever the mask.      *)
insert_epoll_event_cb(e, x, fl) ==
  IF e.sk[x].ctx /\ fl \cap (e.sk[x].mask.ev \cup {"hup"}) # {} THEN insert_epoll_event(e, x, fl) ELSE e

(* remove_epoll_event                                                      *)
remove_epoll_event(e, x, fl) ==
  LET left == e.sk[x].flags \ fl IN
  [e EXCEPT !.sk[x].flags = left, !.ready = IF left = {} THEN SelectSeq(@, LAMBDA y : y # x) ELSE @]

(* handle_epoll_event: a reported event is disarmed (one shot) or removed  *)
(* (edge triggered); an event that is no longer there is removed.          *)
handle_epoll_event(e, x, isReady, fl) ==
  IF ~isReady THEN remove_epoll_event(e, x, fl)
  ELSE LET d == IF e.sk[x].mask.one THEN [e EXCEPT !.sk[x].mask.ev = @ \ fl] ELSE e
       IN IF e.sk[x].mask.et THEN remove_epoll_event(d, x, fl) ELSE d

(* get_current_events, for one socket of the ready list.  A socket is      *)
(* always writeable here.                                                  *)
CurrentEvents(acc, x) ==
  LET m == acc.e.sk[x].flags \cap (acc.e.sk[x].mask.ev \cup {"hup"})
      mutual == IF {"hup", "out"} \subseteq m THEN m \ {"out"} ELSE m
      step(a, fl, is) ==
        IF fl \notin mutual THEN a
        ELSE [e |-> handle_epoll_event(a.e, x, is, {fl}), out |-> IF is THEN a.out \cup {<<x, fl>>} ELSE a.out]
  IN step(step(step(acc, "in", acc.e.sk[x].readable), "out", TRUE), "hup", TRUE)

get_current_events(e) == FoldLeft(CurrentEvents, [e |-> e, out |-> {}], e.ready)

(* Polling the rings: every datagram makes its socket readable and is      *)
(* notified.                                                               *)
ring_poll_and_process_element(e) ==
  FoldLeft(LAMBDA a, x : insert_epoll_event_cb([a EXCEPT !.sk[x].readable = TRUE], x, {"in"}), e, cqs)

(* ring_wait_for_notification_and_process_element: the same for the rings  *)
(* with an event; the wake-up pipe is taken out when nobody sleeps.        *)
ring_wait_for_notification_and_process_element(e) ==
  ring_poll_and_process_element([e EXCEPT !.wake = @ /\ Asleep # {}])

Becomes(e) == sk' = e.sk /\ readyFds' = e.ready /\ wake' = e.wake

-----------------------------------------------------------------------------
(* What makes a socket ready: first the socket changes, then the set is    *)
(* notified by the same thread.                                            *)
ArrivesByOther(x) ==
  /\ \E i \in DOMAIN cqs : cqs[i] = x /\ cqs' = RemoveAt(cqs, i)
  /\ sk' = [sk EXCEPT ![x].readable = TRUE, ![x].note = @ \cup {"in"}]
  /\ w' = [v \in Waiters |-> [w[v] EXCEPT !.stale = TRUE]]
  /\ UNCHANGED <<readyFds, arr, plain, inOs, ctl, cqArmed, cqEvent, wake, osData, osSeen, osWatch, changes, packets, waits>>

HangUp(x) ==
  /\ packets < MaxPackets /\ packets' = packets + 1 /\ ~sk[x].hup
  /\ sk' = [sk EXCEPT ![x].hup = TRUE, ![x].note = @ \cup {"hup"}]
  /\ UNCHANGED <<readyFds, arr, plain, inOs, ctl, w, cqs, cqArmed, cqEvent, wake, osData, osSeen, osWatch, changes, waits>>

notify_epoll_context(x, fl) ==
  /\ fl \in sk[x].note
  /\ Becomes(insert_epoll_event_cb([Set EXCEPT !.sk[x].note = @ \ {fl}], x, {fl}))
  /\ UNCHANGED <<arr, plain, inOs, ctl, w, cqs, cqArmed, cqEvent, osData, osSeen, osWatch, changes, packets, waits>>

Arrives(x) ==
  /\ packets < MaxPackets /\ packets' = packets + 1
  /\ cqs' = Append(cqs, x) /\ cqEvent' = (cqEvent \/ cqArmed) /\ cqArmed' = FALSE
  /\ UNCHANGED <<sk, readyFds, arr, plain, inOs, ctl, w, wake, osData, osSeen, osWatch, changes, waits>>

Reads(x) ==
  /\ sk[x].readable /\ sk' = [sk EXCEPT ![x].readable = FALSE]
  /\ UNCHANGED <<readyFds, arr, plain, inOs, ctl, w, cqs, cqArmed, cqEvent, wake, osData, osSeen, osWatch, changes, packets, waits>>

-----------------------------------------------------------------------------
(* add_fd, up to the release of the lock for add_epoll_context: the kernel *)
(* is told first.                                                          *)
add_fd(x, m) ==
  /\ ctl = Quiet /\ changes < MaxChanges /\ changes' = changes + 1 /\ x \notin inOs
  /\ inOs' = inOs \cup {x}
  /\ ctl' = IF Len(arr) >= MaxSize THEN Quiet ELSE [at |-> "add", x |-> x, m |-> m]
  /\ UNCHANGED <<sk, readyFds, arr, plain, w, cqs, cqArmed, cqEvent, wake, osData, osSeen, osWatch, packets, waits>>

add_epoll_context ==
  /\ ctl.at = "add"
  /\ IF ctl.x \in Foreign \/ sk[ctl.x].ctx THEN ctl' = Quiet /\ UNCHANGED sk
     ELSE ctl' = [ctl EXCEPT !.at = "added"] /\ sk' = [sk EXCEPT ![ctl.x].ctx = TRUE]
  /\ UNCHANGED <<readyFds, arr, plain, inOs, w, cqs, cqArmed, cqEvent, wake, osData, osSeen, osWatch, changes, packets, waits>>

(* What add_fd and mod_fd look for on the socket.                          *)
NowReady(x, m) == (IF sk[x].readable THEN m.ev \cap {"in"} ELSE {}) \cup (m.ev \cap {"out"})

AddDone ==
  /\ ctl.at = "added"
  /\ LET x == ctl.x
         e == [Set EXCEPT !.sk[x].mask = ctl.m, !.sk[x].idx = Len(arr) + 1]
         now == NowReady(x, ctl.m)
     IN /\ arr' = Append(arr, x)
        /\ Becomes(IF now # {} THEN insert_epoll_event(e, x, now) ELSE [e EXCEPT !.wake = @ \/ Asleep # {}])
  /\ ctl' = Quiet
  /\ UNCHANGED <<plain, inOs, w, cqs, cqArmed, cqEvent, osData, osSeen, osWatch, changes, packets, waits>>

(* Mutant: the last socket moves into the gap and keeps its old index.     *)
DelMovesOnly(x, passthrough) ==
  /\ ctl = Quiet /\ changes < MaxChanges /\ changes' = changes + 1 /\ (sk[x].ctx \/ x \in plain)
  /\ inOs' = IF passthrough THEN inOs ELSE inOs \ {x}
  /\ plain' = IF sk[x].ctx /\ passthrough THEN plain \cup {x} ELSE plain \ {x}
  /\ readyFds' = SelectSeq(readyFds, LAMBDA y : y # x)
  /\ arr' = IF sk[x].idx > 0 THEN Front([arr EXCEPT ![sk[x].idx] = Last(arr)]) ELSE arr
  /\ sk' = [sk EXCEPT ![x].mask = NoMask, ![x].idx = 0, ![x].flags = {}]
  /\ ctl' = [at |-> "del", x |-> x]
  /\ UNCHANGED <<w, cqs, cqArmed, cqEvent, wake, osData, osSeen, osWatch, packets, waits>>

(* del_fd, up to the release of the lock for remove_epoll_context: the     *)
(* last socket of the array takes the place of the one that leaves.        *)
del_fd(x, passthrough) ==
  /\ ctl = Quiet /\ changes < MaxChanges /\ changes' = changes + 1 /\ (sk[x].ctx \/ x \in plain)
  /\ inOs' = IF passthrough THEN inOs ELSE inOs \ {x}
  /\ plain' = IF sk[x].ctx /\ passthrough THEN plain \cup {x} ELSE plain \ {x}
  /\ readyFds' = SelectSeq(readyFds, LAMBDA y : y # x)
  /\ arr' = IF sk[x].idx > 0 THEN Front([arr EXCEPT ![sk[x].idx] = Last(arr)]) ELSE arr
  /\ sk' = [y \in Socks |->
              IF y = x THEN [sk[x] EXCEPT !.mask = NoMask, !.idx = 0, !.flags = IF x \in Range(readyFds) THEN {} ELSE @]
              ELSE IF sk[x].idx \in 1..(Len(arr) - 1) /\ y = Last(arr) THEN [sk[y] EXCEPT !.idx = sk[x].idx] ELSE sk[y]]
  /\ ctl' = [at |-> "del", x |-> x]
  /\ UNCHANGED <<w, cqs, cqArmed, cqEvent, wake, osData, osSeen, osWatch, packets, waits>>

remove_epoll_context ==
  /\ ctl.at = "del"
  /\ sk' = [sk EXCEPT ![ctl.x].ctx = FALSE] /\ ctl' = Quiet
  /\ UNCHANGED <<readyFds, arr, plain, inOs, w, cqs, cqArmed, cqEvent, wake, osData, osSeen, osWatch, changes, packets, waits>>

(* mod_fd: the new mask, what is ready now, or nothing at all.             *)
mod_fd(x, m) ==
  /\ ctl = Quiet /\ changes < MaxChanges /\ changes' = changes + 1 /\ sk[x].ctx
  /\ LET now == NowReady(x, m)
         e == [Set EXCEPT !.sk[x].mask = m]
     IN Becomes(IF now # {} THEN insert_epoll_event(e, x, now)
                ELSE IF x \in Range(readyFds) THEN remove_epoll_event(e, x, sk[x].flags) ELSE e)
  /\ UNCHANGED <<arr, plain, inOs, ctl, w, cqs, cqArmed, cqEvent, osData, osSeen, osWatch, packets, waits>>

-----------------------------------------------------------------------------
Step(v, pc) == [w EXCEPT ![v].pc = pc]

(* check_all_offloaded_sockets by waiter v: poll the rings, collect the    *)
(* events; v returns to its caller when there are any.                     *)
check_all_offloaded_sockets(v, none) ==
  LET r == get_current_events(ring_poll_and_process_element(Set)) IN
  /\ Becomes(r.e) /\ cqs' = <<>>
  /\ w' = [u \in Waiters |->
             IF u = v THEN [pc |-> IF r.out # {} THEN "idle" ELSE none, stale |-> FALSE]
             ELSE [w[u] EXCEPT !.stale = @ \/ cqs # <<>>]]

(* call: with no offloaded socket the kernel is waited on at once.         *)
call(v) ==
  /\ w[v].pc = "idle" /\ waits < MaxWaits /\ waits' = waits + 1
  /\ w' = [w EXCEPT ![v] = [pc |-> IF arr = <<>> THEN "wait" ELSE "poll", stale |-> TRUE]]
  /\ UNCHANGED <<sk, readyFds, arr, plain, inOs, ctl, cqs, cqArmed, cqEvent, wake, osData, osSeen, osWatch, changes, packets>>

(* polling_loops: one turn.                                                *)
polling_loops(v) ==
  /\ w[v].pc = "poll"
  /\ \E none \in {"poll", "arm"} : check_all_offloaded_sockets(v, none)
  /\ UNCHANGED <<arr, plain, inOs, ctl, cqArmed, cqEvent, osData, osSeen, osWatch, changes, packets, waits>>

(* handle_os_countdown: kernel data that the internal thread announced is  *)
(* fetched, then the internal thread is asked to watch again.              *)
handle_os_countdown(v) ==
  /\ w[v].pc = "poll" /\ osSeen
  /\ osSeen' = FALSE /\ w' = Step(v, "fetch")
  /\ UNCHANGED <<sk, readyFds, arr, plain, inOs, ctl, cqs, cqArmed, cqEvent, wake, osData, osWatch, changes, packets, waits>>

register_to_internal_thread(v) ==
  /\ w[v].pc = "fetch"
  /\ w' = Step(v, IF osData THEN "idle" ELSE "poll") /\ osSeen' = FALSE /\ osWatch' = TRUE
  /\ UNCHANGED <<sk, readyFds, arr, plain, inOs, ctl, cqs, cqArmed, cqEvent, wake, osData, changes, packets, waits>>

(* blocking_loops: arm the rings, look again ...                           *)
ring_request_notification(v) ==
  /\ w[v].pc = "arm"
  /\ IF w[v].stale THEN check_all_offloaded_sockets(v, "arm") /\ UNCHANGED <<cqArmed, cqEvent>>
     ELSE /\ cqArmed' = (cqArmed \/ cqs = <<>>) /\ cqEvent' = (cqEvent \/ cqs # <<>>)
          /\ w' = Step(v, "armed") /\ UNCHANGED <<sk, readyFds, wake, cqs>>
  /\ UNCHANGED <<arr, plain, inOs, ctl, osData, osSeen, osWatch, changes, packets, waits>>

CheckArmed(v) ==
  /\ w[v].pc = "armed" /\ check_all_offloaded_sockets(v, "wait")
  /\ UNCHANGED <<arr, plain, inOs, ctl, cqArmed, cqEvent, osData, osSeen, osWatch, changes, packets, waits>>

(* ... and wait: _wait sleeps only when the ready list is empty.           *)
ep_going_to_sleep(v) ==
  /\ w[v].pc = "wait"
  /\ w' = Step(v, IF readyFds = <<>> THEN "asleep" ELSE "woken")
  /\ UNCHANGED <<sk, readyFds, arr, plain, inOs, ctl, cqs, cqArmed, cqEvent, wake, osData, osSeen, osWatch, changes, packets, waits>>

ep_return_from_sleep(v) ==
  /\ w[v].pc = "asleep"
  /\ \/ (wake \/ cqEvent \/ osData) /\ w' = Step(v, "woken")
     \/ w' = Step(v, "idle")
  /\ UNCHANGED <<sk, readyFds, arr, plain, inOs, ctl, cqs, cqArmed, cqEvent, wake, osData, osSeen, osWatch, changes, packets, waits>>

(* The kernel's events: the pipe is removed when nobody sleeps, a          *)
(* completion event is consumed, kernel data ends the call.                *)
Woken(v) ==
  /\ w[v].pc = "woken"
  /\ LET r == get_current_events(ring_wait_for_notification_and_process_element(Set)) IN
     /\ Becomes(r.e) /\ cqs' = <<>> /\ cqEvent' = FALSE
     /\ w' = [u \in Waiters |->
                IF u = v THEN [pc |-> IF r.out # {} \/ osData THEN "idle" ELSE IF arr = <<>> THEN "wait" ELSE "arm", stale |-> FALSE]
                ELSE [w[u] EXCEPT !.stale = @ \/ cqs # <<>>]]
  /\ UNCHANGED <<arr, plain, inOs, ctl, cqArmed, osData, osSeen, osWatch, changes, packets, waits>>

-----------------------------------------------------------------------------
(* The internal thread: the one-shot registration fires.                   *)
set_os_data_available ==
  /\ osData /\ osWatch /\ osWatch' = FALSE /\ osSeen' = TRUE
  /\ UNCHANGED <<sk, readyFds, arr, plain, inOs, ctl, w, cqs, cqArmed, cqEvent, wake, osData, changes, packets, waits>>

OsChanges ==
  /\ osData' = ~osData
  /\ UNCHANGED <<sk, readyFds, arr, plain, inOs, ctl, w, cqs, cqArmed, cqEvent, wake, osSeen, osWatch, changes, packets, waits>>

EpNext ==
  \/ \E x \in Socks :
       \/ ArrivesByOther(x) \/ HangUp(x) \/ Arrives(x) \/ Reads(x)
       \/ \E fl \in {"in", "hup"} : notify_epoll_context(x, fl)
       \/ \E m \in Masks : add_fd(x, m) \/ mod_fd(x, m)
       \/ \E b \in BOOLEAN : del_fd(x, b)
  \/ add_epoll_context \/ AddDone \/ remove_epoll_context \/ set_os_data_available \/ OsChanges
  \/ \E v \in Waiters :
       \/ call(v) \/ polling_loops(v) \/ handle_os_countdown(v) \/ register_to_internal_thread(v)
       \/ ring_request_notification(v) \/ CheckArmed(v) \/ ep_going_to_sleep(v) \/ ep_return_from_sleep(v) \/ Woken(v)

EpSpec == EpInit /\ [][EpNext]_epVars

-----------------------------------------------------------------------------
EpTypeOK ==
  /\ readyFds \in Seq(Socks) /\ arr \in Seq(Socks) /\ Len(arr) <= MaxSize
  /\ plain \subseteq Socks /\ inOs \subseteq Socks /\ cqs \in Seq(Socks)
  /\ \A x \in Socks : sk[x].flags \subseteq {"in", "out", "hup"} /\ sk[x].idx \in 0..Len(arr)
  /\ \A b \in {cqArmed, cqEvent, wake, osData, osSeen, osWatch} : b \in BOOLEAN

(* No event is lost: a socket of the set that is readable, was asked about *)
(* level triggered and owes no notification is in the ready list with its  *)
(* event, however its changes interleave with epoll_ctl and with waiters   *)
(* that take stale events out.                                             *)
NoEventLost ==
  \A x \in Socks :
    (sk[x].idx > 0 /\ sk[x].readable /\ sk[x].note = {} /\ "in" \in sk[x].mask.ev /\ ~sk[x].mask.et)
      => x \in Range(readyFds) /\ "in" \in sk[x].flags

(* The array and the indices agree after any order of additions, removals  *)
(* and removals in the middle: nobody else is taken out with a socket.     *)
IndicesAgree ==
  /\ \A i \in 1..Len(arr) : sk[arr[i]].idx = i
  /\ \A x \in Socks : sk[x].idx > 0 => arr[sk[x].idx] = x
  /\ \A i, j \in 1..Len(readyFds) : i # j => readyFds[i] # readyFds[j]

(* A waiter never sleeps over an event, and kernel data is never left      *)
(* unwatched: the internal thread watches it, has announced it, or a       *)
(* waiter is fetching it.                                                  *)
NothingUnwatched ==
  /\ (Asleep # {} /\ readyFds # <<>>) => wake
  /\ osWatch \/ osSeen \/ \E v \in Waiters : w[v].pc = "fetch"

=============================================================================
