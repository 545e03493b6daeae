------------------------------- MODULE IoMux -------------------------------
(***************************************************************************)
(* One thread in select, pselect, poll or ppoll (select_call, poll_call    *)
(* over the loops of io_mux_call): it merges what the offloaded sockets    *)
(* say with what the kernel says of the others, first by polling, then by  *)
(* blocking on the kernel's descriptors and the rings' channel together.   *)
(* Sockets and kernel change between any two steps.                        *)
(***************************************************************************)
EXTENDS Integers, FiniteSets, Sequences, SequencesExt, FiniteSetsExt

CONSTANTS
  Tcp, Udp,      \* offloaded sockets: Tcp ones are skipped in the kernel's call
  Plain,         \* descriptors of the kernel
  Kinds,         \* subset of {"select", "pselect", "poll", "ppoll"}
  Asks,          \* what a call asks about: [r, w : SUBSET of the descriptors]
  Limits,        \* timeouts; 0 is none given
  SkipCheck,     \* select_skip_os_fd_check
  OsRatio,       \* select_poll_os_ratio
  MaxTime,       \* bound: the clock
  MaxCallsMux,   \* bound: calls
  MaxReadied     \* bound: descriptors that become ready

Off == Tcp \cup Udp
MuxFds == Off \cup Plain
Cq == "cq"       \* the rings' epoll descriptor

VARIABLES
  m,             \* the call in progress
  rfd, wfd, hfd, \* offloaded sockets that are readable, writeable, hung up
  kr, kw,        \* what the kernel would report for Udp and Plain
  ring,          \* completions wait;  cqHot: the channel has an event
  cqHot, clock,
  lastIndex, skipCount, muxCalls, readied   \* g_n_last_checked_index, m_n_skip_os_count

muxVars == <<m, rfd, wfd, hfd, kr, kw, ring, cqHot, clock, lastIndex, skipCount, muxCalls, readied>>
envVars == <<rfd, wfd, hfd, kr, kw, ring, cqHot, clock, readied>>

IsSelect == m.kind \in {"select", "pselect"}
Nothing == [f \in MuxFds \cup {Cq} |-> {}]
Idle == [pc |-> "idle", kind |-> "select", r |-> {}, w |-> {}, to |-> 0, start |-> 0, el |-> 0, fds |-> <<>>, early |-> {},
         res |-> Nothing, n |-> 0, nr |-> 0, os |-> 0, stale |-> TRUE]

MuxInit ==
  /\ m = Idle /\ rfd = {} /\ wfd \in {{}, Off} /\ hfd = {} /\ kr = {} /\ kw = {}
  /\ ring = FALSE /\ cqHot = FALSE /\ clock = 0 /\ lastIndex = 0 /\ skipCount = 0 /\ muxCalls = 0 /\ readied = 0

-----------------------------------------------------------------------------
(* Setting a result.  select counts every bit, poll every entry; select    *)
(* takes only what was asked for, and no hang-ups.                         *)
Add(c, f, flag, counts) ==
  [c EXCEPT !.res[f] = @ \cup {flag}, !.n = IF counts THEN @ + 1 ELSE @, !.nr = IF flag = "r" THEN @ + 1 ELSE @]

set_rfd_ready(c, f) ==
  IF f \notin c.r \/ "r" \in c.res[f] THEN c
  ELSE Add(c, f, "r", c.kind \in {"select", "pselect"} \/ c.res[f] = {})

(* POLLOUT and POLLHUP exclude each other.                                 *)
set_wfd_ready(c, f) ==
  IF f \notin c.w \/ {"w", "h"} \cap c.res[f] # {} THEN c
  ELSE Add(c, f, "w", c.kind \in {"select", "pselect"} \/ c.res[f] = {})

set_efd_ready(c, f) ==
  IF c.kind \in {"select", "pselect"} \/ "h" \in c.res[f] THEN c
  ELSE [Add(c, f, "h", c.res[f] = {}) EXCEPT !.res[f] = @ \ {"w"}]

(* check_offloaded_rsockets: round the array from the last index, up to    *)
(* the first readable socket.                                              *)
FirstReadable(c) ==
  LET k == Len(c.fds)
      at(i) == ((lastIndex + i - 1) % k) + 1
      hits == {i \in 1..k : c.fds[at(i)] \in rfd \cap c.r}
  IN IF hits = {} THEN at(k) ELSE at(CHOOSE i \in hits : \A j \in hits : i <= j)

check_offloaded_rsockets(c) ==
  IF c.fds[FirstReadable(c)] \in rfd THEN set_rfd_ready(c, c.fds[FirstReadable(c)]) ELSE c

check_offloaded_wsockets(c) == FoldLeft(LAMBDA d, f : IF f \in wfd THEN set_wfd_ready(d, f) ELSE d, c, c.fds)
check_offloaded_esockets(c) == FoldLeft(LAMBDA d, f : IF f \in hfd THEN set_efd_ready(d, f) ELSE d, c, c.fds)

check_all_offloaded(c) ==
  LET d == check_offloaded_rsockets(c) IN
  IF d.nr > 0 THEN d ELSE [check_offloaded_esockets(check_offloaded_wsockets(d)) EXCEPT !.stale = FALSE]

-----------------------------------------------------------------------------
(* The kernel's answer over the descriptors it is asked about; it replaces *)
(* the result.                                                             *)
OsAsked(c, f) == (IF f \in c.r THEN {"r"} ELSE {}) \cup (IF f \in c.w THEN {"w"} ELSE {})
OsReady(c) ==
  [f \in MuxFds \cup {Cq} |->
     IF f \in Udp \cup Plain THEN OsAsked(c, f) \cap ((IF f \in kr THEN {"r"} ELSE {}) \cup (IF f \in kw THEN {"w"} ELSE {}))
     ELSE {}]
OsCount(c, res) ==
  IF c.kind \in {"select", "pselect"} THEN Cardinality({<<f, e>> \in MuxFds \X {"r", "w"} : e \in res[f]})
  ELSE Cardinality({f \in MuxFds : res[f] # {}})

(* copy_to_orig_fds (poll) adds to what the call holds, which is nothing.  *)
copy_to_orig_fds(c) == [c EXCEPT !.res = OsReady(c), !.n = OsCount(c, OsReady(c))]

is_timeout(c) == c.to > 0 /\ c.to <= c.el
timer_update(c) == [c EXCEPT !.el = clock - c.start]

-----------------------------------------------------------------------------
(* The constructors: collect the offloaded sockets that are asked about;   *)
(* those the kernel also watches are looked at right away.                 *)
Enter(kind, r, wset, to) ==
  /\ m.pc \in {"idle", "done"} /\ muxCalls < MaxCallsMux /\ muxCalls' = muxCalls + 1
  /\ m' = [Idle EXCEPT !.pc = IF Off \cap (r \cup wset) = {} THEN "os1" ELSE "first",
                       !.kind = kind, !.r = r, !.w = wset, !.to = to, !.start = clock,
                       !.fds = SetToSeq(Off \cap (r \cup wset)), !.early = Udp \cap r \cap rfd]
  /\ UNCHANGED <<envVars, lastIndex, skipCount>>

(* call, first scenario: nothing is offloaded, the kernel decides.         *)
Scenario1 ==
  /\ m.pc = "os1"
  /\ \/ OsCount(m, OsReady(m)) > 0
     \/ m.to > 0 /\ clock - m.start >= m.to
  /\ m' = [copy_to_orig_fds(m) EXCEPT !.pc = "done"]
  /\ UNCHANGED <<envVars, lastIndex, skipCount, muxCalls>>

(* prepare_to_poll empties the caller's sets (they are empty here);        *)
(* immidiate_return returns what the constructor found, or decides whether *)
(* this call asks the kernel first.                                        *)
immidiate_return ==
  /\ m.pc = "first"
  /\ IF m.early # {}
     THEN /\ m' = [FoldLeft(set_rfd_ready, m, SetToSeq(m.early)) EXCEPT !.pc = "done"]
          /\ UNCHANGED skipCount
     ELSE /\ skipCount' = IF skipCount - 1 <= 0 THEN SkipCheck ELSE skipCount - 1
          /\ m' = [m EXCEPT !.pc = "poll", !.os = IF skipCount - 1 <= 0 THEN 0 ELSE OsRatio]
  /\ UNCHANGED <<envVars, lastIndex, muxCalls>>

(* handle_os_countdown, wait_os(true): kernel results are completed by the *)
(* offloaded ones and end the call.                                        *)
handle_os_countdown ==
  /\ m.pc = "poll"
  /\ LET c == copy_to_orig_fds(m)
         asks == m.os = 0 /\ OsRatio > 0
     IN IF asks /\ c.n > 0
        THEN /\ m' = [check_all_offloaded(c) EXCEPT !.pc = "done"]
             /\ lastIndex' = FirstReadable(m)
        ELSE m' = [m EXCEPT !.pc = "check", !.os = IF asks THEN OsRatio - 1 ELSE m.os - 1] /\ UNCHANGED lastIndex
  /\ UNCHANGED <<envVars, skipCount, muxCalls>>

(* polling_loops: the rest of a turn; the polling time may be over.        *)
polling_loops ==
  /\ m.pc = "check"
  /\ LET c == check_all_offloaded(m)
         d == timer_update(c)
     IN /\ lastIndex' = FirstReadable(m)
        /\ IF c.n > 0 THEN m' = [c EXCEPT !.pc = "done"]
           ELSE IF is_timeout(d) THEN m' = [d EXCEPT !.pc = "done"]
           ELSE \E pc \in {"poll", "block"} : m' = [d EXCEPT !.pc = pc]
  /\ UNCHANGED <<envVars, skipCount, muxCalls>>

(* blocking_loops: arm the rings, look once more, wait.                    *)
blocking_loops ==
  /\ m.pc = "block"
  /\ lastIndex' = FirstReadable(m)
  /\ LET c == check_all_offloaded(IF m.stale \/ ring THEN m ELSE timer_update(m)) IN
     m' = [c EXCEPT !.pc = IF c.n > 0 THEN "done"
                           ELSE IF ~(m.stale \/ ring) THEN "wait"
                           ELSE IF is_timeout(c) THEN "done" ELSE "block"]
  /\ ring' = FALSE
  /\ UNCHANGED <<rfd, wfd, hfd, kr, kw, cqHot, clock, skipCount, muxCalls, readied>>

(* wait, before the kernel's call.  select has filled the caller's sets    *)
(* again and added the rings' descriptor when it finds that the time is    *)
(* over.                                                                   *)
BeforeWait(c) ==
  [c EXCEPT !.res = IF IsSelect THEN [f \in MuxFds \cup {Cq} |-> IF f \in Tcp THEN {} ELSE IF f = Cq THEN {"r"} ELSE OsAsked(c, f)]
                    ELSE @]

wait ==
  /\ m.pc = "wait"
  /\ m' = IF m.to > 0 /\ m.to < m.el THEN [BeforeWait(m) EXCEPT !.pc = "done"]
          ELSE [m EXCEPT !.pc = "asleep"]
  /\ UNCHANGED <<envVars, lastIndex, skipCount, muxCalls>>

(* wait, after the kernel's call: the rings' descriptor is not counted.    *)
(* pselect does not pass it to the kernel and may find its bit still set.  *)
(* Then the rest of the loop: with a ring event, or with nothing at all,   *)
(* the offloaded sockets are checked again.                                *)
Wakes ==
  /\ m.pc = "asleep"
  /\ LET c == copy_to_orig_fds(m)
         over == m.to > 0 /\ clock - m.start >= m.to
     IN \E hot \in IF m.kind = "pselect" THEN BOOLEAN ELSE {cqHot} :
          LET b == IF m.kind = "pselect" /\ hot THEN [c EXCEPT !.n = @ - 1] ELSE c
              d == IF hot \/ (b.n = 0 /\ ~is_timeout(b)) THEN check_all_offloaded(b) ELSE b
          IN /\ (cqHot /\ m.kind # "pselect") \/ c.n > 0 \/ over
             /\ m' = [d EXCEPT !.pc = IF d.n # 0 \/ is_timeout(d) THEN "done" ELSE "block"]
             /\ cqHot' = (cqHot /\ ~hot) /\ lastIndex' = IF hot \/ (b.n = 0 /\ ~is_timeout(b)) THEN FirstReadable(m) ELSE lastIndex
  /\ UNCHANGED <<rfd, wfd, hfd, kr, kw, ring, clock, skipCount, muxCalls, readied>>

-----------------------------------------------------------------------------
(* Sockets and kernel.  While a thread is in the call nobody reads.        *)
BecomesReady(f) ==
  /\ m.pc \notin {"idle", "done"} /\ readied < MaxReadied /\ readied' = readied + 1
  /\ \/ f \in Off \ rfd /\ rfd' = rfd \cup {f} /\ UNCHANGED <<wfd, hfd, kr, kw>>
     \/ f \in Off \ wfd /\ wfd' = wfd \cup {f} /\ UNCHANGED <<rfd, hfd, kr, kw>>
     \/ f \in Tcp \ hfd /\ hfd' = hfd \cup {f} /\ UNCHANGED <<rfd, wfd, kr, kw>>
     \/ f \in (Plain \cup Udp) \ kr /\ kr' = kr \cup {f} /\ UNCHANGED <<rfd, wfd, hfd, kw>>
     \/ f \in Plain \ kw /\ kw' = kw \cup {f} /\ UNCHANGED <<rfd, wfd, hfd, kr>>
  /\ ring' = (ring \/ f \in Off) /\ cqHot' = (cqHot \/ (f \in Off /\ m.pc \in {"wait", "asleep"}))
  /\ UNCHANGED <<m, clock, lastIndex, skipCount, muxCalls>>

Drained ==
  /\ m.pc = "done" /\ rfd' \in SUBSET rfd /\ kr' = {} /\ hfd' = {}
  /\ (rfd' # rfd \/ kr # {} \/ hfd # {})
  /\ UNCHANGED <<m, wfd, kw, ring, cqHot, clock, lastIndex, skipCount, muxCalls, readied>>

Ticks ==
  /\ clock < MaxTime /\ clock' = clock + 1
  /\ UNCHANGED <<m, rfd, wfd, hfd, kr, kw, ring, cqHot, lastIndex, skipCount, muxCalls, readied>>

MuxNext ==
  \/ \E kind \in Kinds, a \in Asks, to \in Limits : Enter(kind, a.r, a.w, to)
  \/ Scenario1 \/ immidiate_return \/ handle_os_countdown \/ polling_loops \/ blocking_loops \/ wait \/ Wakes
  \/ \E f \in MuxFds : BecomesReady(f)
  \/ Drained \/ Ticks

MuxSpec == MuxInit /\ [][MuxNext]_muxVars

-----------------------------------------------------------------------------
MuxTypeOK ==
  /\ m.pc \in {"idle", "os1", "first", "poll", "check", "block", "wait", "asleep", "done"}
  /\ m.n \in Int /\ m.res \in [MuxFds \cup {Cq} -> SUBSET {"r", "w", "h"}]
  /\ rfd \subseteq Off /\ wfd \subseteq Off /\ hfd \subseteq Tcp /\ kr \subseteq Udp \cup Plain /\ kw \subseteq Plain
  /\ lastIndex \in 0..Cardinality(Off)

(* What the call returns is what it reports: a positive result counts the  *)
(* entries (poll) or the bits (select), each was asked for and was ready   *)
(* during the call, whatever mixture of kernel and offloaded results and   *)
(* of turns of the loops it comes from.                                    *)
ReportIsExact ==
  (m.pc = "done" /\ m.n # 0) =>
    /\ m.n = OsCount(m, m.res)
    /\ \A f \in MuxFds :
         /\ "r" \in m.res[f] => f \in m.r
         /\ "w" \in m.res[f] => f \in m.w
         /\ ~({"w", "h"} \subseteq m.res[f])

(* A thread asleep in the kernel over a socket that became readable is     *)
(* going to be woken: the rings' channel has the event.                    *)
SleeperHearsRings ==
  (m.pc = "asleep" /\ m.kind # "pselect") => (rfd \cap m.r = {} \/ cqHot \/ OsCount(m, OsReady(m)) > 0)

=============================================================================
