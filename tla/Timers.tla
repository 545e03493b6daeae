------------------------------- MODULE Timers -------------------------------
(***************************************************************************)
(* The timer list of the internal thread (class timer).  Each node holds   *)
(* the time that separates it from the node before it, so that only the    *)
(* head need be updated as time passes.  The thread alternates between     *)
(* update_timeout / process_registered_timers and a wait during which time *)
(* passes and after which it applies the registrations posted to it.       *)
(*                                                                         *)
(* acct and dl are history: the milliseconds update_timeout has accounted  *)
(* for so far, and the deadline of each node on that clock.                *)
(***************************************************************************)
EXTENDS Integers, Sequences, FiniteSets, FiniteSetsExt

CONSTANTS
  Nodes,      \* timer_node_t objects
  Orig,       \* orig_time_msec of each node
  Periodic,   \* the nodes of type PERIODIC_TIMER; the others are one-shot
  Owner,      \* the timer_handler of each node
  Sub,        \* clock readings per millisecond
  MaxNow,     \* bound on the clock
  NULL

ASSUME TimerAssumption ==
  /\ Orig \in [Nodes -> Nat \ {0}]
  /\ Periodic \subseteq Nodes
  /\ Sub \in Nat \ {0}
  /\ MaxNow \in Nat
  /\ NULL \notin Nodes

VARIABLES
  list,       \* m_list_head: sequence of [node, delta]
  now,        \* the clock
  m_ts_last,  \* clock at the last update that counted
  phase,      \* where the thread is in its loop
  iter,       \* iter of process_registered_timers
  acct, dl,
  expired,    \* nodes due when process_registered_timers started
  fired       \* nodes it has called so far, in order

vars == <<list, now, m_ts_last, phase, iter, acct, dl, expired, fired>>
histVars == <<expired, fired>>

Listed == {list[i].node : i \in 1..Len(list)}
IndexOf(l, n) == CHOOSE i \in 1..Len(l) : l[i].node = n
DeltaOf(n) == list[IndexOf(list, n)].delta
NodeAfter(l, n) == IF IndexOf(l, n) = Len(l) THEN NULL ELSE l[IndexOf(l, n) + 1].node

(* insert_to_list: walk past the nodes that expire no later, subtracting   *)
(* their deltas; what is left is the new delta, and the next node's delta  *)
(* shrinks by it.                                                          *)
InsertToList(l, n, timeout) ==
  LET rest[i \in 0..Len(l)] == IF i = 0 THEN timeout ELSE rest[i - 1] - l[i].delta
      k == Max({i \in 0..Len(l) : \A j \in 1..i : rest[j - 1] >= l[j].delta})
      tail == SubSeq(l, k + 1, Len(l))
  IN  SubSeq(l, 1, k) \o <<[node |-> n, delta |-> rest[k]]>>
      \o (IF tail = <<>> THEN <<>> ELSE [tail EXCEPT ![1].delta = @ - rest[k]])

(* Mutant of RemoveFromList: the delta of the removed node is lost.        *)
RemoveLosesDelta(l, n) ==
  LET i == IndexOf(l, n) IN SubSeq(l, 1, i - 1) \o SubSeq(l, i + 1, Len(l))

RemoveFromList(l, n) ==
  LET i == IndexOf(l, n)
      tail == SubSeq(l, i + 1, Len(l))
  IN  SubSeq(l, 1, i - 1)
      \o (IF tail = <<>> THEN <<>> ELSE [tail EXCEPT ![1].delta = @ + l[i].delta])

(* update_timeout: take the elapsed milliseconds off the list, node after  *)
(* node until they are used up.                                            *)
Elapse(l, msec) ==
  LET left[i \in 0..Len(l)] ==
        IF i = 0 THEN msec
        ELSE IF l[i].delta > left[i - 1] THEN 0 ELSE left[i - 1] - l[i].delta
  IN  [i \in 1..Len(l) |->
         [l[i] EXCEPT !.delta = IF @ > left[i - 1] THEN @ - left[i - 1] ELSE 0]]

-----------------------------------------------------------------------------
Init ==
  /\ list = <<>> /\ now = 0 /\ m_ts_last = 0 /\ acct = 0
  /\ phase = "top" /\ iter = NULL
  /\ dl = [n \in Nodes |-> 0]
  /\ expired = {} /\ fired = <<>>

Tick ==
  /\ now < MaxNow
  /\ now' = now + 1
  /\ UNCHANGED <<list, m_ts_last, phase, iter, acct, dl, histVars>>

(* update_timeout, and the loop's choice: process the timers if the head   *)
(* is due; otherwise wait (first call) or go on to the events and back to  *)
(* the top (second call).                                                  *)
UpdateTimeout ==
  /\ phase \in {"top", "applied"}
  /\ LET msec == (now - m_ts_last) \div Sub
         l    == Elapse(list, msec)
         due  == l # <<>> /\ l[1].delta = 0
     IN  /\ list' = l
         /\ m_ts_last' = IF msec > 0 THEN now ELSE m_ts_last
         /\ acct' = acct + msec
         /\ phase' = IF due THEN "process" ELSE IF phase = "top" THEN "wait" ELSE "top"
         /\ iter' = IF due THEN l[1].node ELSE NULL
         /\ expired' = IF due THEN {n \in Listed : dl[n] <= acct + msec} ELSE {}
         /\ fired' = <<>>
  /\ UNCHANGED <<now, dl>>

(* One turn of process_registered_timers: call the handler, take iter->next*)
(* and put a periodic node back, or free a one-shot one.                   *)
Fire(n) ==
  /\ phase = "process" /\ iter = n /\ DeltaOf(n) = 0
  /\ fired' = Append(fired, n)
  /\ iter' = NodeAfter(list, n)
  /\ list' = IF n \in Periodic THEN InsertToList(RemoveFromList(list, n), n, Orig[n])
             ELSE RemoveFromList(list, n)
  /\ dl' = [dl EXCEPT ![n] = acct + Orig[n]]
  /\ UNCHANGED <<now, m_ts_last, phase, acct, expired>>

ProcessDone ==
  /\ phase = "process"
  /\ iter # NULL => DeltaOf(iter) # 0
  /\ phase' = "top" /\ iter' = NULL
  /\ UNCHANGED <<list, now, m_ts_last, acct, dl, histVars>>

(* After the wait the posted registrations are applied, one by one, before *)
(* update_timeout looks at the clock again.                                *)
EpollReturns ==
  /\ phase = "wait"
  /\ phase' \in {"drain", "applied"}
  /\ UNCHANGED <<list, now, m_ts_last, iter, acct, dl, histVars>>

AddNewTimer(n) ==
  /\ phase = "drain" /\ n \notin Listed
  /\ list' = InsertToList(list, n, Orig[n])
  /\ dl' = [dl EXCEPT ![n] = acct + Orig[n]]
  /\ phase' \in {"drain", "applied"}
  /\ UNCHANGED <<now, m_ts_last, iter, acct, histVars>>

(* Mutant of WakeupTimer: the node is not taken out before it is inserted. *)
WakeupWithoutRemoving(n) ==
  /\ phase = "drain" /\ n \in Listed
  /\ list' = InsertToList(list, n, 0)
  /\ dl' = [dl EXCEPT ![n] = acct]
  /\ phase' \in {"drain", "applied"}
  /\ UNCHANGED <<now, m_ts_last, iter, acct, histVars>>

WakeupTimer(n) ==
  /\ phase = "drain" /\ n \in Listed
  /\ list' = InsertToList(RemoveFromList(list, n), n, 0)
  /\ dl' = [dl EXCEPT ![n] = acct]
  /\ phase' \in {"drain", "applied"}
  /\ UNCHANGED <<now, m_ts_last, iter, acct, histVars>>

(* remove_timer with a node, and with NULL: the first node of the handler. *)
RemoveTimer(n, h) ==
  /\ phase = "drain"
  /\ LET mine == {i \in 1..Len(list) : Owner[list[i].node] = h}
         node == IF n # NULL THEN n ELSE IF mine = {} THEN NULL ELSE list[Min(mine)].node
     IN  list' = IF node \in Listed /\ Owner[node] = h THEN RemoveFromList(list, node) ELSE list
  /\ phase' \in {"drain", "applied"}
  /\ UNCHANGED <<now, m_ts_last, iter, acct, dl, histVars>>

RemoveAllTimers(h) ==
  /\ phase = "drain"
  /\ LET keep == FoldSet(LAMBDA n, l : RemoveFromList(l, n), list,
                         {n \in Listed : Owner[n] = h})
     IN  list' = keep
  /\ phase' \in {"drain", "applied"}
  /\ UNCHANGED <<now, m_ts_last, iter, acct, dl, histVars>>

Handlers == {Owner[n] : n \in Nodes}

Next ==
  \/ Tick \/ UpdateTimeout \/ ProcessDone \/ EpollReturns
  \/ \E n \in Nodes : Fire(n) \/ AddNewTimer(n) \/ WakeupTimer(n)
  \/ \E h \in Handlers :
       \/ \E n \in {NULL} \cup {m \in Nodes : Owner[m] = h} : RemoveTimer(n, h)
       \/ RemoveAllTimers(h)

Spec == Init /\ [][Next]_vars

-----------------------------------------------------------------------------
TypeOK ==
  /\ \A i \in 1..Len(list) : list[i].node \in Nodes /\ list[i].delta \in Nat
  /\ \A i, j \in 1..Len(list) : list[i].node = list[j].node => i = j
  /\ now \in 0..MaxNow /\ m_ts_last \in 0..now /\ acct \in Nat
  /\ phase \in {"top", "wait", "drain", "applied", "process"}
  /\ iter \in Listed \cup {NULL}
  /\ expired \subseteq Nodes

(* The deltas are the deadlines: whatever is inserted, woken up, removed   *)
(* or fired, the deltas up to a node add up to the time it has left.       *)
DeadlinesKept ==
  LET sum[i \in 0..Len(list)] == IF i = 0 THEN 0 ELSE sum[i - 1] + list[i].delta
  IN  \A i \in 1..Len(list) :
        sum[i] = Max({0, dl[list[i].node] - acct})

(* process_registered_timers calls the nodes that are due, each once and   *)
(* no other, although it puts periodic nodes back into the list it walks.  *)
CallsExactlyTheExpired ==
  /\ phase = "process" => \A i \in 1..Len(fired) : fired[i] \in expired
  /\ \A i, j \in 1..Len(fired) : fired[i] = fired[j] => i = j
  /\ phase # "process" => expired = {fired[i] : i \in 1..Len(fired)}

-----------------------------------------------------------------------------
(***************************************************************************)
(* The timers of TCP sockets (class tcp_timers_collection): a wheel of     *)
(* period/resolution buckets, one of which is visited at each tick of a    *)
(* periodic timer that the collection registers for itself while it has    *)
(* members.  add_new_timer and remove_timer run on the internal thread;    *)
(* the (un)registration of the collection's own timer goes through the     *)
(* queue of event_handler_manager, behind the actions already posted.      *)
(***************************************************************************)


CONSTANTS
  Socks,        \* sockets, each with one timer node
  Size,         \* m_n_intervals_size
  MaxOps        \* bound on the number of (un)registrations

VARIABLES
  m_p_intervals,            \* the buckets
  m_n_location, m_n_next_insert_bucket, m_n_count,
  queue,                    \* m_reg_action_q
  own_timers,               \* timer nodes of the collection in class timer
  want,                     \* sockets whose owner holds a timer handle
  since,                    \* history: ticks since a member was last called
  called,                   \* history: members called by the last step
  ops

wheelVars == <<m_p_intervals, m_n_location, m_n_next_insert_bucket, m_n_count, queue,
          own_timers, want, since, called, ops>>
Buckets == 0..(Size - 1)
InBucket(i) == {m_p_intervals[i][k] : k \in 1..Len(m_p_intervals[i])}
Members == UNION {InBucket(i) : i \in Buckets}

WheelInit ==
  /\ m_p_intervals = [i \in Buckets |-> <<>>]
  /\ m_n_location = 0 /\ m_n_next_insert_bucket = 0 /\ m_n_count = 0
  /\ queue = <<>> /\ own_timers = 0 /\ want = {} /\ ops = 0
  /\ since = [s \in Socks |-> 0] /\ called = {}

(* A socket registers or unregisters its timer: an action is posted.       *)
RegisterTimer(s) ==
  /\ ops < MaxOps /\ s \notin want
  /\ want' = want \cup {s} /\ ops' = ops + 1
  /\ queue' = Append(queue, <<"add", s>>)
  /\ called' = {}
  /\ UNCHANGED <<m_p_intervals, m_n_location, m_n_next_insert_bucket, m_n_count, own_timers, since>>

UnregisterTimer(s) ==
  /\ ops < MaxOps /\ s \in want
  /\ want' = want \ {s} /\ ops' = ops + 1
  /\ queue' = Append(queue, <<"remove", s>>)
  /\ called' = {}
  /\ UNCHANGED <<m_p_intervals, m_n_location, m_n_next_insert_bucket, m_n_count, own_timers, since>>

(* The internal thread pops an action.  The first member makes the         *)
(* collection register, the last one to leave makes it unregister.         *)
WheelAdd ==
  /\ queue # <<>> /\ Head(queue)[1] = "add"
  /\ LET s == Head(queue)[2]
         b == m_n_next_insert_bucket
     IN  /\ m_p_intervals' = [m_p_intervals EXCEPT ![b] = <<s>> \o @]
         /\ since' = [since EXCEPT ![s] = 0]
  /\ m_n_next_insert_bucket' = (m_n_next_insert_bucket + 1) % Size
  /\ m_n_count' = m_n_count + 1
  /\ queue' = Tail(queue) \o (IF m_n_count = 0 THEN << <<"register">> >> ELSE <<>>)
  /\ called' = {}
  /\ UNCHANGED <<m_n_location, own_timers, want, ops>>

WheelRemove ==
  /\ queue # <<>> /\ Head(queue)[1] = "remove"
  /\ LET s == Head(queue)[2]
     IN  m_p_intervals' = [i \in Buckets |-> SelectSeq(m_p_intervals[i], LAMBDA x : x # s)]
  /\ m_n_count' = m_n_count - 1
  /\ queue' = Tail(queue) \o (IF m_n_count = 1 THEN << <<"unregister">> >> ELSE <<>>)
  /\ called' = {}
  /\ UNCHANGED <<m_n_location, m_n_next_insert_bucket, own_timers, want, since, ops>>

(* class timer gets the collection's node, or frees the first one it finds.*)
OwnTimer ==
  /\ queue # <<>> /\ Head(queue)[1] \in {"register", "unregister"}
  /\ own_timers' = IF Head(queue)[1] = "register" THEN own_timers + 1
                   ELSE IF own_timers > 0 THEN own_timers - 1 ELSE 0
  /\ queue' = Tail(queue)
  /\ called' = {}
  /\ UNCHANGED <<m_p_intervals, m_n_location, m_n_next_insert_bucket, m_n_count, want, since, ops>>

(* handle_timer_expired of the collection, once per node it has in class   *)
(* timer and resolution.                                                   *)
HandleTimerExpired ==
  /\ own_timers > 0
  /\ called' = InBucket(m_n_location)
  /\ since' = [s \in Socks |-> IF s \in InBucket(m_n_location) THEN 0
                               ELSE IF since[s] <= Size THEN since[s] + 1 ELSE since[s]]
  /\ m_n_location' = (m_n_location + 1) % Size
  /\ UNCHANGED <<m_p_intervals, m_n_next_insert_bucket, m_n_count, queue, own_timers, want, ops>>

WheelNext ==
  \/ \E s \in Socks : RegisterTimer(s) \/ UnregisterTimer(s)
  \/ WheelAdd \/ WheelRemove \/ OwnTimer \/ HandleTimerExpired

(* The internal thread keeps applying actions and running its timers.      *)
WheelFairness == WF_wheelVars(WheelAdd \/ WheelRemove \/ OwnTimer) /\ WF_wheelVars(HandleTimerExpired)
WheelSpec == WheelInit /\ [][WheelNext]_wheelVars /\ WheelFairness

-----------------------------------------------------------------------------
WheelTypeOK ==
  /\ m_n_location \in Buckets /\ m_n_next_insert_bucket \in Buckets
  /\ m_n_count = Cardinality(Members)
  /\ own_timers \in 0..1
  /\ since \in [Socks -> 0..(Size + 1)]

(* No member waits more than the period for its callback, whatever is      *)
(* added to and removed from the wheel meanwhile.                          *)
OncePerPeriod == \A s \in Members : since[s] <= Size

(* The timer of a socket that stays registered is called again and again.  *)
CalledForever == \A s \in Socks : []<>(s \notin want \/ s \in called)
=============================================================================
