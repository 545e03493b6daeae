------------------------ MODULE EventHandlerManager ------------------------
(***************************************************************************)
(* The internal thread of libvma (class event_handler_manager) and the     *)
(* threads that post registration actions to it.                           *)
(*                                                                         *)
(* A caller appends an action to m_reg_action_q under a spin lock and,     *)
(* AFTER releasing the lock, wakes the internal thread by adding a pipe    *)
(* that is always readable to its epoll set (class wakeup_pipe).  The      *)
(* internal thread drains the queue, removes the pipe under the lock once  *)
(* the queue is empty, fires timers and dispatches the ready channels.     *)
(* Handler objects are deleted by the internal thread, by an action that   *)
(* went through the same queue (unregister_timers_event_and_delete).       *)
(*                                                                         *)
(* Handlers stand for objects such as neigh_ib: each may own one timer, one*)
(* rdma_cm id on the shared cma channel and one registration on the async  *)
(* fd of the HCA.  The netlink command channel is registered once.         *)
(***************************************************************************)
EXTENDS Naturals, Sequences, FiniteSets

CONSTANTS
  Threads,      \* application threads that call into the library
  Handlers,     \* event handler objects
  OneShot,      \* the handlers whose timers are ONE_SHOT_TIMERs
  Grouped,      \* the handlers whose timers are in a timers_group
  MaxPosts      \* bound on the number of posted actions

ASSUME ConstantsAssumption ==
  /\ MaxPosts \in Nat
  /\ OneShot \subseteq Handlers
  /\ Grouped \subseteq Handlers \ OneShot

Channels == {"rdma_cm", "ibverbs"}              \* fds that handlers register on
Wakeup == "wakeup"                              \* the read end of the pipe
Fds == Channels \cup {"command", Wakeup}        \* what epoll_wait may return
TimerTypes == {"REGISTER_TIMER", "WAKEUP_TIMER", "UNREGISTER_TIMER"}
DeleteType == "UNREGISTER_TIMERS_AND_DELETE"
RegisterTypes == {"REGISTER_IBVERBS", "REGISTER_RDMA_CM"}
UnregisterTypes == {"UNREGISTER_IBVERBS", "UNREGISTER_RDMA_CM"}
ActionTypes == TimerTypes \cup {DeleteType} \cup RegisterTypes \cup UnregisterTypes
RegAction == [type : ActionTypes, handler : Handlers]
ChannelOf(type) == IF type \in {"REGISTER_IBVERBS", "UNREGISTER_IBVERBS"}
                   THEN "ibverbs" ELSE "rdma_cm"

VARIABLES
  m_b_continue_running, \* cleared by stop_thread
  m_event_handler_tid,  \* has the internal thread been created
  m_reg_action_q,       \* queue of posted actions
  m_is_sleeping,        \* wakeup::m_is_sleeping
  pipe_in_epfd,         \* is the wakeup pipe in the epoll set
  m_timer,              \* number of timer nodes of each handler
  m_event_handler_map,  \* per channel, the registered handlers
  cm_events,            \* handlers with an unread event on the cma channel
  fd_events,            \* other fds with an unread event
  life,                 \* "live", "dying" (delete posted) or "deleted"
  held,                 \* per handler, what its owner is registered for
  itc,                  \* control point of the internal thread
  cur,                  \* the popped action (a sequence of length 0 or 1)
  ready,                \* fds returned by epoll_wait, still to process
  due,                  \* handlers with an expired timer still to fire
  calling,              \* handlers called back by the last step
  pc,                   \* control point of each application thread
  arg,                  \* the action an application thread is posting
  stopper,              \* control point of the thread in stop_thread
  posts                 \* number of posted actions

evhVars == <<m_b_continue_running, m_event_handler_tid>>
queueVars == <<m_reg_action_q, m_is_sleeping, pipe_in_epfd>>
tblVars == <<m_timer, m_event_handler_map>>
evVars == <<cm_events, fd_events>>
ownVars == <<life, held>>
thrVars == <<itc, cur, ready, due, calling>>
appVars == <<pc, arg>>
vars == <<evhVars, queueVars, tblVars, evVars, ownVars, thrVars, appVars,
          stopper, posts>>

-----------------------------------------------------------------------------
(* Mutant of QueueLocked: the lock is released before the pipe is removed. *)
QueueUnlockedEarly == FALSE

(* The queue lock is only held across steps by the internal thread, while  *)
(* it takes the pipe out of the epoll set.                                 *)
QueueLocked == itc \in {"remove_fd", "to_sleep"}

(* An owner posts under its own lock: from the moment a thread chooses an  *)
(* action for h until it has pushed it nobody else posts for h.            *)
OwnerLocked(h) ==
  \E t \in Threads : pc[t] \in {"start", "push"} /\ arg[t].handler = h

(* What the owner of h may post.  A cleaned object posts nothing but the   *)
(* end of its registrations.  A one-shot node frees itself, so its owner   *)
(* never names it again, and may register another one at any time.  The    *)
(* timers of a group outlive remove_all_timers: their owner (sockinfo_tcp) *)
(* unregisters them before it posts the delete.                            *)
MayPost(type, h) ==
  \/ /\ type = "REGISTER_TIMER"
     /\ life[h] = "live"
     /\ h \in OneShot \/ "timer" \notin held[h]
  \/ /\ type \in {"WAKEUP_TIMER", "UNREGISTER_TIMER"}
     /\ life[h] = "live"
     /\ h \notin OneShot /\ "timer" \in held[h]
  \/ /\ type = DeleteType
     /\ life[h] = "live"
     /\ h \in Grouped => "timer" \notin held[h]
  \/ type \in RegisterTypes /\ life[h] = "live" /\ ChannelOf(type) \notin held[h]
  \/ type \in UnregisterTypes /\ life[h] # "deleted" /\ ChannelOf(type) \in held[h]

Gains(type) == IF type = "REGISTER_TIMER" THEN {"timer"}
               ELSE IF type \in RegisterTypes THEN {ChannelOf(type)} ELSE {}

Loses(type) == IF type = "UNREGISTER_TIMER" THEN {"timer"}
               ELSE IF type \in UnregisterTypes THEN {ChannelOf(type)} ELSE {}

(* The owner's own bookkeeping when it posts: held registrations, and the  *)
(* mark set_cleaned() leaves.  rdma_destroy_id, called after an unregister *)
(* of the cma channel, discards the unread events of that id.              *)
OwnerPosts(type, h, unread) ==
  /\ held' = [held EXCEPT ![h] = (@ \cup Gains(type)) \ Loses(type)]
  /\ life' = IF type = DeleteType THEN [life EXCEPT ![h] = "dying"] ELSE life
  /\ cm_events' = IF type = "UNREGISTER_RDMA_CM" THEN unread \ {h} ELSE unread

-----------------------------------------------------------------------------
Init ==
  /\ m_b_continue_running = TRUE
  /\ m_event_handler_tid = FALSE
  /\ m_reg_action_q = <<>>
  /\ m_is_sleeping = 1
  /\ pipe_in_epfd = FALSE
  /\ m_timer = [h \in Handlers |-> 0]
  /\ m_event_handler_map = [c \in Channels |-> {}]
  /\ cm_events = {}
  /\ fd_events = {}
  /\ life = [h \in Handlers |-> "live"]
  /\ held = [h \in Handlers |-> {}]
  /\ itc = "none"
  /\ cur = <<>>
  /\ ready = {}
  /\ due = {}
  /\ calling = {}
  /\ pc = [t \in Threads |-> "idle"]
  /\ arg = [t \in Threads |-> <<>>]
  /\ stopper = "idle"
  /\ posts = 0

-----------------------------------------------------------------------------
(* Application threads.  A call that finds the manager stopped returns     *)
(* without a trace.  The first call of all is made by do_global_ctors,     *)
(* under g_globals_lock, so no other thread posts before the internal      *)
(* thread exists.                                                          *)
AppTypes == ActionTypes \ {"REGISTER_RDMA_CM", "UNREGISTER_RDMA_CM"}

Post(t, type, h) ==
  /\ pc[t] = "idle"
  /\ m_b_continue_running
  /\ m_event_handler_tid \/ \A u \in Threads : pc[u] = "idle"
  /\ posts < MaxPosts
  /\ life[h] = "live" /\ MayPost(type, h) /\ ~OwnerLocked(h)
  /\ posts' = posts + 1
  /\ pc' = [pc EXCEPT ![t] = "start"]
  /\ arg' = [arg EXCEPT ![t] = [type |-> type, handler |-> h]]
  /\ UNCHANGED <<evhVars, queueVars, tblVars, evVars, ownVars, thrVars, stopper>>

StartThread(t) ==
  /\ pc[t] = "start"
  /\ pc' = [pc EXCEPT ![t] = "push"]
  /\ IF m_b_continue_running /\ ~m_event_handler_tid
     THEN m_event_handler_tid' = TRUE /\ itc' = "top"
     ELSE UNCHANGED <<m_event_handler_tid, itc>>
  /\ UNCHANGED <<m_b_continue_running, queueVars, tblVars, evVars, ownVars, cur,
                 ready, due, calling, arg, stopper, posts>>

Push(t) ==
  /\ pc[t] = "push"
  /\ ~QueueLocked
  /\ m_reg_action_q' = Append(m_reg_action_q, arg[t])
  /\ OwnerPosts(arg[t].type, arg[t].handler, cm_events)
  /\ pc' = [pc EXCEPT ![t] = "wakeup"]
  /\ arg' = [arg EXCEPT ![t] = <<>>]
  /\ UNCHANGED <<evhVars, m_is_sleeping, pipe_in_epfd, tblVars, fd_events,
                 thrVars, stopper, posts>>

(* wakeup_pipe::do_wakeup, in two steps: the read of m_is_sleeping and the *)
(* epoll_ctl(ADD) can be far apart, for no lock is held.                   *)
DoWakeupCheck(t) ==
  /\ pc[t] = "wakeup"
  /\ pc' = [pc EXCEPT ![t] = IF m_is_sleeping = 0 THEN "idle" ELSE "add"]
  /\ UNCHANGED <<evhVars, queueVars, tblVars, evVars, ownVars, thrVars, arg, stopper, posts>>

DoWakeupAdd(t) ==
  /\ pc[t] = "add"
  /\ pc' = [pc EXCEPT ![t] = "idle"]
  /\ pipe_in_epfd' = TRUE
  /\ UNCHANGED <<evhVars, m_reg_action_q, m_is_sleeping, tblVars, evVars, ownVars,
                 thrVars, arg, stopper, posts>>

-----------------------------------------------------------------------------
(* Mutant of StopThread: no do_wakeup.                                     *)
StopThreadSilently ==
  /\ stopper = "idle"
  /\ m_b_continue_running
  /\ m_b_continue_running' = FALSE
  /\ stopper' = "join"
  /\ UNCHANGED <<m_event_handler_tid, queueVars, tblVars, evVars, ownVars,
                 thrVars, appVars, posts>>

(* stop_thread: clear the flag, wake the internal thread up, join it.      *)
StopThread ==
  /\ stopper = "idle"
  /\ m_b_continue_running
  /\ m_b_continue_running' = FALSE
  /\ stopper' = "wakeup"
  /\ UNCHANGED <<m_event_handler_tid, queueVars, tblVars, evVars, ownVars,
                 thrVars, appVars, posts>>

StopWakeupCheck ==
  /\ stopper = "wakeup"
  /\ stopper' = IF m_is_sleeping = 0 THEN "join" ELSE "add"
  /\ UNCHANGED <<evhVars, queueVars, tblVars, evVars, ownVars, thrVars, appVars, posts>>

StopWakeupAdd ==
  /\ stopper = "add"
  /\ stopper' = "join"
  /\ pipe_in_epfd' = TRUE
  /\ UNCHANGED <<evhVars, m_reg_action_q, m_is_sleeping, tblVars, evVars, ownVars,
                 thrVars, appVars, posts>>

StopJoin ==
  /\ stopper = "join"
  /\ m_event_handler_tid => itc = "exit"
  /\ stopper' = "done"
  /\ m_event_handler_tid' = FALSE
  /\ UNCHANGED <<m_b_continue_running, queueVars, tblVars, evVars, ownVars,
                 thrVars, appVars, posts>>

-----------------------------------------------------------------------------
(* Callbacks.  A callback of h runs on the internal thread; it may post an *)
(* action for h, and the periodic timer of a cache table (its garbage      *)
(* collector) may post the delete of any object.  m_is_sleeping is 1 while *)
(* a callback runs, so the do_wakeup of that post always adds the pipe.    *)
InternalPost(type, h) ==
  /\ m_b_continue_running
  /\ posts < MaxPosts
  /\ MayPost(type, h) /\ ~OwnerLocked(h)
  /\ posts' = posts + 1
  /\ m_reg_action_q' = Append(m_reg_action_q, [type |-> type, handler |-> h])
  /\ pipe_in_epfd' = TRUE

CallbackOf(h, unread) ==
  \/ /\ cm_events' = unread
     /\ UNCHANGED <<m_reg_action_q, pipe_in_epfd, ownVars, posts>>
  \/ \E type \in ActionTypes, g \in Handlers :
       /\ g = h \/ type = DeleteType
       /\ InternalPost(type, g)
       /\ OwnerPosts(type, g, unread)

(* event_handler_manager::thread_loop, from the top of the loop.           *)
LoopTop ==
  /\ itc = "top"
  /\ calling' = {}
  /\ \/ /\ ~m_b_continue_running
        /\ itc' = "exit"
        /\ UNCHANGED due
     \/ /\ m_b_continue_running
        /\ due' \in SUBSET {h \in Handlers : m_timer[h] > 0}
        /\ itc' = IF due' = {} THEN "wait" ELSE "expired"
  /\ UNCHANGED <<evhVars, queueVars, tblVars, evVars, ownVars, cur, ready,
                 appVars, stopper, posts>>

Readable ==
  {c \in {"ibverbs"} : m_event_handler_map[c] # {} /\ c \in fd_events}
  \cup {c \in {"rdma_cm"} : m_event_handler_map[c] # {} /\ cm_events # {}}
  \cup {c \in {"command"} : c \in fd_events}
  \cup {c \in {Wakeup} : pipe_in_epfd}

(* epoll_wait returns what is readable; when nothing is, a signal or, if a *)
(* timer is registered, the timeout ends the wait.                         *)
EpollWait ==
  /\ itc = "wait"
  /\ Readable # {}
  /\ ready' = Readable
  /\ itc' = IF Wakeup \in Readable THEN "drain" ELSE "timers"
  /\ calling' = {}
  /\ UNCHANGED <<evhVars, queueVars, tblVars, evVars, ownVars, cur, due,
                 appVars, stopper, posts>>

EpollTimeout ==
  /\ itc = "wait"
  /\ Readable = {}
  /\ \E h \in Handlers : m_timer[h] > 0
  /\ itc' = "timers"
  /\ calling' = {}
  /\ UNCHANGED <<evhVars, queueVars, tblVars, evVars, ownVars, cur, ready, due,
                 appVars, stopper, posts>>

EpollError ==
  /\ itc = "wait"
  /\ Readable = {}
  /\ itc' = "top"
  /\ calling' = {}
  /\ UNCHANGED <<evhVars, queueVars, tblVars, evVars, ownVars, cur, ready, due,
                 appVars, stopper, posts>>

(* The drain loop: pop one action under the lock and handle it; when the   *)
(* queue is empty take the pipe out of the epoll set, still under the lock.*)
PopAction ==
  /\ itc = "drain"
  /\ m_reg_action_q # <<>>
  /\ cur' = <<Head(m_reg_action_q)>>
  /\ m_reg_action_q' = Tail(m_reg_action_q)
  /\ itc' = "handle"
  /\ calling' = {}
  /\ UNCHANGED <<evhVars, m_is_sleeping, pipe_in_epfd, tblVars, evVars, ownVars,
                 ready, due, appVars, stopper, posts>>

(* Mutant of ReturnFromSleep: m_is_sleeping is not reset.                  *)
ReturnStillSleeping ==
  /\ itc = "drain"
  /\ m_reg_action_q = <<>>
  /\ itc' = "remove_fd"
  /\ calling' = {}
  /\ UNCHANGED <<evhVars, queueVars, tblVars, evVars, ownVars,
                 cur, ready, due, appVars, stopper, posts>>

ReturnFromSleep ==
  /\ itc = "drain"
  /\ m_reg_action_q = <<>>
  /\ m_is_sleeping' = 0
  /\ itc' = "remove_fd"
  /\ calling' = {}
  /\ UNCHANGED <<evhVars, m_reg_action_q, pipe_in_epfd, tblVars, evVars, ownVars,
                 cur, ready, due, appVars, stopper, posts>>

RemoveWakeupFd ==
  /\ itc = "remove_fd"
  /\ pipe_in_epfd' = FALSE
  /\ itc' = "to_sleep"
  /\ calling' = {}
  /\ UNCHANGED <<evhVars, m_reg_action_q, m_is_sleeping, tblVars, evVars, ownVars,
                 cur, ready, due, appVars, stopper, posts>>

GoingToSleep ==
  /\ itc = "to_sleep"
  /\ m_is_sleeping' = m_is_sleeping + 1
  /\ itc' = "timers"
  /\ calling' = {}
  /\ UNCHANGED <<evhVars, m_reg_action_q, pipe_in_epfd, tblVars, evVars, ownVars,
                 cur, ready, due, appVars, stopper, posts>>

-----------------------------------------------------------------------------
(* handle_registration_action, by the type of the popped action.           *)
TimerAction(type, h) ==
  /\ m_timer' = [m_timer EXCEPT ![h] =
       IF type = "REGISTER_TIMER" THEN @ + 1
       ELSE IF type = "UNREGISTER_TIMER" /\ @ > 0 THEN @ - 1
       ELSE @]                                   \* a wakeup moves the node
  /\ UNCHANGED <<m_reg_action_q, pipe_in_epfd, m_event_handler_map, evVars, ownVars>>

(* The first registration on the async fd empties it.                      *)
RegisterAction(type, h) ==
  LET c == ChannelOf(type) IN
  /\ m_event_handler_map' = [m_event_handler_map EXCEPT ![c] = @ \cup {h}]
  /\ fd_events' = IF m_event_handler_map[c] = {} THEN fd_events \ {c} ELSE fd_events
  /\ UNCHANGED <<m_reg_action_q, pipe_in_epfd, m_timer, cm_events, ownVars>>

UnregisterAction(type, h) ==
  /\ m_event_handler_map' = [m_event_handler_map EXCEPT ![ChannelOf(type)] = @ \ {h}]
  /\ UNCHANGED <<m_reg_action_q, pipe_in_epfd, m_timer, evVars, ownVars>>

(* Mutant of DestructorActions: the destructor leaves the ibverbs          *)
(* registration behind.                                                    *)
DestructorForgetsIbverbs(h) ==
  IF "rdma_cm" \in held[h] THEN <<[type |-> "UNREGISTER_RDMA_CM", handler |-> h]>> ELSE <<>>

(* The destructor of a neighbour ends the registrations it still holds, by *)
(* posting again: those actions are drained in the same loop.              *)
DestructorActions(h) ==
  (IF "ibverbs" \in held[h] THEN <<[type |-> "UNREGISTER_IBVERBS", handler |-> h]>> ELSE <<>>)
  \o (IF "rdma_cm" \in held[h] THEN <<[type |-> "UNREGISTER_RDMA_CM", handler |-> h]>> ELSE <<>>)

DeleteAction(h) ==
  /\ m_timer' = IF h \in Grouped THEN m_timer ELSE [m_timer EXCEPT ![h] = 0]
  /\ life' = [life EXCEPT ![h] = "deleted"]
  /\ held' = [held EXCEPT ![h] = {}]
  /\ cm_events' = cm_events \ {h}
  /\ m_reg_action_q' = m_reg_action_q \o DestructorActions(h)
  /\ pipe_in_epfd' = (pipe_in_epfd \/ DestructorActions(h) # <<>>)
  /\ UNCHANGED <<m_event_handler_map, fd_events>>

ActionEffect(type, h) ==
  \/ /\ ~m_b_continue_running
     /\ UNCHANGED <<m_reg_action_q, pipe_in_epfd, tblVars, evVars, ownVars>>
  \/ m_b_continue_running /\ type \in TimerTypes /\ TimerAction(type, h)
  \/ m_b_continue_running /\ type \in RegisterTypes /\ RegisterAction(type, h)
  \/ m_b_continue_running /\ type \in UnregisterTypes /\ UnregisterAction(type, h)
  \/ m_b_continue_running /\ type = DeleteType /\ DeleteAction(h)

HandleRegistrationAction ==
  /\ itc = "handle"
  /\ ActionEffect(cur[1].type, cur[1].handler)
  /\ cur' = <<>>
  /\ itc' = "drain"
  /\ calling' = {}
  /\ UNCHANGED <<evhVars, m_is_sleeping, ready, due, appVars, stopper, posts>>

-----------------------------------------------------------------------------
(* The timers, after the pipe and before the events.                       *)
UpdateTimeout ==
  /\ itc = "timers"
  /\ due' \in SUBSET {h \in Handlers : m_timer[h] > 0}
  /\ itc' = IF due' = {} THEN "events" ELSE "fire"
  /\ calling' = {}
  /\ UNCHANGED <<evhVars, queueVars, tblVars, evVars, ownVars, cur, ready,
                 appVars, stopper, posts>>

(* process_registered_timers: call the handler, then free the node of a    *)
(* one-shot timer.                                                         *)
FireTimer(h) ==
  /\ itc \in {"expired", "fire"}
  /\ h \in due
  /\ due' = due \ {h}
  /\ calling' = {h}
  /\ m_timer' = IF h \in OneShot THEN [m_timer EXCEPT ![h] = @ - 1] ELSE m_timer
  /\ CallbackOf(h, cm_events)
  /\ itc' = IF due' # {} THEN itc ELSE IF itc = "expired" THEN "top" ELSE "events"
  /\ UNCHANGED <<evhVars, m_is_sleeping, m_event_handler_map, fd_events, cur, ready,
                 appVars, stopper>>

-----------------------------------------------------------------------------
(* The events loop visits the fds epoll_wait returned; their handlers may  *)
(* have gone since.                                                        *)
Visit(c) ==
  /\ itc = "events"
  /\ m_b_continue_running
  /\ c \in ready
  /\ ready' = ready \ {c}
  /\ UNCHANGED <<evhVars, m_is_sleeping, tblVars, itc, cur, due, appVars, stopper>>

NoEventHandler(c) ==
  /\ Visit(c)
  /\ c \in Channels /\ m_event_handler_map[c] = {}
  /\ calling' = {}
  /\ UNCHANGED <<m_reg_action_q, pipe_in_epfd, evVars, ownVars, posts>>

(* One event is read from the channel, if there still is one.  It may be   *)
(* that of any id, and is dropped when that id is not registered.          *)
ProcessRdmaCmEvent ==
  /\ Visit("rdma_cm")
  /\ m_event_handler_map["rdma_cm"] # {}
  /\ UNCHANGED fd_events
  /\ \/ /\ cm_events = {}
        /\ calling' = {}
        /\ UNCHANGED <<m_reg_action_q, pipe_in_epfd, cm_events, ownVars, posts>>
     \/ \E h \in cm_events \ m_event_handler_map["rdma_cm"] :
        /\ calling' = {}
        /\ cm_events' = cm_events \ {h}
        /\ UNCHANGED <<m_reg_action_q, pipe_in_epfd, ownVars, posts>>
     \/ \E h \in cm_events \cap m_event_handler_map["rdma_cm"] :
        /\ calling' = {h}
        /\ CallbackOf(h, cm_events \ {h})

ProcessIbverbsEvent ==
  /\ Visit("ibverbs")
  /\ m_event_handler_map["ibverbs"] # {}
  /\ fd_events' = fd_events \ {"ibverbs"}
  /\ \/ /\ "ibverbs" \notin fd_events
        /\ calling' = {}
        /\ UNCHANGED <<m_reg_action_q, pipe_in_epfd, cm_events, ownVars, posts>>
     \/ /\ "ibverbs" \in fd_events
        /\ calling' = m_event_handler_map["ibverbs"]
        /\ \E h \in m_event_handler_map["ibverbs"] : CallbackOf(h, cm_events)

(* The netlink event is passed on, under the table's lock, to an object    *)
(* that is still in the table, if it names one.                            *)
ProcessCommandEvent ==
  /\ Visit("command")
  /\ fd_events' = fd_events \ {"command"}
  /\ \/ /\ calling' = {}
        /\ UNCHANGED <<m_reg_action_q, pipe_in_epfd, cm_events, ownVars, posts>>
     \/ \E h \in Handlers :
        /\ life[h] = "live"
        /\ calling' = {h}
        /\ CallbackOf(h, cm_events)

EventsDone ==
  /\ itc = "events"
  /\ ~m_b_continue_running \/ ready \subseteq {Wakeup}
  /\ ready' = {}
  /\ calling' = {}
  /\ itc' = "top"
  /\ UNCHANGED <<evhVars, queueVars, tblVars, evVars, ownVars, cur, due,
                 appVars, stopper, posts>>

-----------------------------------------------------------------------------
(* The kernel raises events; rdma_cm only for an id that exists.  An event *)
(* that nobody will read any more, or that the first registration on the   *)
(* async fd is sure to discard, is left out.                               *)
RdmaCmEvent(h) ==
  /\ itc # "exit"
  /\ "rdma_cm" \in held[h]
  /\ cm_events' = cm_events \cup {h}
  /\ UNCHANGED <<evhVars, queueVars, tblVars, fd_events, ownVars, thrVars, appVars, stopper, posts>>

FdEvent(c) ==
  /\ itc \notin {"none", "exit"}
  /\ c \notin fd_events
  /\ c = "ibverbs" => \E h \in Handlers : c \in held[h] \/ h \in m_event_handler_map[c]
  /\ fd_events' = fd_events \cup {c}
  /\ UNCHANGED <<evhVars, queueVars, tblVars, cm_events, ownVars, thrVars, appVars, stopper, posts>>

Stopped == stopper = "done" /\ UNCHANGED vars

ThreadLoop ==
  \/ LoopTop
  \/ EpollWait \/ EpollTimeout
  \/ PopAction \/ ReturnFromSleep \/ RemoveWakeupFd \/ GoingToSleep
  \/ HandleRegistrationAction
  \/ UpdateTimeout
  \/ \E h \in Handlers : FireTimer(h)
  \/ \E c \in Channels : NoEventHandler(c)
  \/ ProcessRdmaCmEvent \/ ProcessIbverbsEvent \/ ProcessCommandEvent \/ EventsDone

PostNewRegAction(t) ==
  StartThread(t) \/ Push(t) \/ DoWakeupCheck(t) \/ DoWakeupAdd(t)

StopSteps == StopWakeupCheck \/ StopWakeupAdd \/ StopJoin

Next ==
  \/ \E t \in Threads, type \in AppTypes, h \in Handlers : Post(t, type, h)
  \/ \E t \in Threads : PostNewRegAction(t)
  \/ StopThread \/ StopSteps
  \/ ThreadLoop \/ EpollError
  \/ \E h \in Handlers : RdmaCmEvent(h)
  \/ \E c \in {"ibverbs", "command"} : FdEvent(c)
  \/ Stopped

Spec == Init /\ [][Next]_vars

(* Every thread keeps running, but nothing promises that a signal ends the *)
(* wait of the internal thread.  Timer callbacks are faster than the timers *)
(* expire: the loop does not find an expired timer for ever, and so gets   *)
(* to epoll_wait again and again.                                          *)
Fairness ==
  /\ \A t \in Threads : WF_vars(PostNewRegAction(t))
  /\ WF_vars(StopSteps)
  /\ WF_vars(ThreadLoop)
  /\ SF_vars(LoopTop /\ itc' = "wait")

FairSpec == Spec /\ Fairness

-----------------------------------------------------------------------------
TypeOK ==
  /\ m_b_continue_running \in BOOLEAN
  /\ m_event_handler_tid \in BOOLEAN
  /\ m_reg_action_q \in Seq(RegAction)
  /\ m_is_sleeping \in {0, 1}
  /\ pipe_in_epfd \in BOOLEAN
  /\ m_timer \in [Handlers -> Nat]
  /\ m_event_handler_map \in [Channels -> SUBSET Handlers]
  /\ cm_events \subseteq Handlers
  /\ fd_events \subseteq {"ibverbs", "command"}
  /\ life \in [Handlers -> {"live", "dying", "deleted"}]
  /\ held \in [Handlers -> SUBSET ({"timer"} \cup Channels)]
  /\ itc \in {"none", "top", "expired", "wait", "drain", "handle", "remove_fd",
              "to_sleep", "timers", "fire", "events", "exit"}
  /\ cur \in Seq(RegAction)
  /\ Len(cur) = IF itc = "handle" THEN 1 ELSE 0
  /\ ready \subseteq Fds
  /\ due \subseteq Handlers
  /\ calling \subseteq Handlers
  /\ pc \in [Threads -> {"idle", "start", "push", "wakeup", "add"}]
  /\ DOMAIN arg = Threads
  /\ \A t \in Threads : pc[t] \in {"start", "push"} => arg[t] \in RegAction
  /\ stopper \in {"idle", "wakeup", "add", "join", "done"}
  /\ posts \in 0..MaxPosts

(* The internal thread never sleeps on a queue nobody will tell it about:  *)
(* if it waits in epoll_wait while an action is queued, the pipe is in its *)
(* epoll set or a thread that posted has yet to finish do_wakeup, although *)
(* do_wakeup runs after post_new_reg_action has released the queue lock.   *)
NoLostWakeup ==
  itc = "wait" /\ m_reg_action_q # <<>> =>
    pipe_in_epfd \/ \E t \in Threads : pc[t] \in {"wakeup", "add"}

(* stop_thread cannot join a thread that sleeps for good: once the flag is *)
(* cleared a waiting internal thread has been or is being woken up.        *)
NoLostStop ==
  itc = "wait" /\ ~m_b_continue_running => pipe_in_epfd \/ stopper \in {"wakeup", "add"}

(* No timer, rdma_cm, ibverbs or netlink callback is ever made on an       *)
(* object that unregister_timers_event_and_delete has deleted, although    *)
(* its registrations end by actions its own destructor posts.              *)
NoCallAfterDelete == \A h \in calling : life[h] # "deleted"

(* An object whose delete was posted is deleted, unless the manager stops. *)
DeleteHappens ==
  \A h \in Handlers : life[h] = "dying" ~> (life[h] = "deleted" \/ ~m_b_continue_running)

(* stop_thread returns.                                                    *)
StopReturns == ~m_b_continue_running ~> stopper = "done"
====
