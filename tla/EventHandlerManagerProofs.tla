---------------------- MODULE EventHandlerManagerProofs ---------------------
(* Proofs about EventHandlerManager.                                       *)
EXTENDS EventHandlerManager, TLAPS

(* m_is_sleeping is 0 exactly while the internal thread holds the queue    *)
(* lock to take the pipe out of its epoll set; the queue is then empty.    *)
(* Only handlers that have a timer are found expired.                      *)
SleepInv ==
  /\ m_is_sleeping = 0 <=> QueueLocked
  /\ QueueLocked => m_reg_action_q = <<>>
  /\ due # {} => itc \in {"expired", "fire"}
  /\ \A h \in due : m_timer[h] > 0
  /\ ~m_event_handler_tid /\ m_b_continue_running => itc = "none"
  /\ stopper # "idle" => ~m_b_continue_running

(* The reason why no wakeup is lost: a queued action has a witness at every*)
(* moment, be it the pipe, the drain loop, or a thread inside do_wakeup.   *)
WakeInv ==
  /\ m_reg_action_q # <<>> =>
       \/ pipe_in_epfd
       \/ itc \in {"drain", "handle"}
       \/ \E t \in Threads : pc[t] \in {"wakeup", "add"}
  /\ itc = "wait" /\ ~m_b_continue_running => pipe_in_epfd \/ stopper \in {"wakeup", "add"}

(* What a post does to the owner's bookkeeping keeps its types.            *)
LEMMA OwnerPostsType ==
  ASSUME TypeOK, NEW type \in ActionTypes, NEW h \in Handlers,
         NEW unread \in SUBSET Handlers, OwnerPosts(type, h, unread)
  PROVE  /\ held' \in [Handlers -> SUBSET ({"timer"} \cup Channels)]
         /\ life' \in [Handlers -> {"live", "dying", "deleted"}]
         /\ cm_events' \in SUBSET Handlers
<1>1. ChannelOf(type) \in Channels
  BY DEF ChannelOf, Channels
<1>2. Gains(type) \in SUBSET ({"timer"} \cup Channels)
  BY <1>1 DEF Gains
<1>3. held' \in [Handlers -> SUBSET ({"timer"} \cup Channels)]
  BY <1>2 DEF OwnerPosts, TypeOK
<1> QED
  BY <1>3 DEF OwnerPosts, TypeOK

(* A callback, whatever it posts, keeps the types.                         *)
LEMMA CallbackOfType ==
  ASSUME TypeOK, NEW h \in Handlers, NEW unread \in SUBSET Handlers, CallbackOf(h, unread)
  PROVE  /\ held' \in [Handlers -> SUBSET ({"timer"} \cup Channels)]
         /\ life' \in [Handlers -> {"live", "dying", "deleted"}]
         /\ cm_events' \in SUBSET Handlers
         /\ m_reg_action_q' \in Seq(RegAction)
         /\ pipe_in_epfd' \in BOOLEAN
         /\ posts' \in 0..MaxPosts
<1>1. CASE cm_events' = unread /\ UNCHANGED <<m_reg_action_q, pipe_in_epfd, ownVars, posts>>
  BY <1>1 DEF TypeOK, ownVars
<1>2. ASSUME NEW type \in ActionTypes, NEW g \in Handlers,
             InternalPost(type, g), OwnerPosts(type, g, unread)
      PROVE  /\ held' \in [Handlers -> SUBSET ({"timer"} \cup Channels)]
             /\ life' \in [Handlers -> {"live", "dying", "deleted"}]
             /\ cm_events' \in SUBSET Handlers
             /\ m_reg_action_q' \in Seq(RegAction)
             /\ pipe_in_epfd' \in BOOLEAN
             /\ posts' \in 0..MaxPosts
  <2>1. [type |-> type, handler |-> g] \in RegAction
    BY DEF RegAction
  <2> QED
    BY <1>2, <2>1, OwnerPostsType, ConstantsAssumption DEF InternalPost, TypeOK
<1> QED
  BY <1>1, <1>2 DEF CallbackOf

(* Every step keeps the types.                                             *)
LEMMA TypeOKStep == TypeOK /\ SleepInv /\ [Next]_vars => TypeOK'
<1> SUFFICES ASSUME TypeOK, SleepInv, [Next]_vars PROVE TypeOK'
  OBVIOUS
<1> USE ConstantsAssumption DEF vars, evhVars, queueVars, tblVars, evVars, ownVars, thrVars, appVars
<1>a. ASSUME NEW t \in Threads, NEW type \in AppTypes, NEW h \in Handlers, Post(t, type, h)
      PROVE  TypeOK'
  <2>1. [type |-> type, handler |-> h] \in RegAction
    BY DEF RegAction, AppTypes
  <2> QED
    BY <1>a, <2>1 DEF TypeOK, Post
<1>b. ASSUME NEW t \in Threads, Push(t)
      PROVE  TypeOK'
  <2>1. arg[t].type \in ActionTypes /\ arg[t].handler \in Handlers
    BY <1>b DEF TypeOK, Push, RegAction
  <2>2. OwnerPosts(arg[t].type, arg[t].handler, cm_events) /\ cm_events \in SUBSET Handlers
    BY <1>b DEF Push, TypeOK
  <2>3. /\ held' \in [Handlers -> SUBSET ({"timer"} \cup Channels)]
        /\ life' \in [Handlers -> {"live", "dying", "deleted"}]
        /\ cm_events' \in SUBSET Handlers
    BY <2>1, <2>2, OwnerPostsType
  <2> QED
    BY <1>b, <2>3 DEF TypeOK, Push
<1>c. ASSUME PopAction
      PROVE  TypeOK'
  <2>1. /\ Head(m_reg_action_q) \in RegAction
        /\ Tail(m_reg_action_q) \in Seq(RegAction)
    BY <1>c DEF TypeOK, PopAction
  <2>2. cur' \in Seq(RegAction) /\ Len(cur') = 1
    BY <1>c, <2>1 DEF PopAction
  <2> QED
    BY <1>c, <2>1, <2>2 DEF TypeOK, PopAction
<1>d. ASSUME GoingToSleep
      PROVE  TypeOK'
  BY <1>d DEF TypeOK, SleepInv, QueueLocked, GoingToSleep
<1>e. ASSUME HandleRegistrationAction
      PROVE  TypeOK'
  <2>1. PICK type \in ActionTypes, h \in Handlers : ActionEffect(type, h)
    <3>1. cur \in Seq(RegAction) /\ Len(cur) = 1
      BY <1>e DEF TypeOK, HandleRegistrationAction
    <3>2. cur[1] \in RegAction
      BY <3>1
    <3> QED
      BY <1>e, <3>2 DEF RegAction, HandleRegistrationAction
  <2>2. ChannelOf(type) \in Channels
    BY DEF ChannelOf, Channels
  <2>3. CASE UNCHANGED <<m_reg_action_q, pipe_in_epfd, tblVars, evVars, ownVars>>
    BY <1>e, <2>3 DEF TypeOK, HandleRegistrationAction
  <2>4. CASE TimerAction(type, h)
    BY <1>e, <2>1, <2>4 DEF TypeOK, HandleRegistrationAction, TimerAction
  <2>5. CASE RegisterAction(type, h)
    <3>1. m_event_handler_map' \in [Channels -> SUBSET Handlers]
      BY <2>2, <2>5 DEF TypeOK, RegisterAction
    <3>2. fd_events' \subseteq {"ibverbs", "command"}
      BY <2>5 DEF TypeOK, RegisterAction
    <3>3. UNCHANGED <<m_reg_action_q, pipe_in_epfd, m_timer, cm_events, ownVars>>
      BY <2>5 DEF RegisterAction
    <3> QED
      BY <1>e, <3>1, <3>2, <3>3 DEF TypeOK, HandleRegistrationAction
  <2>6. CASE UnregisterAction(type, h)
    BY <1>e, <2>1, <2>2, <2>6 DEF TypeOK, HandleRegistrationAction, UnregisterAction
  <2>7. CASE DeleteAction(h)
    <3>1. DestructorActions(h) \in Seq(RegAction)
      <4>1. /\ [type |-> "UNREGISTER_IBVERBS", handler |-> h] \in RegAction
            /\ [type |-> "UNREGISTER_RDMA_CM", handler |-> h] \in RegAction
        BY DEF RegAction, ActionTypes, UnregisterTypes
      <4> QED
        BY <4>1 DEF DestructorActions
    <3>2. m_reg_action_q' \in Seq(RegAction)
      BY <2>7, <3>1 DEF DeleteAction, TypeOK
    <3> QED
      BY <1>e, <2>7, <3>2 DEF TypeOK, HandleRegistrationAction, DeleteAction
  <2> QED
    BY <2>1, <2>3, <2>4, <2>5, <2>6, <2>7 DEF ActionEffect
<1>f. ASSUME NEW h \in Handlers, FireTimer(h)
      PROVE  TypeOK'
  <2>1. CallbackOf(h, cm_events) /\ cm_events \in SUBSET Handlers
    BY <1>f DEF FireTimer, TypeOK
  <2>2. h \in OneShot => m_timer[h] - 1 \in Nat
    BY <1>f DEF FireTimer, TypeOK, SleepInv
  <2>3. m_timer' \in [Handlers -> Nat]
    BY <1>f, <2>2 DEF FireTimer, TypeOK
  <2> QED
    BY <1>f, <2>1, <2>3, CallbackOfType DEF TypeOK, FireTimer
<1>g. ASSUME ProcessRdmaCmEvent
      PROVE  TypeOK'
  <2>1. CASE UNCHANGED <<m_reg_action_q, pipe_in_epfd, ownVars, posts>> /\ cm_events' \subseteq cm_events /\ calling' = {}
    BY <1>g, <2>1 DEF TypeOK, ProcessRdmaCmEvent, Visit
  <2>2. ASSUME NEW h \in cm_events, calling' = {h}, CallbackOf(h, cm_events \ {h})
        PROVE  TypeOK'
    <3>1. h \in Handlers /\ cm_events \ {h} \in SUBSET Handlers
      BY DEF TypeOK
    <3> QED
      BY <1>g, <2>2, <3>1, CallbackOfType DEF TypeOK, ProcessRdmaCmEvent, Visit
  <2> QED
    BY <1>g, <2>1, <2>2 DEF ProcessRdmaCmEvent
<1>h. ASSUME ProcessIbverbsEvent
      PROVE  TypeOK'
  <2>1. CASE UNCHANGED <<m_reg_action_q, pipe_in_epfd, cm_events, ownVars, posts>> /\ calling' = {}
    BY <1>h, <2>1 DEF TypeOK, ProcessIbverbsEvent, Visit
  <2>2. ASSUME NEW h \in m_event_handler_map["ibverbs"],
               calling' = m_event_handler_map["ibverbs"], CallbackOf(h, cm_events)
        PROVE  TypeOK'
    <3>1. m_event_handler_map["ibverbs"] \subseteq Handlers /\ cm_events \in SUBSET Handlers
      BY DEF TypeOK, Channels
    <3> QED
      BY <1>h, <2>2, <3>1, CallbackOfType DEF TypeOK, ProcessIbverbsEvent, Visit
  <2> QED
    BY <1>h, <2>1, <2>2 DEF ProcessIbverbsEvent
<1>i. ASSUME ProcessCommandEvent
      PROVE  TypeOK'
  <2>1. CASE UNCHANGED <<m_reg_action_q, pipe_in_epfd, cm_events, ownVars, posts>> /\ calling' = {}
    BY <1>i, <2>1 DEF TypeOK, ProcessCommandEvent, Visit
  <2>2. ASSUME NEW h \in Handlers, calling' = {h}, CallbackOf(h, cm_events)
        PROVE  TypeOK'
    <3>1. cm_events \in SUBSET Handlers
      BY DEF TypeOK
    <3> QED
      BY <1>i, <2>2, <3>1, CallbackOfType DEF TypeOK, ProcessCommandEvent, Visit
  <2> QED
    BY <1>i, <2>1, <2>2 DEF ProcessCommandEvent
<1>1. ASSUME NEW t \in Threads, StartThread(t)
      PROVE  TypeOK'
  BY <1>1 DEF TypeOK, SleepInv, StartThread
<1>2. ASSUME NEW t \in Threads, DoWakeupCheck(t)
      PROVE  TypeOK'
  BY <1>2 DEF TypeOK, DoWakeupCheck
<1>3. ASSUME NEW t \in Threads, DoWakeupAdd(t)
      PROVE  TypeOK'
  BY <1>3 DEF TypeOK, DoWakeupAdd
<1>4. ASSUME StopThread
      PROVE  TypeOK'
  BY <1>4 DEF TypeOK, StopThread
<1>5. ASSUME StopWakeupCheck
      PROVE  TypeOK'
  BY <1>5 DEF TypeOK, StopWakeupCheck
<1>6. ASSUME StopWakeupAdd
      PROVE  TypeOK'
  BY <1>6 DEF TypeOK, StopWakeupAdd
<1>7. ASSUME StopJoin
      PROVE  TypeOK'
  BY <1>7 DEF TypeOK, StopJoin
<1>8. ASSUME LoopTop
      PROVE  TypeOK'
  BY <1>8 DEF TypeOK, LoopTop
<1>9. ASSUME EpollWait
      PROVE  TypeOK'
  BY <1>9 DEF TypeOK, EpollWait, Readable, Fds, Channels, Wakeup
<1>10. ASSUME EpollTimeout
      PROVE  TypeOK'
  BY <1>10 DEF TypeOK, EpollTimeout
<1>11. ASSUME EpollError
      PROVE  TypeOK'
  BY <1>11 DEF TypeOK, EpollError
<1>12. ASSUME ReturnFromSleep
      PROVE  TypeOK'
  BY <1>12 DEF TypeOK, ReturnFromSleep
<1>13. ASSUME RemoveWakeupFd
      PROVE  TypeOK'
  BY <1>13 DEF TypeOK, RemoveWakeupFd
<1>14. ASSUME UpdateTimeout
      PROVE  TypeOK'
  BY <1>14 DEF TypeOK, UpdateTimeout
<1>15. ASSUME NEW c \in Channels, NoEventHandler(c)
      PROVE  TypeOK'
  BY <1>15 DEF TypeOK, NoEventHandler, Visit
<1>16. ASSUME EventsDone
      PROVE  TypeOK'
  BY <1>16 DEF TypeOK, EventsDone
<1>17. ASSUME NEW h \in Handlers, RdmaCmEvent(h)
      PROVE  TypeOK'
  BY <1>17 DEF TypeOK, RdmaCmEvent
<1>18. ASSUME NEW c \in {"ibverbs", "command"}, FdEvent(c)
      PROVE  TypeOK'
  BY <1>18 DEF TypeOK, FdEvent
<1>19. ASSUME Stopped
      PROVE  TypeOK'
  BY <1>19 DEF TypeOK, Stopped
<1>z. CASE UNCHANGED vars
  BY <1>z DEF TypeOK
<1> QED
  BY <1>a, <1>b, <1>c, <1>d, <1>e, <1>f, <1>g, <1>h, <1>i, <1>1, <1>2, <1>3, <1>4, <1>5, <1>6, <1>7, <1>8, <1>9, <1>10, <1>11, <1>12, <1>13, <1>14, <1>15, <1>16, <1>17, <1>18, <1>19,
     <1>z
  DEF Next, ThreadLoop, PostNewRegAction, StopSteps

(* Every step keeps SleepInv and WakeInv.  A push happens outside the      *)
(* locked section and leaves its thread in front of do_wakeup; do_wakeup   *)
(* gives up only while the queue is locked, hence empty.                   *)
LEMMA WakeInvStep == TypeOK /\ SleepInv /\ WakeInv /\ [Next]_vars => SleepInv' /\ WakeInv'
<1> SUFFICES ASSUME TypeOK, SleepInv, WakeInv, [Next]_vars PROVE SleepInv' /\ WakeInv'
  OBVIOUS
<1> USE DEF SleepInv, WakeInv, QueueLocked, vars, evhVars, queueVars, tblVars, evVars, ownVars, thrVars, appVars
<1>1. ASSUME NEW t \in Threads, NEW type \in AppTypes, NEW h \in Handlers, Post(t, type, h)
      PROVE  SleepInv' /\ WakeInv'
  BY <1>1 DEF Post, TypeOK
<1>2. ASSUME NEW t \in Threads, StartThread(t)
      PROVE  SleepInv' /\ WakeInv'
  BY <1>2 DEF StartThread, TypeOK
<1>3. ASSUME NEW t \in Threads, Push(t)
      PROVE  SleepInv' /\ WakeInv'
  BY <1>3 DEF Push, TypeOK
<1>4. ASSUME NEW t \in Threads, DoWakeupCheck(t)
      PROVE  SleepInv' /\ WakeInv'
  BY <1>4 DEF DoWakeupCheck, TypeOK
<1>5. ASSUME NEW t \in Threads, DoWakeupAdd(t)
      PROVE  SleepInv' /\ WakeInv'
  BY <1>5 DEF DoWakeupAdd, TypeOK
<1>6. ASSUME StopThread
      PROVE  SleepInv' /\ WakeInv'
  BY <1>6 DEF StopThread, TypeOK
<1>7. ASSUME StopWakeupCheck
      PROVE  SleepInv' /\ WakeInv'
  BY <1>7 DEF StopWakeupCheck, TypeOK
<1>8. ASSUME StopWakeupAdd
      PROVE  SleepInv' /\ WakeInv'
  BY <1>8 DEF StopWakeupAdd, TypeOK
<1>9. ASSUME StopJoin
      PROVE  SleepInv' /\ WakeInv'
  BY <1>9 DEF StopJoin, TypeOK
<1>10. ASSUME LoopTop
      PROVE  SleepInv' /\ WakeInv'
  BY <1>10 DEF LoopTop, TypeOK
<1>11. ASSUME EpollWait
      PROVE  SleepInv' /\ WakeInv'
  BY <1>11 DEF EpollWait, Readable, TypeOK
<1>12. ASSUME EpollTimeout
      PROVE  SleepInv' /\ WakeInv'
  BY <1>12 DEF EpollTimeout, TypeOK
<1>13. ASSUME EpollError
      PROVE  SleepInv' /\ WakeInv'
  BY <1>13 DEF EpollError, TypeOK
<1>14. ASSUME PopAction
      PROVE  SleepInv' /\ WakeInv'
  BY <1>14 DEF PopAction, TypeOK
<1>15. ASSUME ReturnFromSleep
      PROVE  SleepInv' /\ WakeInv'
  BY <1>15 DEF ReturnFromSleep, TypeOK
<1>16. ASSUME RemoveWakeupFd
      PROVE  SleepInv' /\ WakeInv'
  BY <1>16 DEF RemoveWakeupFd, TypeOK
<1>17. ASSUME GoingToSleep
      PROVE  SleepInv' /\ WakeInv'
  BY <1>17 DEF GoingToSleep, TypeOK
<1>18. ASSUME HandleRegistrationAction
      PROVE  SleepInv' /\ WakeInv'
  <2>1. itc = "handle" /\ due = {} /\ itc' = "drain" /\ due' = {}
    BY <1>18 DEF HandleRegistrationAction
  <2> QED
    BY <1>18, <2>1 DEF HandleRegistrationAction, TypeOK
<1>19. ASSUME UpdateTimeout
      PROVE  SleepInv' /\ WakeInv'
  BY <1>19 DEF UpdateTimeout, TypeOK
<1>20. ASSUME NEW h \in Handlers, FireTimer(h)
      PROVE  SleepInv' /\ WakeInv'
  <2>1. (m_reg_action_q' = m_reg_action_q /\ pipe_in_epfd' = pipe_in_epfd) \/ pipe_in_epfd'
    BY <1>20 DEF FireTimer, CallbackOf, InternalPost
  <2> QED
    BY <1>20, <2>1 DEF FireTimer, TypeOK
<1>21. ASSUME NEW c \in Channels, NoEventHandler(c)
      PROVE  SleepInv' /\ WakeInv'
  BY <1>21 DEF NoEventHandler, Visit, TypeOK
<1>22. ASSUME ProcessRdmaCmEvent
      PROVE  SleepInv' /\ WakeInv'
  <2>1. (m_reg_action_q' = m_reg_action_q /\ pipe_in_epfd' = pipe_in_epfd) \/ pipe_in_epfd'
    BY <1>22 DEF ProcessRdmaCmEvent, Visit, CallbackOf, InternalPost
  <2> QED
    BY <1>22, <2>1 DEF ProcessRdmaCmEvent, Visit, TypeOK
<1>23. ASSUME ProcessIbverbsEvent
      PROVE  SleepInv' /\ WakeInv'
  <2>1. (m_reg_action_q' = m_reg_action_q /\ pipe_in_epfd' = pipe_in_epfd) \/ pipe_in_epfd'
    BY <1>23 DEF ProcessIbverbsEvent, Visit, CallbackOf, InternalPost
  <2> QED
    BY <1>23, <2>1 DEF ProcessIbverbsEvent, Visit, TypeOK
<1>24. ASSUME ProcessCommandEvent
      PROVE  SleepInv' /\ WakeInv'
  <2>1. (m_reg_action_q' = m_reg_action_q /\ pipe_in_epfd' = pipe_in_epfd) \/ pipe_in_epfd'
    BY <1>24 DEF ProcessCommandEvent, Visit, CallbackOf, InternalPost
  <2> QED
    BY <1>24, <2>1 DEF ProcessCommandEvent, Visit, TypeOK
<1>25. ASSUME EventsDone
      PROVE  SleepInv' /\ WakeInv'
  BY <1>25 DEF EventsDone, TypeOK
<1>26. ASSUME NEW h \in Handlers, RdmaCmEvent(h)
      PROVE  SleepInv' /\ WakeInv'
  BY <1>26 DEF RdmaCmEvent, TypeOK
<1>27. ASSUME NEW c \in {"ibverbs", "command"}, FdEvent(c)
      PROVE  SleepInv' /\ WakeInv'
  BY <1>27 DEF FdEvent, TypeOK
<1>28. ASSUME Stopped
      PROVE  SleepInv' /\ WakeInv'
  BY <1>28 DEF Stopped, TypeOK
<1>z. CASE UNCHANGED vars
  BY <1>z
<1> QED
  BY <1>1, <1>2, <1>3, <1>4, <1>5, <1>6, <1>7, <1>8, <1>9, <1>10, <1>11, <1>12, <1>13, <1>14, <1>15, <1>16, <1>17, <1>18, <1>19, <1>20, <1>21, <1>22, <1>23, <1>24, <1>25, <1>26, <1>27, <1>28, <1>z
  DEF Next, ThreadLoop, PostNewRegAction, StopSteps

IInv == TypeOK /\ SleepInv /\ WakeInv

(* IInv is an invariant of the specification.                              *)
LEMMA IInvInvariant == Spec => []IInv
<1>1. Init => IInv
  <2> SUFFICES ASSUME Init PROVE IInv
    OBVIOUS
  <2>1. posts \in 0..MaxPosts
    BY ConstantsAssumption DEF Init
  <2>2. m_reg_action_q \in Seq(RegAction) /\ cur \in Seq(RegAction) /\ Len(cur) = 0
    BY DEF Init
  <2>3. held \in [Handlers -> SUBSET ({"timer"} \cup Channels)]
    BY DEF Init
  <2>4. m_event_handler_map \in [Channels -> SUBSET Handlers]
    BY DEF Init
  <2>5. m_timer \in [Handlers -> Nat] /\ life \in [Handlers -> {"live", "dying", "deleted"}]
    BY DEF Init
  <2>6. /\ pc \in [Threads -> {"idle", "start", "push", "wakeup", "add"}]
        /\ DOMAIN arg = Threads
        /\ \A t \in Threads : pc[t] = "idle"
    BY DEF Init
  <2>7. TypeOK
    <3>1. /\ m_b_continue_running = TRUE /\ m_event_handler_tid = FALSE
          /\ m_is_sleeping = 1 /\ pipe_in_epfd = FALSE
          /\ cm_events = {} /\ fd_events = {} /\ ready = {} /\ due = {} /\ calling = {}
          /\ itc = "none" /\ stopper = "idle"
      BY DEF Init
    <3> QED
      BY <2>1, <2>2, <2>3, <2>4, <2>5, <2>6, <3>1 DEF TypeOK
  <2> QED
    BY <2>7 DEF Init, IInv, SleepInv, WakeInv, QueueLocked
<1>2. IInv /\ [Next]_vars => IInv'
  BY TypeOKStep, WakeInvStep DEF IInv
<1> QED
  BY <1>1, <1>2, PTL DEF Spec

(* The types are right in every reachable state.                           *)
THEOREM TypeCorrect == Spec => []TypeOK
<1>1. IInv => TypeOK
  BY DEF IInv
<1> QED
  BY <1>1, IInvInvariant, PTL

(* No wakeup is lost, for any number of threads, objects and posts: the    *)
(* internal thread never waits on a non-empty queue unless it has been, or *)
(* is about to be, woken up.                                               *)
THEOREM WakeupSafety == Spec => []NoLostWakeup
<1>1. IInv => NoLostWakeup
  BY DEF IInv, WakeInv, NoLostWakeup
<1> QED
  BY <1>1, IInvInvariant, PTL

(* stop_thread never joins a thread that sleeps for good.                  *)
THEOREM StopSafety == Spec => []NoLostStop
<1>1. IInv => NoLostStop
  BY DEF IInv, WakeInv, NoLostStop
<1> QED
  BY <1>1, IInvInvariant, PTL

====
