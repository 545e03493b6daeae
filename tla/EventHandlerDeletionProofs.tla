----------------------- MODULE EventHandlerDeletionProofs -----------------------
(* A deleted object is never called.  The proof follows the queue: where   *)
(* the actions of an object stand in it relative to each other.            *)
EXTENDS EventHandlerManagerProofs

(* The positions at which an action waits: 0 is the popped one.            *)
Action(type, h) == [type |-> type, handler |-> h]
Pos == [type \in ActionTypes |-> [h \in Handlers |->
         {p \in 0..Len(m_reg_action_q) : \/ p = 0 /\ cur # <<>> /\ cur[1] = Action(type, h)
                                         \/ p > 0 /\ m_reg_action_q[p] = Action(type, h)}]]

(* A channel and the actions that begin and end a registration on it.      *)
Registers(c, reg, unreg) ==
  \/ c = "ibverbs" /\ reg = "REGISTER_IBVERBS" /\ unreg = "UNREGISTER_IBVERBS"
  \/ c = "rdma_cm" /\ reg = "REGISTER_RDMA_CM" /\ unreg = "UNREGISTER_RDMA_CM"

(* Whoever no longer holds a registration on c has none, or its end is     *)
(* queued, behind every registration that still is.                        *)
Settled(c, reg, unreg) ==
  \A h \in Handlers : c \notin held[h] =>
    /\ \A q \in Pos[reg][h] : \E p \in Pos[unreg][h] : q < p
    /\ h \in m_event_handler_map[c] => Pos[unreg][h] # {}
ChanInv ==
  /\ Settled("ibverbs", "REGISTER_IBVERBS", "UNREGISTER_IBVERBS")
  /\ Settled("rdma_cm", "REGISTER_RDMA_CM", "UNREGISTER_RDMA_CM")

(* The same for a timer that does not free itself, which is one node at    *)
(* most: its registrations and their ends alternate in the queue.          *)
TimerInv ==
  \A h \in Handlers \ OneShot :
    /\ m_timer[h] <= 1
    /\ m_timer[h] > 0 => \A q \in Pos["REGISTER_TIMER"][h] : \E p \in Pos["UNREGISTER_TIMER"][h] : p < q
    /\ \A q, r \in Pos["REGISTER_TIMER"][h] : q < r => \E p \in Pos["UNREGISTER_TIMER"][h] : q < p /\ p < r
    /\ "timer" \notin held[h] =>
         /\ \A q \in Pos["REGISTER_TIMER"][h] : \E p \in Pos["UNREGISTER_TIMER"][h] : q < p
         /\ m_timer[h] > 0 => Pos["UNREGISTER_TIMER"][h] # {}

(* A delete is queued once, behind everything that could make a timer or a *)
(* registration; a deleted object has no timer, holds nothing, and nothing *)
(* but the ends of its registrations is queued for it.                     *)
DelInv ==
  \A h \in Handlers :
    /\ \A p \in Pos[DeleteType][h] :
         /\ life[h] = "dying" /\ \A q \in Pos[DeleteType][h] : q = p
         /\ \A type \in TimerTypes \cup RegisterTypes : \A q \in Pos[type][h] : q < p
    /\ life[h] = "deleted" =>
         /\ held[h] = {} /\ m_timer[h] = 0
         /\ \A type \in ActionTypes \ UnregisterTypes : Pos[type][h] = {}
    /\ life[h] # "live" /\ h \in Grouped => "timer" \notin held[h]

(* The actions of a deleted object are drained before anything else runs.  *)
DrainInv ==
  itc \notin {"drain", "handle"} =>
    \A h \in Handlers : life[h] = "deleted" => \A type \in ActionTypes : Pos[type][h] = {}

(* What a thread is about to push is still its owner's to post.            *)
ArgInv ==
  \A t \in Threads : pc[t] \in {"start", "push"} =>
     /\ life[arg[t].handler] = "live" /\ MayPost(arg[t].type, arg[t].handler)
     /\ \A u \in Threads : u # t /\ pc[u] \in {"start", "push"} => arg[u].handler # arg[t].handler

(* What a step does to the popped action, the timers and the registrations.*)
AtHead(type, h) ==
  \A ty \in ActionTypes, g \in Handlers : 0 \in Pos[ty][g] <=> ty = type /\ g = h
TimerMove(type, h) ==
  \A g \in Handlers \ OneShot : m_timer'[g] =
    IF g = h /\ type = "REGISTER_TIMER" THEN m_timer[g] + 1
    ELSE IF g = h /\ type = "UNREGISTER_TIMER" /\ m_timer[g] > 0 THEN m_timer[g] - 1 ELSE m_timer[g]
SameTimers == \A g \in Handlers \ OneShot : m_timer'[g] = m_timer[g]
DeadTimers == \A g \in Handlers : life[g] = "deleted" => m_timer'[g] = 0
MapMove(c, reg, unreg, type, h) ==
  \A g \in Handlers : g \in m_event_handler_map'[c] =>
    (g \in m_event_handler_map[c] /\ (g = h => type # unreg)) \/ (g = h /\ type = reg)

(* The positions after an action is appended.                              *)
LEMMA PosAppend ==
  ASSUME TypeOK, NEW type \in ActionTypes, NEW h \in Handlers,
         m_reg_action_q' = Append(m_reg_action_q, Action(type, h)), cur' = cur
  PROVE  \E n \in Nat :
           /\ \A ty \in ActionTypes, g \in Handlers : \A p \in Pos[ty][g] : p \in Nat /\ p < n
           /\ \A ty \in ActionTypes, g \in Handlers : \A p :
                p \in Pos'[ty][g] <=> p \in Pos[ty][g] \/ (ty = type /\ g = h /\ p = n)
<1> DEFINE n == Len(m_reg_action_q) + 1
<1>0. m_reg_action_q \in Seq(RegAction) /\ Action(type, h) \in RegAction
  BY DEF TypeOK, RegAction, Action
<1>1. n \in Nat /\ Len(m_reg_action_q') = n /\ m_reg_action_q'[n] = Action(type, h)
      /\ \A p \in 1..(n - 1) : m_reg_action_q'[p] = m_reg_action_q[p]
  BY <1>0
<1>2. \A ty \in ActionTypes, g \in Handlers : \A p \in Pos[ty][g] : p \in Nat /\ p < n
  BY <1>1 DEF Pos
<1>3. ASSUME NEW ty \in ActionTypes, NEW g \in Handlers, NEW p
      PROVE  p \in Pos'[ty][g] <=> p \in Pos[ty][g] \/ (ty = type /\ g = h /\ p = n)
  <2>1. p \in Pos'[ty][g] <=> /\ p \in 0..n
                              /\ \/ p = 0 /\ cur # <<>> /\ cur[1] = Action(ty, g)
                                 \/ p > 0 /\ m_reg_action_q'[p] = Action(ty, g)
    BY <1>1 DEF Pos, Action
  <2>2. p \in Pos[ty][g] <=> /\ p \in 0..(n - 1)
                             /\ \/ p = 0 /\ cur # <<>> /\ cur[1] = Action(ty, g)
                                \/ p > 0 /\ m_reg_action_q[p] = Action(ty, g)
    BY <1>1 DEF Pos
  <2>3. Action(ty, g) = Action(type, h) <=> ty = type /\ g = h
    BY DEF Action
  <2>4. CASE p \in 0..(n - 1)
    BY <1>1, <2>1, <2>2, <2>3, <2>4
  <2>5. CASE p = n
    BY <1>1, <2>1, <2>2, <2>3, <2>5
  <2>6. p \in 0..n <=> p \in 0..(n - 1) \/ p = n
    BY <1>1
  <2> QED
    BY <2>1, <2>2, <2>4, <2>5, <2>6
<1> QED
  BY <1>1, <1>2, <1>3

(* The positions after the head of the queue is popped.                    *)
LEMMA PosPop ==
  ASSUME TypeOK, cur = <<>>, m_reg_action_q # <<>>,
         cur' = <<Head(m_reg_action_q)>>, m_reg_action_q' = Tail(m_reg_action_q)
  PROVE  \A ty \in ActionTypes, g \in Handlers :
           /\ \A p \in Pos[ty][g] : p \in Nat /\ p > 0
           /\ \A p \in Nat : p \in Pos'[ty][g] <=> p + 1 \in Pos[ty][g]
           /\ \A p \in Pos'[ty][g] : p \in Nat
<1>0. m_reg_action_q \in Seq(RegAction)
  BY DEF TypeOK
<1>1. /\ Len(m_reg_action_q) \in Nat /\ Len(m_reg_action_q) > 0 /\ Len(m_reg_action_q') = Len(m_reg_action_q) - 1
      /\ \A p \in 1..(Len(m_reg_action_q) - 1) : m_reg_action_q'[p] = m_reg_action_q[p + 1]
      /\ cur' # <<>> /\ cur'[1] = m_reg_action_q[1]
  BY <1>0
<1> SUFFICES ASSUME NEW ty \in ActionTypes, NEW g \in Handlers
             PROVE  /\ \A p \in Pos[ty][g] : p \in Nat /\ p > 0
                    /\ \A p \in Nat : p \in Pos'[ty][g] <=> p + 1 \in Pos[ty][g]
                    /\ \A p \in Pos'[ty][g] : p \in Nat
  OBVIOUS
<1>2. \A p : p \in Pos[ty][g] <=> p \in 1..Len(m_reg_action_q) /\ m_reg_action_q[p] = Action(ty, g)
  BY <1>1 DEF Pos
<1>3. \A p : p \in Pos'[ty][g] <=> /\ p \in 0..(Len(m_reg_action_q) - 1)
                                   /\ \/ p = 0 /\ m_reg_action_q[1] = Action(ty, g)
                                      \/ p > 0 /\ m_reg_action_q'[p] = Action(ty, g)
  BY <1>1 DEF Pos, Action
<1> QED
  BY <1>1, <1>2, <1>3

(* The positions after the popped action is handled and posts nothing.     *)
LEMMA PosHandled ==
  ASSUME TypeOK, cur' = <<>>, m_reg_action_q' = m_reg_action_q
  PROVE  \A ty \in ActionTypes, g \in Handlers :
           /\ \A p \in Pos[ty][g] : p \in Nat
           /\ \A p : p \in Pos'[ty][g] <=> p \in Pos[ty][g] /\ p # 0
<1>1. m_reg_action_q \in Seq(RegAction) /\ Len(m_reg_action_q) \in Nat
  BY DEF TypeOK
<1> QED
  BY <1>1 DEF Pos, Action

(* The positions after the popped action is handled and the destructor of  *)
(* h has posted the ends of the registrations h held.                      *)
LEMMA PosDestructed ==
  ASSUME TypeOK, NEW h \in Handlers, cur' = <<>>,
         m_reg_action_q' = m_reg_action_q \o DestructorActions(h)
  PROVE  /\ \A ty \in ActionTypes, g \in Handlers :
              /\ \A p \in Pos[ty][g] : p \in Nat
              /\ \A p \in Pos[ty][g] : p # 0 => p \in Pos'[ty][g]
              /\ \A p \in Pos'[ty][g] : p \in Nat /\ p # 0
              /\ \A p \in Pos'[ty][g] : p \in Pos[ty][g] \/ (g = h /\ ty \in UnregisterTypes)
         /\ \A c \in held[h], reg, unreg \in ActionTypes : Registers(c, reg, unreg) =>
              \E p \in Pos'[unreg][h] : \A ty \in ActionTypes, g \in Handlers : \A q \in Pos[ty][g] : q < p
<1> DEFINE I == Action("UNREGISTER_IBVERBS", h)
           R == Action("UNREGISTER_RDMA_CM", h)
           D == DestructorActions(h)
           s == m_reg_action_q
<1>1. s \in Seq(RegAction) /\ I \in RegAction /\ R \in RegAction
  BY DEF TypeOK, RegAction, Action, ActionTypes, UnregisterTypes
<1>2. /\ D \in Seq(RegAction)
      /\ \A x \in 1..Len(D) : D[x] = I \/ D[x] = R
      /\ "ibverbs" \in held[h] => \E x \in 1..Len(D) : D[x] = I
      /\ "rdma_cm" \in held[h] => \E x \in 1..Len(D) : D[x] = R
  <2>1. CASE "ibverbs" \in held[h] /\ "rdma_cm" \in held[h]
    <3>1. D = <<I>> \o <<R>>
      BY <2>1 DEF DestructorActions, Action
    <3>2. Len(D) = 2 /\ D[1] = I /\ D[2] = R /\ D \in Seq(RegAction)
      BY <3>1, <1>1
    <3> QED
      BY <3>2
  <2>2. CASE "ibverbs" \in held[h] /\ "rdma_cm" \notin held[h]
    <3>1. D = <<I>>
      BY <2>2 DEF DestructorActions, Action
    <3> QED
      BY <2>2, <3>1, <1>1
  <2>3. CASE "ibverbs" \notin held[h] /\ "rdma_cm" \in held[h]
    <3>1. D = <<R>>
      BY <2>3 DEF DestructorActions, Action
    <3> QED
      BY <2>3, <3>1, <1>1
  <2>4. CASE "ibverbs" \notin held[h] /\ "rdma_cm" \notin held[h]
    <3>1. D = <<>>
      BY <2>4 DEF DestructorActions
    <3> QED
      BY <2>4, <3>1, <1>1
  <2> QED
    BY <2>1, <2>2, <2>3, <2>4
<1> HIDE DEF D
<1>3. /\ Len(s) \in Nat /\ Len(D) \in Nat /\ Len(s') = Len(s) + Len(D)
      /\ \A p \in 1..Len(s) : s'[p] = s[p]
      /\ \A x \in 1..Len(D) : s'[Len(s) + x] = D[x]
  <2>1. s' = s \o D
    BY DEF D
  <2> QED
    BY <1>1, <1>2, <2>1
<1>4. \A ty \in ActionTypes, g \in Handlers : \A p :
        /\ p \in Pos[ty][g] <=> /\ p \in 0..Len(s)
                                /\ \/ p = 0 /\ cur # <<>> /\ cur[1] = Action(ty, g)
                                   \/ p > 0 /\ s[p] = Action(ty, g)
        /\ p \in Pos'[ty][g] <=> p \in 1..(Len(s) + Len(D)) /\ s'[p] = Action(ty, g)
  BY <1>3 DEF Pos, Action
<1>5. ASSUME NEW ty \in ActionTypes, NEW g \in Handlers, NEW p \in Pos'[ty][g], p \notin Pos[ty][g]
      PROVE  g = h /\ ty \in UnregisterTypes
  <2>1. p \in 1..(Len(s) + Len(D)) /\ s'[p] = Action(ty, g)
    BY <1>4
  <2>2. p \notin 1..Len(s)
    BY <1>3, <1>4, <1>5, <2>1
  <2>3. PICK x \in 1..Len(D) : p = Len(s) + x
    <3>1. p - Len(s) \in 1..Len(D) /\ p = Len(s) + (p - Len(s))
      BY <1>3, <2>1, <2>2
    <3> QED
      BY <3>1
  <2>4. Action(ty, g) = I \/ Action(ty, g) = R
    BY <1>2, <1>3, <2>1, <2>3
  <2> QED
    BY <2>4 DEF Action, UnregisterTypes
<1>6. ASSUME NEW c \in held[h], NEW reg \in ActionTypes, NEW unreg \in ActionTypes, Registers(c, reg, unreg)
      PROVE  \E p \in Pos'[unreg][h] : \A ty \in ActionTypes, g \in Handlers : \A q \in Pos[ty][g] : q < p
  <2>1. PICK x \in 1..Len(D) : D[x] = Action(unreg, h)
    BY <1>2, <1>6 DEF Registers
  <2>2. Len(s) + x \in Pos'[unreg][h]
    <3>1. Len(s) + x \in 1..(Len(s) + Len(D)) /\ s'[Len(s) + x] = Action(unreg, h)
      BY <1>3, <2>1
    <3> QED
      BY <1>4, <3>1
  <2>3. \A ty \in ActionTypes, g \in Handlers : \A q \in Pos[ty][g] : q < Len(s) + x
    BY <1>3, <1>4
  <2> QED
    BY <2>2, <2>3
<1>7. \A ty \in ActionTypes, g \in Handlers :
        /\ \A p \in Pos[ty][g] : p \in Nat
        /\ \A p \in Pos[ty][g] : p # 0 => p \in Pos'[ty][g]
        /\ \A p \in Pos'[ty][g] : p \in Nat /\ p # 0
  <2> SUFFICES ASSUME NEW ty \in ActionTypes, NEW g \in Handlers
               PROVE  /\ \A p \in Pos[ty][g] : p \in Nat
                      /\ \A p \in Pos[ty][g] : p # 0 => p \in Pos'[ty][g]
                      /\ \A p \in Pos'[ty][g] : p \in Nat /\ p # 0
    OBVIOUS
  <2>1. ASSUME NEW p \in Pos[ty][g] PROVE p \in Nat
    BY <1>3, <1>4
  <2>2. ASSUME NEW p \in Pos[ty][g], p # 0 PROVE p \in Pos'[ty][g]
    <3>1. p \in 1..Len(s) /\ s[p] = Action(ty, g)
      BY <1>3, <1>4, <2>2
    <3>2. p \in 1..(Len(s) + Len(D)) /\ s'[p] = Action(ty, g)
      BY <1>3, <3>1
    <3> QED
      BY <1>4, <3>2
  <2>3. ASSUME NEW p \in Pos'[ty][g] PROVE p \in Nat /\ p # 0
    BY <1>3, <1>4
  <2> QED
    BY <2>1, <2>2, <2>3
<1> QED
  BY <1>5, <1>6, <1>7

(* What a post changes of the owner's bookkeeping.                         *)
LEMMA OwnerEffect ==
  ASSUME TypeOK, NEW type \in ActionTypes, NEW h \in Handlers, NEW unread, OwnerPosts(type, h, unread)
  PROVE  /\ \A g \in Handlers : g # h => held'[g] = held[g] /\ life'[g] = life[g]
         /\ life'[h] = IF type = DeleteType THEN "dying" ELSE life[h]
         /\ "timer" \in held'[h] <=> ("timer" \in held[h] \/ type = "REGISTER_TIMER") /\ type # "UNREGISTER_TIMER"
         /\ \A c, reg, unreg : Registers(c, reg, unreg) =>
              (c \in held'[h] <=> (c \in held[h] \/ type = reg) /\ type # unreg)
<1>1. held \in [Handlers -> SUBSET ({"timer"} \cup Channels)] /\ life \in [Handlers -> {"live", "dying", "deleted"}]
  BY DEF TypeOK
<1>2. \A g \in Handlers : g # h => held'[g] = held[g] /\ life'[g] = life[g]
  BY <1>1 DEF OwnerPosts
<1>3. life'[h] = IF type = DeleteType THEN "dying" ELSE life[h]
  BY <1>1 DEF OwnerPosts
<1>4. held'[h] = (held[h] \cup Gains(type)) \ Loses(type)
  BY <1>1 DEF OwnerPosts
<1>5. /\ "timer" \in Gains(type) <=> type = "REGISTER_TIMER"
      /\ "timer" \in Loses(type) <=> type = "UNREGISTER_TIMER"
  BY DEF Gains, Loses, ChannelOf
<1>6. ASSUME NEW c, NEW reg, NEW unreg, Registers(c, reg, unreg)
      PROVE  (c \in Gains(type) <=> type = reg) /\ (c \in Loses(type) <=> type = unreg)
  BY <1>6 DEF Registers, Gains, Loses, ChannelOf, RegisterTypes, UnregisterTypes
<1>7. "timer" \in held'[h] <=> ("timer" \in held[h] \/ type = "REGISTER_TIMER") /\ type # "UNREGISTER_TIMER"
  BY <1>4, <1>5
<1>8. ASSUME NEW c, NEW reg, NEW unreg, Registers(c, reg, unreg)
      PROVE  c \in held'[h] <=> (c \in held[h] \/ type = reg) /\ type # unreg
  BY <1>4, <1>6, <1>8
<1> QED
  BY <1>2, <1>3, <1>7, <1>8

(* What MayPost rules out.                                                 *)
LEMMA MayPostFacts ==
  ASSUME NEW type \in ActionTypes, NEW h \in Handlers, MayPost(type, h)
  PROVE  /\ life[h] # "deleted"
         /\ type \notin UnregisterTypes => life[h] = "live"
         /\ type = "REGISTER_TIMER" /\ h \notin OneShot => "timer" \notin held[h]
         /\ type = DeleteType /\ h \in Grouped => "timer" \notin held[h]
BY DEF MayPost, DeleteType, RegisterTypes, UnregisterTypes

(* A post keeps what holds of the queue, whatever else its step does to    *)
(* the nodes of one-shot timers.                                           *)
LEMMA PostKeeps ==
  ASSUME TypeOK, DelInv, NEW type \in ActionTypes, NEW h \in Handlers, NEW unread,
         MayPost(type, h), OwnerPosts(type, h, unread),
         m_reg_action_q' = Append(m_reg_action_q, Action(type, h)), cur' = cur,
         m_event_handler_map' = m_event_handler_map,
         SameTimers, DeadTimers
  PROVE  /\ ChanInv => ChanInv'
         /\ TimerInv => TimerInv'
         /\ DelInv'
         /\ \A g \in Handlers : life'[g] = "deleted" =>
              life[g] = "deleted" /\ \A ty \in ActionTypes : Pos'[ty][g] = Pos[ty][g]
<1> USE DEF SameTimers, DeadTimers
<1>1. PICK n \in Nat :
        /\ \A ty \in ActionTypes, g \in Handlers : \A p \in Pos[ty][g] : p \in Nat /\ p < n
        /\ \A ty \in ActionTypes, g \in Handlers : \A p :
             p \in Pos'[ty][g] <=> p \in Pos[ty][g] \/ (ty = type /\ g = h /\ p = n)
  BY PosAppend
<1>2. /\ \A g \in Handlers : g # h => held'[g] = held[g] /\ life'[g] = life[g]
      /\ life'[h] = IF type = DeleteType THEN "dying" ELSE life[h]
      /\ "timer" \in held'[h] <=> ("timer" \in held[h] \/ type = "REGISTER_TIMER") /\ type # "UNREGISTER_TIMER"
  BY OwnerEffect
<1>3. \A c, reg, unreg : Registers(c, reg, unreg) =>
        (c \in held'[h] <=> (c \in held[h] \/ type = reg) /\ type # unreg)
  BY OwnerEffect
<1>4. /\ life[h] # "deleted"
      /\ type \notin UnregisterTypes => life[h] = "live"
      /\ type = "REGISTER_TIMER" /\ h \notin OneShot => "timer" \notin held[h]
      /\ type = DeleteType /\ h \in Grouped => "timer" \notin held[h]
  BY MayPostFacts
<1>5. ASSUME NEW c \in Channels, NEW reg \in ActionTypes, NEW unreg \in ActionTypes,
             Registers(c, reg, unreg), Settled(c, reg, unreg)
      PROVE  Settled(c, reg, unreg)'
  <2> SUFFICES ASSUME NEW g \in Handlers, c \notin held'[g]
               PROVE  /\ \A q \in Pos'[reg][g] : \E p \in Pos'[unreg][g] : q < p
                      /\ g \in m_event_handler_map[c] => Pos'[unreg][g] # {}
    BY DEF Settled
  <2>1. CASE g # h
    BY <1>1, <1>2, <1>5, <2>1 DEF Settled
  <2>2. CASE g = h /\ type = unreg
    <3>1. reg # unreg /\ n \in Pos'[unreg][g]
      BY <1>1, <1>5, <2>2 DEF Registers
    <3>2. \A q \in Pos'[reg][g] : q < n
      BY <1>1, <2>2, <3>1
    <3> QED
      BY <3>1, <3>2
  <2>3. CASE g = h /\ type # unreg
    <3>1. c \notin held[h] /\ type # reg
      BY <1>3, <1>5, <2>3
    <3>2. \A p : (p \in Pos'[reg][g] <=> p \in Pos[reg][g]) /\ (p \in Pos'[unreg][g] <=> p \in Pos[unreg][g])
      BY <1>1, <2>3, <3>1
    <3> QED
      BY <1>5, <2>3, <3>1, <3>2 DEF Settled
  <2> QED
    BY <2>1, <2>2, <2>3
<1>6. ChanInv => ChanInv'
  BY <1>5 DEF ChanInv, Registers, Channels, ActionTypes, RegisterTypes, UnregisterTypes
<1>7. ASSUME TimerInv PROVE TimerInv'
  <2> SUFFICES ASSUME NEW g \in Handlers \ OneShot
               PROVE  /\ m_timer'[g] <= 1
                      /\ m_timer'[g] > 0 => \A q \in Pos'["REGISTER_TIMER"][g] : \E p \in Pos'["UNREGISTER_TIMER"][g] : p < q
                      /\ \A q, r \in Pos'["REGISTER_TIMER"][g] : q < r => \E p \in Pos'["UNREGISTER_TIMER"][g] : q < p /\ p < r
                      /\ "timer" \notin held'[g] =>
                           /\ \A q \in Pos'["REGISTER_TIMER"][g] : \E p \in Pos'["UNREGISTER_TIMER"][g] : q < p
                           /\ m_timer'[g] > 0 => Pos'["UNREGISTER_TIMER"][g] # {}
    BY DEF TimerInv
  <2> DEFINE R == Pos["REGISTER_TIMER"][g]
             U == Pos["UNREGISTER_TIMER"][g]
             R1 == Pos'["REGISTER_TIMER"][g]
             U1 == Pos'["UNREGISTER_TIMER"][g]
             n0 == m_timer[g]
  <2>1. /\ n0 <= 1 /\ m_timer'[g] = n0
        /\ n0 > 0 => \A q \in R : \E p \in U : p < q
        /\ \A q, r \in R : q < r => \E p \in U : q < p /\ p < r
        /\ "timer" \notin held[g] => (\A q \in R : \E p \in U : q < p) /\ (n0 > 0 => U # {})
    BY <1>7 DEF TimerInv
  <2>2. /\ \A p : p \in R1 <=> p \in R \/ ("REGISTER_TIMER" = type /\ g = h /\ p = n)
        /\ \A p : p \in U1 <=> p \in U \/ ("UNREGISTER_TIMER" = type /\ g = h /\ p = n)
        /\ \A p \in R : p \in Nat /\ p < n
        /\ \A p \in U : p \in Nat /\ p < n
    BY <1>1 DEF ActionTypes, TimerTypes
  <2>3. /\ "timer" \notin held'[g] => "timer" \notin held[g] \/ (g = h /\ type = "UNREGISTER_TIMER")
        /\ g = h /\ type = "REGISTER_TIMER" => "timer" \in held'[g] /\ "timer" \notin held[g]
    BY <1>2, <1>4
  <2> HIDE DEF R, U, R1, U1, n0
  <2>4. n0 > 0 => \A q \in R1 : \E p \in U1 : p < q
    BY <2>1, <2>2, <2>3
  <2>5. \A q, r \in R1 : q < r => \E p \in U1 : q < p /\ p < r
    BY <2>1, <2>2, <2>3
  <2>6. "timer" \notin held'[g] => (\A q \in R1 : \E p \in U1 : q < p) /\ (n0 > 0 => U1 # {})
    BY <2>1, <2>2, <2>3
  <2> QED
    BY <2>1, <2>4, <2>5, <2>6 DEF R1, U1
<1>8. \A g \in Handlers : life'[g] = "deleted" =>
        life[g] = "deleted" /\ \A ty \in ActionTypes : Pos'[ty][g] = Pos[ty][g]
  <2> SUFFICES ASSUME NEW g \in Handlers, life'[g] = "deleted"
               PROVE  life[g] = "deleted" /\ \A ty \in ActionTypes : Pos'[ty][g] = Pos[ty][g]
    OBVIOUS
  <2>1. g # h /\ life[g] = "deleted"
    BY <1>2, <1>4
  <2>2. ASSUME NEW ty \in ActionTypes PROVE Pos'[ty][g] = Pos[ty][g]
    <3>1. \A p : p \in Pos'[ty][g] <=> p \in Pos[ty][g]
      BY <1>1, <2>1
    <3>2. Pos'[ty][g] = {p \in Pos'[ty][g] : TRUE} /\ Pos[ty][g] = {p \in Pos[ty][g] : TRUE}
      BY DEF Pos
    <3> QED
      BY <3>1, <3>2
  <2> QED
    BY <2>1, <2>2
<1>9. DelInv'
  <2> SUFFICES ASSUME NEW g \in Handlers
               PROVE  /\ \A p \in Pos'[DeleteType][g] :
                           /\ life'[g] = "dying" /\ \A q \in Pos'[DeleteType][g] : q = p
                           /\ \A ty \in TimerTypes \cup RegisterTypes : \A q \in Pos'[ty][g] : q < p
                      /\ life'[g] = "deleted" =>
                           /\ held'[g] = {} /\ m_timer'[g] = 0
                           /\ \A ty \in ActionTypes \ UnregisterTypes : Pos'[ty][g] = {}
                      /\ life'[g] # "live" /\ g \in Grouped => "timer" \notin held'[g]
    BY DEF DelInv
  <2>1. life'[g] # "live" /\ g \in Grouped => "timer" \notin held'[g]
    <3>1. \A x \in Handlers : life[x] # "live" /\ x \in Grouped => "timer" \notin held[x]
      BY DEF DelInv
    <3>2. CASE g = h /\ type = DeleteType
      BY <1>2, <1>4, <3>2 DEF DeleteType
    <3>3. CASE g = h /\ type # DeleteType
      BY <1>2, <1>4, <3>1, <3>3 DEF UnregisterTypes
    <3> QED
      BY <1>2, <3>1, <3>2, <3>3
  <2>2. ASSUME life'[g] = "deleted"
        PROVE  /\ held'[g] = {} /\ m_timer'[g] = 0
               /\ \A ty \in ActionTypes \ UnregisterTypes : Pos'[ty][g] = {}
    BY <1>2, <1>4, <1>8, <2>2 DEF DelInv
  <2>3. ASSUME NEW p \in Pos'[DeleteType][g]
        PROVE  /\ life'[g] = "dying" /\ \A q \in Pos'[DeleteType][g] : q = p
               /\ \A ty \in TimerTypes \cup RegisterTypes : \A q \in Pos'[ty][g] : q < p
    <3>0. DeleteType \in ActionTypes /\ \A ty \in TimerTypes \cup RegisterTypes : ty \in ActionTypes /\ ty # DeleteType /\ ty \notin UnregisterTypes
      BY DEF ActionTypes, TimerTypes, RegisterTypes, UnregisterTypes, DeleteType
    <3>1. CASE g # h
      BY <1>1, <1>2, <2>3, <3>0, <3>1 DEF DelInv
    <3>2. CASE g = h /\ type = DeleteType
      <4>1. DeleteType \notin UnregisterTypes
        BY DEF DeleteType, UnregisterTypes
      <4>2. Pos[DeleteType][g] = {}
        BY <1>4, <3>2, <4>1 DEF DelInv
      <4>3. \A q : q \in Pos'[DeleteType][g] <=> q = n
        BY <1>1, <3>0, <3>2, <4>2
      <4>4. \A ty \in TimerTypes \cup RegisterTypes : \A q \in Pos'[ty][g] : q < n
        BY <1>1, <3>0, <3>2
      <4>5. p = n
        BY <2>3, <4>3
      <4>6. life'[g] = "dying"
        BY <1>2, <3>2
      <4> QED
        BY <4>3, <4>4, <4>5, <4>6
    <3>3. CASE g = h /\ type # DeleteType
      <4>1. p \in Pos[DeleteType][g]
        BY <1>1, <2>3, <3>0, <3>3
      <4>2. life[g] = "dying" /\ type \in UnregisterTypes
        BY <1>4, <3>3, <4>1 DEF DelInv
      <4>3. /\ \A q \in Pos[DeleteType][g] : q = p
            /\ \A ty \in TimerTypes \cup RegisterTypes : \A q \in Pos[ty][g] : q < p
        BY <4>1 DEF DelInv
      <4>4. \A ty \in ActionTypes : ty \notin UnregisterTypes => \A q \in Pos'[ty][g] : q \in Pos[ty][g]
        BY <1>1, <4>2
      <4>5. DeleteType \notin UnregisterTypes
        BY DEF DeleteType, UnregisterTypes
      <4>6. \A q \in Pos'[DeleteType][g] : q = p
        BY <3>0, <4>3, <4>4, <4>5
      <4>7. \A ty \in TimerTypes \cup RegisterTypes : \A q \in Pos'[ty][g] : q < p
        BY <3>0, <4>3, <4>4
      <4>8. life'[g] = "dying"
        BY <1>2, <3>3, <4>2
      <4> QED
        BY <4>6, <4>7, <4>8
    <3> QED
      BY <3>1, <3>2, <3>3
  <2> QED
    BY <2>1, <2>2, <2>3
<1> QED
  BY <1>6, <1>7, <1>8, <1>9

(* A pop only moves the positions.                                         *)
LEMMA PopKeeps ==
  ASSUME TypeOK, PopAction
  PROVE  /\ ChanInv => ChanInv'
         /\ TimerInv => TimerInv'
         /\ DelInv => DelInv'
<1>1. cur = <<>>
  BY DEF TypeOK, PopAction
<1>2. \A ty \in ActionTypes, g \in Handlers :
        /\ \A p \in Pos[ty][g] : p \in Nat /\ p > 0
        /\ \A p \in Nat : p \in Pos'[ty][g] <=> p + 1 \in Pos[ty][g]
        /\ \A p \in Pos'[ty][g] : p \in Nat
  BY <1>1, PosPop DEF PopAction
<1>3. UNCHANGED <<held, life, m_timer, m_event_handler_map>>
  BY DEF PopAction, tblVars, ownVars
<1>4. ASSUME NEW ty \in ActionTypes, NEW g \in Handlers
      PROVE  /\ \A p \in Pos'[ty][g] : p + 1 \in Pos[ty][g] /\ p \in Nat
             /\ \A p \in Pos[ty][g] : p - 1 \in Pos'[ty][g] /\ p \in Nat
  <2>1. ASSUME NEW p \in Pos[ty][g] PROVE p - 1 \in Pos'[ty][g] /\ p \in Nat
    <3>1. p \in Nat /\ p - 1 \in Nat /\ (p - 1) + 1 = p
      BY <1>2
    <3> QED
      BY <1>2, <3>1
  <2> QED
    BY <1>2, <2>1
<1>5. ASSUME NEW c \in Channels, NEW reg \in ActionTypes, NEW unreg \in ActionTypes, Settled(c, reg, unreg)
      PROVE  Settled(c, reg, unreg)'
  <2> SUFFICES ASSUME NEW g \in Handlers, c \notin held[g]
               PROVE  /\ \A q \in Pos'[reg][g] : \E p \in Pos'[unreg][g] : q < p
                      /\ g \in m_event_handler_map[c] => Pos'[unreg][g] # {}
    BY <1>3 DEF Settled
  <2>1. ASSUME NEW q \in Pos'[reg][g] PROVE \E p \in Pos'[unreg][g] : q < p
    <3>1. q + 1 \in Pos[reg][g] /\ q \in Nat
      BY <1>4
    <3>2. PICK p \in Pos[unreg][g] : q + 1 < p
      BY <1>5, <3>1 DEF Settled
    <3>3. p - 1 \in Pos'[unreg][g] /\ q < p - 1
      BY <1>4, <3>1, <3>2
    <3> QED
      BY <3>3
  <2> QED
    BY <1>4, <1>5, <2>1 DEF Settled
<1>6. ChanInv => ChanInv'
  BY <1>5 DEF ChanInv, Channels, ActionTypes, RegisterTypes, UnregisterTypes
<1>7. ASSUME TimerInv PROVE TimerInv'
  <2> SUFFICES ASSUME NEW g \in Handlers \ OneShot
               PROVE  /\ m_timer[g] <= 1
                      /\ m_timer[g] > 0 => \A q \in Pos'["REGISTER_TIMER"][g] : \E p \in Pos'["UNREGISTER_TIMER"][g] : p < q
                      /\ \A q, r \in Pos'["REGISTER_TIMER"][g] : q < r => \E p \in Pos'["UNREGISTER_TIMER"][g] : q < p /\ p < r
                      /\ "timer" \notin held[g] =>
                           /\ \A q \in Pos'["REGISTER_TIMER"][g] : \E p \in Pos'["UNREGISTER_TIMER"][g] : q < p
                           /\ m_timer[g] > 0 => Pos'["UNREGISTER_TIMER"][g] # {}
    BY <1>3 DEF TimerInv
  <2> DEFINE R == Pos["REGISTER_TIMER"][g]
             U == Pos["UNREGISTER_TIMER"][g]
             R1 == Pos'["REGISTER_TIMER"][g]
             U1 == Pos'["UNREGISTER_TIMER"][g]
             n0 == m_timer[g]
  <2>1. /\ n0 <= 1
        /\ n0 > 0 => \A q \in R : \E p \in U : p < q
        /\ \A q, r \in R : q < r => \E p \in U : q < p /\ p < r
        /\ "timer" \notin held[g] => (\A q \in R : \E p \in U : q < p) /\ (n0 > 0 => U # {})
    BY <1>7 DEF TimerInv
  <2>2. (\A p \in R1 : p + 1 \in R /\ p \in Nat) /\ (\A p \in U : p - 1 \in U1 /\ p \in Nat)
    BY <1>4 DEF ActionTypes, TimerTypes
  <2> HIDE DEF R, U, R1, U1, n0
  <2>3. ASSUME n0 > 0, NEW q \in R1 PROVE \E p \in U1 : p < q
    <3>1. PICK p \in U : p < q + 1
      BY <2>1, <2>2, <2>3
    <3>2. p - 1 \in U1 /\ p - 1 < q
      BY <2>2, <3>1
    <3> QED
      BY <3>2
  <2>4. ASSUME NEW q \in R1, NEW r \in R1, q < r PROVE \E p \in U1 : q < p /\ p < r
    <3>0. q + 1 \in R /\ r + 1 \in R /\ q + 1 < r + 1 /\ q \in Nat /\ r \in Nat
      BY <2>2, <2>4
    <3>1. PICK p \in U : q + 1 < p /\ p < r + 1
      BY <2>1, <3>0
    <3>2. p - 1 \in U1 /\ q < p - 1 /\ p - 1 < r
      BY <2>2, <3>0, <3>1
    <3> QED
      BY <3>2
  <2>5. ASSUME "timer" \notin held[g], NEW q \in R1 PROVE \E p \in U1 : q < p
    <3>1. PICK p \in U : q + 1 < p
      BY <2>1, <2>2, <2>5
    <3>2. p - 1 \in U1 /\ q < p - 1
      BY <2>2, <3>1
    <3> QED
      BY <3>2
  <2>6. U # {} => U1 # {}
    BY <2>2
  <2> QED
    BY <2>1, <2>3, <2>4, <2>5, <2>6 DEF R1, U1, n0
<1>8. ASSUME DelInv PROVE DelInv'
  <2> SUFFICES ASSUME NEW g \in Handlers
               PROVE  /\ \A p \in Pos'[DeleteType][g] :
                           /\ life[g] = "dying" /\ \A q \in Pos'[DeleteType][g] : q = p
                           /\ \A ty \in TimerTypes \cup RegisterTypes : \A q \in Pos'[ty][g] : q < p
                      /\ life[g] = "deleted" => \A ty \in ActionTypes \ UnregisterTypes : Pos'[ty][g] = {}
    BY <1>3, <1>8 DEF DelInv
  <2>0. DeleteType \in ActionTypes /\ TimerTypes \cup RegisterTypes \subseteq ActionTypes
    BY DEF ActionTypes
  <2>1. ASSUME NEW p \in Pos'[DeleteType][g]
        PROVE  /\ life[g] = "dying" /\ \A q \in Pos'[DeleteType][g] : q = p
               /\ \A ty \in TimerTypes \cup RegisterTypes : \A q \in Pos'[ty][g] : q < p
    <3>1. p + 1 \in Pos[DeleteType][g] /\ p \in Nat
      BY <1>4, <2>0
    <3>2. /\ life[g] = "dying" /\ \A q \in Pos[DeleteType][g] : q = p + 1
          /\ \A ty \in TimerTypes \cup RegisterTypes : \A q \in Pos[ty][g] : q < p + 1
      BY <1>8, <3>1 DEF DelInv
    <3>3. \A q \in Pos'[DeleteType][g] : q = p
      BY <1>4, <2>0, <3>1, <3>2
    <3>4. ASSUME NEW ty \in TimerTypes \cup RegisterTypes, NEW q \in Pos'[ty][g] PROVE q < p
      <4>1. q + 1 \in Pos[ty][g] /\ q \in Nat
        BY <1>4, <2>0
      <4>2. q + 1 < p + 1
        BY <3>2, <4>1
      <4> QED
        BY <3>1, <4>1, <4>2
    <3> QED
      BY <3>2, <3>3, <3>4
  <2>2. ASSUME life[g] = "deleted", NEW ty \in ActionTypes \ UnregisterTypes PROVE Pos'[ty][g] = {}
    BY <1>4, <1>8, <2>2 DEF DelInv
  <2> QED
    BY <2>1, <2>2
<1> QED
  BY <1>6, <1>7, <1>8

(* The popped action is the only one at position 0.                        *)
LEMMA Popped ==
  ASSUME TypeOK, HandleRegistrationAction
  PROVE  \E type \in ActionTypes, h \in Handlers :
           ActionEffect(type, h) /\ AtHead(type, h)
<1>1. cur \in Seq(RegAction) /\ Len(cur) = 1
  BY DEF TypeOK, HandleRegistrationAction
<1>2. cur[1] \in RegAction /\ cur # <<>>
  BY <1>1
<1>3. PICK type \in ActionTypes, h \in Handlers : cur[1] = Action(type, h)
  BY <1>2 DEF RegAction, Action
<1>4. ActionEffect(type, h)
  BY <1>3 DEF HandleRegistrationAction, Action
<1>5. Len(m_reg_action_q) \in Nat
  BY DEF TypeOK
<1>6. \A ty \in ActionTypes, g \in Handlers : 0 \in Pos[ty][g] <=> cur[1] = Action(ty, g)
  BY <1>2, <1>5 DEF Pos
<1>7. \A ty \in ActionTypes, g \in Handlers : 0 \in Pos[ty][g] <=> ty = type /\ g = h
  <2>1. \A ty \in ActionTypes, g \in Handlers : Action(type, h) = Action(ty, g) <=> ty = type /\ g = h
    BY DEF Action
  <2> QED
    BY <1>3, <1>6, <2>1
<1> QED
  BY <1>4, <1>7 DEF AtHead

(* Handling an action that posts nothing keeps the channels settled.       *)
LEMMA HandledSettled ==
  ASSUME TypeOK, NEW type \in ActionTypes, NEW h \in Handlers,
         AtHead(type, h),
         cur' = <<>>, m_reg_action_q' = m_reg_action_q, held' = held,
         NEW c \in Channels, NEW reg \in ActionTypes, NEW unreg \in ActionTypes,
         Registers(c, reg, unreg), Settled(c, reg, unreg),
         MapMove(c, reg, unreg, type, h)
  PROVE  Settled(c, reg, unreg)'
<1> USE DEF AtHead, MapMove
<1>1. \A ty \in ActionTypes, g \in Handlers :
        /\ \A p \in Pos[ty][g] : p \in Nat
        /\ \A p : p \in Pos'[ty][g] <=> p \in Pos[ty][g] /\ p # 0
  BY PosHandled
<1> SUFFICES ASSUME NEW g \in Handlers, c \notin held[g]
             PROVE  /\ \A q \in Pos'[reg][g] : \E p \in Pos'[unreg][g] : q < p
                    /\ g \in m_event_handler_map'[c] => Pos'[unreg][g] # {}
  BY DEF Settled
<1>2. /\ \A q \in Pos[reg][g] : \E p \in Pos[unreg][g] : q < p
      /\ g \in m_event_handler_map[c] => Pos[unreg][g] # {}
  BY DEF Settled
<1>3. ASSUME NEW q \in Pos[reg][g] PROVE \E p \in Pos'[unreg][g] : q < p
  <2>1. PICK p \in Pos[unreg][g] : q < p
    BY <1>2
  <2>2. q \in Nat /\ p \in Nat /\ p # 0
    BY <1>1, <2>1
  <2> QED
    BY <1>1, <2>1, <2>2
<1>4. ASSUME g \in m_event_handler_map'[c] PROVE Pos'[unreg][g] # {}
  <2>1. CASE g = h /\ type = reg
    <3>1. 0 \in Pos[reg][g]
      BY <2>1
    <3> QED
      BY <1>3, <3>1
  <2>2. CASE g \in m_event_handler_map[c] /\ (g = h => type # unreg)
    <3>1. 0 \notin Pos[unreg][g]
      BY <2>2
    <3> QED
      BY <1>1, <1>2, <2>2, <3>1
  <2> QED
    BY <1>4, <2>1, <2>2
<1> QED
  BY <1>1, <1>3, <1>4

(* So does it keep the order of the timers' actions.                       *)
LEMMA HandledTimers ==
  ASSUME TypeOK, TimerInv, NEW type \in ActionTypes, NEW h \in Handlers,
         AtHead(type, h),
         cur' = <<>>, m_reg_action_q' = m_reg_action_q, held' = held,
         TimerMove(type, h)
  PROVE  TimerInv'
<1> USE DEF AtHead, TimerMove
<1> SUFFICES ASSUME NEW g \in Handlers \ OneShot
             PROVE  /\ m_timer'[g] <= 1
                    /\ m_timer'[g] > 0 => \A q \in Pos'["REGISTER_TIMER"][g] : \E p \in Pos'["UNREGISTER_TIMER"][g] : p < q
                    /\ \A q, r \in Pos'["REGISTER_TIMER"][g] : q < r => \E p \in Pos'["UNREGISTER_TIMER"][g] : q < p /\ p < r
                    /\ "timer" \notin held[g] =>
                         /\ \A q \in Pos'["REGISTER_TIMER"][g] : \E p \in Pos'["UNREGISTER_TIMER"][g] : q < p
                         /\ m_timer'[g] > 0 => Pos'["UNREGISTER_TIMER"][g] # {}
  BY DEF TimerInv
<1> DEFINE R == Pos["REGISTER_TIMER"][g]
           U == Pos["UNREGISTER_TIMER"][g]
           R1 == Pos'["REGISTER_TIMER"][g]
           U1 == Pos'["UNREGISTER_TIMER"][g]
           n0 == m_timer[g]
           n1 == m_timer'[g]
<1>1. /\ n0 \in Nat /\ n0 <= 1
      /\ n0 > 0 => \A q \in R : \E p \in U : p < q
      /\ \A q, r \in R : q < r => \E p \in U : q < p /\ p < r
      /\ "timer" \notin held[g] => (\A q \in R : \E p \in U : q < p) /\ (n0 > 0 => U # {})
  BY DEF TimerInv, TypeOK
<1>2. /\ \A p : p \in R1 <=> p \in R /\ p # 0
      /\ \A p : p \in U1 <=> p \in U /\ p # 0
      /\ R \subseteq Nat /\ U \subseteq Nat
  BY PosHandled DEF ActionTypes, TimerTypes
<1>3. /\ 0 \in R <=> g = h /\ type = "REGISTER_TIMER"
      /\ 0 \in U <=> g = h /\ type = "UNREGISTER_TIMER"
  BY DEF ActionTypes, TimerTypes
<1>4. n1 = IF 0 \in R THEN n0 + 1 ELSE IF 0 \in U /\ n0 > 0 THEN n0 - 1 ELSE n0
  BY <1>3
<1>5. ~(0 \in R /\ 0 \in U)
  BY <1>3
<1> HIDE DEF R, U, R1, U1, n0, n1
<1>6. 0 \in R => n0 = 0
  BY <1>1, <1>2
<1>7. n1 \in Nat /\ n1 <= 1 /\ (0 \in U => n1 = 0)
  BY <1>1, <1>4, <1>5, <1>6
<1>8. ASSUME n1 > 0, NEW q \in R1 PROVE \E p \in U1 : p < q
  <2>1. q \in R /\ q > 0 /\ q \in Nat /\ 0 \notin U
    <3>1. q \in R /\ q # 0 /\ q \in Nat
      BY <1>2, <1>8
    <3>2. 0 \notin U
      BY <1>7, <1>8
    <3> QED
      BY <3>1, <3>2
  <2>2. CASE 0 \in R
    BY <1>1, <1>2, <2>1, <2>2
  <2>3. CASE 0 \notin R
    BY <1>1, <1>2, <1>4, <1>8, <2>1, <2>3
  <2> QED
    BY <2>2, <2>3
<1>9. ASSUME NEW q \in R1, NEW r \in R1, q < r PROVE \E p \in U1 : q < p /\ p < r
  <2>1. q \in R /\ r \in R /\ q \in Nat
    BY <1>2
  <2>2. PICK p \in U : q < p /\ p < r
    BY <1>1, <1>9, <2>1
  <2>3. p \in Nat /\ p # 0
    BY <1>2, <2>1, <2>2
  <2> QED
    BY <1>2, <2>2, <2>3
<1>10. "timer" \notin held[g] => \A q \in R : \E p \in U1 : q < p
  BY <1>1, <1>2
<1>11. "timer" \notin held[g] /\ n1 > 0 => U1 # {}
  <2> SUFFICES ASSUME "timer" \notin held[g], n1 > 0 PROVE U1 # {}
    OBVIOUS
  <2>1. 0 \notin U
    BY <1>7
  <2>2. CASE 0 \in R
    BY <1>10, <2>2
  <2>3. CASE 0 \notin R
    BY <1>1, <1>2, <1>4, <2>1, <2>3
  <2> QED
    BY <2>2, <2>3
<1> QED
  BY <1>2, <1>7, <1>8, <1>9, <1>10, <1>11 DEF R1, U1, n1

(* And the deleted stay deleted.                                           *)
LEMMA HandledDeletes ==
  ASSUME TypeOK, DelInv, cur' = <<>>, m_reg_action_q' = m_reg_action_q, held' = held, life' = life,
         DeadTimers
  PROVE  DelInv'
<1> USE DEF DeadTimers
<1>1. \A ty \in ActionTypes, g \in Handlers : \A p \in Pos'[ty][g] : p \in Pos[ty][g]
  BY PosHandled
<1>2. DeleteType \in ActionTypes /\ TimerTypes \cup RegisterTypes \subseteq ActionTypes
  BY DEF ActionTypes
<1> QED
  BY <1>1, <1>2 DEF DelInv

(* The handled delete leaves an object without timers, whose registrations *)
(* end by what its destructor has just posted, if not before.              *)
LEMMA DeleteKeeps ==
  ASSUME TypeOK, ChanInv, TimerInv, DelInv, NEW h \in Handlers,
         AtHead(DeleteType, h),
         cur' = <<>>, DeleteAction(h)
  PROVE  ChanInv' /\ TimerInv' /\ DelInv'
<1> USE DEF AtHead
<1>0. m_reg_action_q' = m_reg_action_q \o DestructorActions(h) /\ m_event_handler_map' = m_event_handler_map
  BY DEF DeleteAction
<1>1. \A ty \in ActionTypes, g \in Handlers :
        /\ \A p \in Pos[ty][g] : p \in Nat
        /\ \A p \in Pos[ty][g] : p # 0 => p \in Pos'[ty][g]
        /\ \A p \in Pos'[ty][g] : p \in Nat /\ p # 0
        /\ \A p \in Pos'[ty][g] : p \in Pos[ty][g] \/ (g = h /\ ty \in UnregisterTypes)
  BY <1>0, PosDestructed
<1>2. \A c \in held[h], reg, unreg \in ActionTypes : Registers(c, reg, unreg) =>
        \E p \in Pos'[unreg][h] : \A ty \in ActionTypes, g \in Handlers : \A q \in Pos[ty][g] : q < p
  BY <1>0, PosDestructed
<1>3. /\ held'[h] = {} /\ life'[h] = "deleted"
      /\ \A g \in Handlers : g # h => held'[g] = held[g] /\ life'[g] = life[g] /\ m_timer'[g] = m_timer[g]
      /\ m_timer'[h] = IF h \in Grouped THEN m_timer[h] ELSE 0
  BY DEF DeleteAction, TypeOK
<1>4. DeleteType \in ActionTypes /\ \A ty \in ActionTypes \ UnregisterTypes : ty \in TimerTypes \cup RegisterTypes \/ ty = DeleteType
  BY DEF ActionTypes
<1>5. \A ty \in ActionTypes \ UnregisterTypes : Pos'[ty][h] = {}
  <2> SUFFICES ASSUME NEW ty \in ActionTypes \ UnregisterTypes, NEW p \in Pos'[ty][h] PROVE FALSE
    OBVIOUS
  <2>1. p \in Pos[ty][h] /\ p \in Nat /\ p # 0
    BY <1>1
  <2>2. 0 \in Pos[DeleteType][h]
    BY <1>4
  <2>3. p < 0 \/ p = 0
    BY <1>4, <2>1, <2>2 DEF DelInv
  <2> QED
    BY <2>1, <2>3
<1>6. life[h] = "dying"
  BY <1>4 DEF DelInv
<1>7. ASSUME NEW c \in Channels, NEW reg \in ActionTypes, NEW unreg \in ActionTypes,
             Registers(c, reg, unreg), Settled(c, reg, unreg)
      PROVE  Settled(c, reg, unreg)'
  <2> SUFFICES ASSUME NEW g \in Handlers, c \notin held'[g]
               PROVE  /\ \A q \in Pos'[reg][g] : \E p \in Pos'[unreg][g] : q < p
                      /\ g \in m_event_handler_map[c] => Pos'[unreg][g] # {}
    BY <1>0 DEF Settled
  <2>0. reg \notin UnregisterTypes /\ reg # DeleteType /\ unreg # DeleteType
    BY <1>7 DEF Registers, UnregisterTypes, DeleteType
  <2>1. CASE g # h
    <3>1. \A p : (p \in Pos'[reg][g] <=> p \in Pos[reg][g]) /\ (p \in Pos'[unreg][g] <=> p \in Pos[unreg][g])
      BY <1>1, <2>1
    <3> QED
      BY <1>3, <1>7, <2>1, <3>1 DEF Settled
  <2>2. CASE g = h
    <3>1. Pos'[reg][g] = {}
      BY <1>5, <2>0, <2>2
    <3>2. CASE c \in held[h]
      BY <1>2, <1>7, <2>2, <3>1, <3>2
    <3>3. CASE c \notin held[h]
      <4>1. 0 \notin Pos[unreg][h]
        BY <2>0
      <4>2. h \in m_event_handler_map[c] => Pos[unreg][h] # {}
        BY <1>7, <3>3 DEF Settled
      <4> QED
        BY <1>1, <2>2, <3>1, <4>1, <4>2
    <3> QED
      BY <3>2, <3>3
  <2> QED
    BY <2>1, <2>2
<1>8. ChanInv'
  BY <1>7 DEF ChanInv, Registers, Channels, ActionTypes, RegisterTypes, UnregisterTypes
<1>9. m_timer'[h] = 0
  <2>1. CASE h \in Grouped
    <3>1. h \in Handlers \ OneShot /\ "timer" \notin held[h]
      BY <1>6, <2>1, ConstantsAssumption DEF DelInv
    <3>2. Pos["UNREGISTER_TIMER"][h] = {}
      <4>1. "UNREGISTER_TIMER" \in ActionTypes \ UnregisterTypes /\ "UNREGISTER_TIMER" # DeleteType
        BY DEF ActionTypes, TimerTypes, UnregisterTypes, DeleteType
      <4>2. 0 \notin Pos["UNREGISTER_TIMER"][h] /\ Pos'["UNREGISTER_TIMER"][h] = {}
        BY <1>5, <4>1
      <4> QED
        BY <1>1, <4>1, <4>2
    <3>3. m_timer[h] \in Nat /\ ~(m_timer[h] > 0)
      BY <3>1, <3>2 DEF TimerInv, TypeOK
    <3> QED
      BY <1>3, <2>1, <3>3
  <2> QED
    BY <1>3, <2>1
<1>10. TimerInv'
  <2>0. /\ "REGISTER_TIMER" \in ActionTypes \ UnregisterTypes /\ "REGISTER_TIMER" # DeleteType
        /\ "UNREGISTER_TIMER" \in ActionTypes \ UnregisterTypes /\ "UNREGISTER_TIMER" # DeleteType
    BY DEF ActionTypes, TimerTypes, UnregisterTypes, DeleteType
  <2>1. \A g \in Handlers : g # h => \A p :
          /\ p \in Pos'["REGISTER_TIMER"][g] <=> p \in Pos["REGISTER_TIMER"][g]
          /\ p \in Pos'["UNREGISTER_TIMER"][g] <=> p \in Pos["UNREGISTER_TIMER"][g]
    <3> SUFFICES ASSUME NEW ty \in ActionTypes \ UnregisterTypes, ty # DeleteType, NEW g \in Handlers, g # h, NEW p
                 PROVE  p \in Pos'[ty][g] <=> p \in Pos[ty][g]
      BY <2>0
    <3>1. 0 \notin Pos[ty][g]
      OBVIOUS
    <3> QED
      BY <1>1, <3>1
  <2>2. Pos'["REGISTER_TIMER"][h] = {} /\ Pos'["UNREGISTER_TIMER"][h] = {}
    BY <1>5, <2>0
  <2> SUFFICES ASSUME NEW g \in Handlers \ OneShot
             PROVE  /\ m_timer'[g] <= 1
                    /\ m_timer'[g] > 0 => \A q \in Pos'["REGISTER_TIMER"][g] : \E p \in Pos'["UNREGISTER_TIMER"][g] : p < q
                    /\ \A q, r \in Pos'["REGISTER_TIMER"][g] : q < r => \E p \in Pos'["UNREGISTER_TIMER"][g] : q < p /\ p < r
                    /\ "timer" \notin held'[g] =>
                         /\ \A q \in Pos'["REGISTER_TIMER"][g] : \E p \in Pos'["UNREGISTER_TIMER"][g] : q < p
                         /\ m_timer'[g] > 0 => Pos'["UNREGISTER_TIMER"][g] # {}
    BY DEF TimerInv
  <2>3. CASE g = h
    BY <1>9, <2>2, <2>3
  <2>4. CASE g # h
    BY <1>3, <2>1, <2>4 DEF TimerInv
  <2> QED
    BY <2>3, <2>4
<1>11. DelInv'
  <2> SUFFICES ASSUME NEW g \in Handlers
               PROVE  /\ \A p \in Pos'[DeleteType][g] :
                           /\ life'[g] = "dying" /\ \A q \in Pos'[DeleteType][g] : q = p
                           /\ \A ty \in TimerTypes \cup RegisterTypes : \A q \in Pos'[ty][g] : q < p
                      /\ life'[g] = "deleted" =>
                           /\ held'[g] = {} /\ m_timer'[g] = 0
                           /\ \A ty \in ActionTypes \ UnregisterTypes : Pos'[ty][g] = {}
                      /\ life'[g] # "live" /\ g \in Grouped => "timer" \notin held'[g]
    BY DEF DelInv
  <2>0. DeleteType \notin UnregisterTypes /\ \A ty \in TimerTypes \cup RegisterTypes : ty \in ActionTypes \ UnregisterTypes
    BY DEF ActionTypes, TimerTypes, RegisterTypes, UnregisterTypes, DeleteType
  <2>1. CASE g = h
    BY <1>3, <1>4, <1>5, <1>9, <2>0, <2>1
  <2>2. CASE g # h
    <3>1. \A ty \in ActionTypes : \A p \in Pos'[ty][g] : p \in Pos[ty][g]
      BY <1>1, <2>2
    <3> QED
      BY <1>3, <1>4, <2>0, <2>2, <3>1 DEF DelInv
  <2> QED
    BY <2>1, <2>2
<1> QED
  BY <1>8, <1>10, <1>11

(* Steps that leave the queue and the tables alone keep what holds of them.*)
LEMMA StillKeeps ==
  ASSUME cur' = cur, m_reg_action_q' = m_reg_action_q, held' = held, life' = life,
         m_event_handler_map' = m_event_handler_map,
         SameTimers, DeadTimers
  PROVE  /\ ChanInv => ChanInv'
         /\ TimerInv => TimerInv'
         /\ DelInv => DelInv'
         /\ Pos' = Pos
<1> USE DEF SameTimers, DeadTimers
<1>1. Pos' = Pos
  BY DEF Pos, Action
<1> QED
  BY <1>1 DEF ChanInv, Settled, TimerInv, DelInv

(* What a thread is about to push stays its owner's to post as long as     *)
(* nobody posts for, or deletes, the same object.                          *)
LEMMA ArgKeeps ==
  ASSUME ArgInv,
         \A t \in Threads : pc'[t] \in {"start", "push"} =>
           /\ pc[t] \in {"start", "push"} /\ arg'[t] = arg[t]
           /\ life'[arg[t].handler] = life[arg[t].handler] /\ held'[arg[t].handler] = held[arg[t].handler]
  PROVE  ArgInv'
<1>1. ASSUME NEW t \in Threads, pc'[t] \in {"start", "push"}
      PROVE  /\ life'[arg'[t].handler] = "live"
             /\ MayPost(arg[t].type, arg[t].handler)'
             /\ \A u \in Threads : u # t /\ pc'[u] \in {"start", "push"} => arg'[u].handler # arg'[t].handler
  <2>1. life'[arg'[t].handler] = "live"
    BY <1>1 DEF ArgInv
  <2>2. \A u \in Threads : u # t /\ pc'[u] \in {"start", "push"} => arg'[u].handler # arg'[t].handler
    BY <1>1 DEF ArgInv
  <2>3. MayPost(arg[t].type, arg[t].handler)'
    BY <1>1 DEF ArgInv, MayPost
  <2> QED
    BY <2>1, <2>2, <2>3
<1> QED
  BY <1>1 DEF ArgInv

(* A callback keeps the invariant, whether it posts or not.                *)
LEMMA CallbackKeeps ==
  ASSUME TypeOK, DelInv, ArgInv, NEW h \in Handlers, NEW unread, CallbackOf(h, unread),
         cur' = cur, pc' = pc, arg' = arg, m_event_handler_map' = m_event_handler_map,
         SameTimers, DeadTimers
  PROVE  /\ ChanInv => ChanInv'
         /\ TimerInv => TimerInv'
         /\ DelInv' /\ ArgInv'
         /\ \A g \in Handlers : life'[g] = "deleted" =>
              life[g] = "deleted" /\ \A ty \in ActionTypes : Pos'[ty][g] = Pos[ty][g]
<1>1. CASE UNCHANGED <<m_reg_action_q, pipe_in_epfd, ownVars, posts>>
  <2>1. m_reg_action_q' = m_reg_action_q /\ held' = held /\ life' = life
    BY <1>1 DEF ownVars
  <2>2. ArgInv'
    BY <2>1, ArgKeeps
  <2> QED
    BY <2>1, <2>2, StillKeeps
<1>2. ASSUME NEW type \in ActionTypes, NEW g \in Handlers, InternalPost(type, g), OwnerPosts(type, g, unread)
      PROVE  /\ ChanInv => ChanInv'
             /\ TimerInv => TimerInv'
             /\ DelInv' /\ ArgInv'
             /\ \A x \in Handlers : life'[x] = "deleted" =>
                  life[x] = "deleted" /\ \A ty \in ActionTypes : Pos'[ty][x] = Pos[ty][x]
  <2>1. MayPost(type, g) /\ ~OwnerLocked(g) /\ m_reg_action_q' = Append(m_reg_action_q, Action(type, g))
    BY <1>2 DEF InternalPost, Action
  <2>2. \A x \in Handlers : x # g => held'[x] = held[x] /\ life'[x] = life[x]
    BY <1>2, OwnerEffect
  <2>3. \A t \in Threads : pc[t] \in {"start", "push"} => arg[t].handler \in Handlers /\ arg[t].handler # g
    BY <2>1 DEF OwnerLocked, TypeOK, RegAction
  <2>4. ArgInv'
    BY <2>2, <2>3, ArgKeeps
  <2> QED
    BY <1>2, <2>1, <2>4, PostKeeps
<1> QED
  BY <1>1, <1>2 DEF CallbackOf

(* No object is called back after it is deleted: the reason, inductively.  *)
CallInv ==
  /\ m_b_continue_running => ChanInv /\ TimerInv
  /\ DelInv /\ DrainInv /\ ArgInv /\ NoCallAfterDelete

(* Every step that leaves the queue and the tables alone keeps it.         *)
LEMMA StillStep ==
  ASSUME TypeOK, CallInv,
         cur' = cur, m_reg_action_q' = m_reg_action_q, held' = held, life' = life,
         m_event_handler_map' = m_event_handler_map, m_timer' = m_timer,
         m_b_continue_running' => m_b_continue_running,
         itc' \in {"drain", "handle"} \/ itc \notin {"drain", "handle"} \/ (itc = "drain" /\ m_reg_action_q = <<>>),
         calling' \in {{}, calling}, ArgInv'
  PROVE  CallInv'
<1>1. (ChanInv => ChanInv') /\ (TimerInv => TimerInv') /\ DelInv' /\ Pos' = Pos
  <2>1. SameTimers /\ DeadTimers
    BY DEF CallInv, DelInv, SameTimers, DeadTimers
  <2> QED
    BY <2>1, StillKeeps DEF CallInv
<1>2. NoCallAfterDelete'
  BY DEF CallInv, NoCallAfterDelete
<1>3. DrainInv'
  <2>1. CASE itc' \in {"drain", "handle"}
    BY <2>1 DEF DrainInv
  <2>2. CASE itc \notin {"drain", "handle"}
    BY <1>1, <2>2 DEF CallInv, DrainInv
  <2>3. CASE itc = "drain" /\ m_reg_action_q = <<>>
    <3>1. cur = <<>>
      BY <2>3 DEF TypeOK
    <3>2. \A ty \in ActionTypes, g \in Handlers : Pos[ty][g] = {}
      BY <2>3, <3>1 DEF Pos
    <3> QED
      BY <1>1, <3>2 DEF DrainInv
  <2> QED
    BY <2>1, <2>2, <2>3
<1> QED
  BY <1>1, <1>2, <1>3 DEF CallInv

(* Every step keeps it.                                                    *)
LEMMA CallInvStep == TypeOK /\ SleepInv /\ CallInv /\ [Next]_vars => CallInv'
<1> SUFFICES ASSUME TypeOK, SleepInv, CallInv, [Next]_vars PROVE CallInv'
  OBVIOUS
<1>0. DelInv /\ DrainInv /\ ArgInv /\ NoCallAfterDelete /\ (m_b_continue_running => ChanInv /\ TimerInv)
  BY DEF CallInv
<1>a. ASSUME NEW t \in Threads, NEW type \in AppTypes, NEW h \in Handlers, Post(t, type, h) PROVE CallInv'
  <2>1. UNCHANGED <<evhVars, queueVars, tblVars, evVars, ownVars, thrVars, stopper>> /\ ~OwnerLocked(h) /\ life[h] = "live" /\ MayPost(type, h)
    BY <1>a DEF Post
  <2>2. /\ pc' = [pc EXCEPT ![t] = "start"] /\ arg' = [arg EXCEPT ![t] = Action(type, h)]
        /\ pc \in [Threads -> {"idle", "start", "push", "wakeup", "add"}] /\ DOMAIN arg = Threads
    BY <1>a DEF Post, Action, TypeOK
  <2>3. \A u \in Threads : u # t => pc'[u] = pc[u] /\ arg'[u] = arg[u]
    BY <2>2
  <2>4. arg'[t].type = type /\ arg'[t].handler = h
    <3>1. arg'[t] = Action(type, h)
      BY <2>2
    <3> QED
      BY <3>1 DEF Action
  <2>5. \A u \in Threads : pc[u] \in {"start", "push"} => arg[u].handler # h
    BY <2>1 DEF OwnerLocked
  <2>6. held' = held /\ life' = life
    BY <2>1 DEF ownVars
  <2>7. ASSUME NEW u \in Threads, pc'[u] \in {"start", "push"}
        PROVE  /\ life'[arg'[u].handler] = "live"
               /\ MayPost(arg[u].type, arg[u].handler)'
               /\ \A w \in Threads : w # u /\ pc'[w] \in {"start", "push"} => arg'[w].handler # arg'[u].handler
    <3>1. CASE u = t
      <4>1. MayPost(arg[u].type, arg[u].handler)'
        BY <2>1, <2>4, <2>6, <3>1 DEF MayPost
      <4> QED
        BY <2>1, <2>3, <2>4, <2>5, <2>6, <3>1, <4>1
    <3>2. CASE u # t
      <4>1. pc[u] \in {"start", "push"} /\ arg'[u] = arg[u]
        BY <2>3, <2>7, <3>2
      <4>2. life[arg[u].handler] = "live" /\ MayPost(arg[u].type, arg[u].handler)
        BY <1>0, <4>1 DEF ArgInv
      <4>3. MayPost(arg[u].type, arg[u].handler)'
        BY <2>6, <4>1, <4>2 DEF MayPost
      <4>4. \A w \in Threads : w # u /\ pc'[w] \in {"start", "push"} => arg'[w].handler # arg'[u].handler
        <5> SUFFICES ASSUME NEW w \in Threads, w # u, pc'[w] \in {"start", "push"}
                     PROVE  arg'[w].handler # arg'[u].handler
          OBVIOUS
        <5>1. CASE w = t
          BY <2>4, <2>5, <4>1, <5>1
        <5>2. CASE w # t
          <6>1. pc[w] \in {"start", "push"} /\ arg'[w] = arg[w]
            BY <2>3, <5>2
          <6>2. arg[w].handler # arg[u].handler
            BY <1>0, <4>1, <6>1 DEF ArgInv
          <6> QED
            BY <4>1, <6>1, <6>2
        <5> QED
          BY <5>1, <5>2
      <4> QED
        BY <2>6, <4>1, <4>2, <4>3, <4>4
    <3> QED
      BY <3>1, <3>2
  <2>8. ArgInv'
    BY <2>7 DEF ArgInv
  <2> QED
    BY <2>1, <2>8, StillStep DEF evhVars, queueVars, tblVars, ownVars, thrVars
<1>b. ASSUME NEW t \in Threads, Push(t) PROVE CallInv'
  <2> DEFINE type == arg[t].type
             h == arg[t].handler
  <2>1. arg[t] \in RegAction /\ pc[t] = "push"
    BY <1>b DEF Push, TypeOK
  <2>2. type \in ActionTypes /\ h \in Handlers /\ arg[t] = Action(type, h)
    BY <2>1 DEF RegAction, Action
  <2>3. MayPost(type, h) /\ \A u \in Threads : u # t /\ pc[u] \in {"start", "push"} => arg[u].handler # h
    BY <1>0, <2>1 DEF ArgInv
  <2>4. OwnerPosts(type, h, cm_events) /\ m_reg_action_q' = Append(m_reg_action_q, Action(type, h))
    BY <1>b, <2>2 DEF Push
  <2>5. UNCHANGED <<evhVars, tblVars, thrVars>>
    BY <1>b DEF Push
  <2>6. SameTimers /\ DeadTimers
    BY <1>0, <2>5 DEF DelInv, SameTimers, DeadTimers, tblVars
  <2>7. /\ ChanInv => ChanInv'
        /\ TimerInv => TimerInv'
        /\ DelInv'
        /\ \A g \in Handlers : life'[g] = "deleted" =>
             life[g] = "deleted" /\ \A ty \in ActionTypes : Pos'[ty][g] = Pos[ty][g]
    <3> HIDE DEF type, h
    <3> QED
      BY <1>0, <2>2, <2>3, <2>4, <2>5, <2>6, PostKeeps DEF tblVars, thrVars
  <2>8. \A g \in Handlers : g # h => held'[g] = held[g] /\ life'[g] = life[g]
    <3> HIDE DEF type, h
    <3> QED
      BY <2>2, <2>4, OwnerEffect
  <2>9. ArgInv'
    <3>1. \A u \in Threads : pc'[u] \in {"start", "push"} => u # t /\ pc'[u] = pc[u] /\ arg'[u] = arg[u]
      BY <1>b DEF Push, TypeOK
    <3>2. \A u \in Threads : pc[u] \in {"start", "push"} => arg[u].handler \in Handlers
      BY DEF TypeOK, RegAction
    <3> QED
      BY <1>0, <2>3, <2>8, <3>1, <3>2, ArgKeeps
  <2>10. DrainInv' /\ NoCallAfterDelete'
    <3>1. itc' = itc /\ calling' = calling /\ calling \subseteq Handlers
      BY <2>5 DEF thrVars, TypeOK
    <3> QED
      BY <1>0, <2>7, <3>1 DEF DrainInv, NoCallAfterDelete
  <2> QED
    BY <1>0, <2>5, <2>7, <2>9, <2>10 DEF CallInv, evhVars
<1>c. ASSUME PopAction PROVE CallInv'
  <2>1. (ChanInv => ChanInv') /\ (TimerInv => TimerInv') /\ DelInv'
    BY <1>0, <1>c, PopKeeps
  <2>2. pc' = pc /\ arg' = arg /\ life' = life /\ held' = held /\ itc' = "handle" /\ calling' = {} /\ m_b_continue_running' = m_b_continue_running
    BY <1>c DEF PopAction, appVars, ownVars, evhVars
  <2>3. ArgInv'
    BY <1>0, <2>2, ArgKeeps
  <2> QED
    BY <1>0, <2>1, <2>2, <2>3 DEF CallInv, DrainInv, NoCallAfterDelete
<1>d. ASSUME HandleRegistrationAction PROVE CallInv'
  <2>1. PICK type \in ActionTypes, h \in Handlers :
          ActionEffect(type, h) /\ AtHead(type, h)
    BY <1>d, Popped
  <2>2. cur' = <<>> /\ itc' = "drain" /\ calling' = {} /\ pc' = pc /\ arg' = arg /\ m_b_continue_running' = m_b_continue_running
    BY <1>d DEF HandleRegistrationAction, appVars, evhVars
  <2>3. DrainInv' /\ NoCallAfterDelete'
    BY <2>2 DEF DrainInv, NoCallAfterDelete
  <2>4. \A g \in Handlers : life[g] = "deleted" => m_timer[g] = 0
    BY <1>0 DEF DelInv
  <2>5. m_timer \in [Handlers -> Nat] /\ m_event_handler_map \in [Channels -> SUBSET Handlers]
    BY DEF TypeOK
  <2>6. CASE ~m_b_continue_running /\ UNCHANGED <<m_reg_action_q, pipe_in_epfd, tblVars, evVars, ownVars>>
    <3>1. m_reg_action_q' = m_reg_action_q /\ held' = held /\ life' = life /\ m_timer' = m_timer
      BY <2>6 DEF ownVars, tblVars
    <3>2. DelInv'
      <4>1. DeadTimers
        BY <2>4, <3>1 DEF DeadTimers
      <4> QED
        BY <1>0, <2>2, <3>1, <4>1, HandledDeletes
    <3>3. ArgInv'
      BY <1>0, <2>2, <3>1, ArgKeeps
    <3> QED
      BY <2>2, <2>3, <2>6, <3>2, <3>3 DEF CallInv
  <2>7. CASE m_b_continue_running /\ type \in TimerTypes /\ TimerAction(type, h)
    <3>1. m_reg_action_q' = m_reg_action_q /\ held' = held /\ life' = life /\ m_event_handler_map' = m_event_handler_map
      BY <2>7 DEF TimerAction, ownVars
    <3>2. \A g \in Handlers : m_timer'[g] =
            IF g = h /\ type = "REGISTER_TIMER" THEN m_timer[g] + 1
            ELSE IF g = h /\ type = "UNREGISTER_TIMER" /\ m_timer[g] > 0 THEN m_timer[g] - 1 ELSE m_timer[g]
      BY <2>5, <2>7 DEF TimerAction
    <3>3. TimerInv'
      <4>1. TimerInv /\ TimerMove(type, h)
        BY <1>0, <2>7, <3>2 DEF TimerMove
      <4> QED
        BY <2>1, <2>2, <3>1, <4>1, HandledTimers
    <3>4. type \notin UnregisterTypes
      BY <2>7 DEF TimerTypes, UnregisterTypes
    <3>5. life[h] # "deleted"
      BY <1>0, <2>1, <3>4 DEF DelInv, AtHead
    <3>6. DelInv'
      <4>1. DeadTimers
        BY <2>4, <3>2, <3>5 DEF DeadTimers
      <4> QED
        BY <1>0, <2>2, <3>1, <4>1, HandledDeletes
    <3>7. ASSUME NEW c \in Channels, NEW reg \in ActionTypes, NEW unreg \in ActionTypes,
                 Registers(c, reg, unreg), Settled(c, reg, unreg)
          PROVE  Settled(c, reg, unreg)'
      <4>1. type # unreg
        BY <2>7, <3>7 DEF Registers, TimerTypes
      <4>2. MapMove(c, reg, unreg, type, h)
        BY <3>1, <4>1 DEF MapMove
      <4> QED
        BY <2>1, <2>2, <3>1, <3>7, <4>2, HandledSettled
    <3>8. ChanInv'
      BY <1>0, <2>7, <3>7 DEF ChanInv, Registers, Channels, ActionTypes, RegisterTypes, UnregisterTypes
    <3>9. ArgInv'
      BY <1>0, <2>2, <3>1, ArgKeeps
    <3> QED
      BY <2>3, <3>3, <3>6, <3>8, <3>9 DEF CallInv
  <2>8. CASE m_b_continue_running /\ type \in RegisterTypes \cup UnregisterTypes /\ (RegisterAction(type, h) \/ UnregisterAction(type, h))
             /\ (type \in RegisterTypes => RegisterAction(type, h)) /\ (type \in UnregisterTypes => UnregisterAction(type, h))
    <3>1. m_reg_action_q' = m_reg_action_q /\ held' = held /\ life' = life /\ m_timer' = m_timer
      BY <2>8 DEF RegisterAction, UnregisterAction, ownVars
    <3>2. TimerInv'
      <4>1. type # "REGISTER_TIMER" /\ type # "UNREGISTER_TIMER"
        BY <2>8 DEF RegisterTypes, UnregisterTypes
      <4>2. TimerInv /\ TimerMove(type, h)
        BY <1>0, <2>8, <3>1, <4>1 DEF TimerMove
      <4> QED
        BY <2>1, <2>2, <3>1, <4>2, HandledTimers
    <3>3. DelInv'
      <4>1. DeadTimers
        BY <2>4, <3>1 DEF DeadTimers
      <4> QED
        BY <1>0, <2>2, <3>1, <4>1, HandledDeletes
    <3>4. ASSUME NEW c \in Channels, NEW reg \in ActionTypes, NEW unreg \in ActionTypes,
                 Registers(c, reg, unreg), Settled(c, reg, unreg)
          PROVE  Settled(c, reg, unreg)'
      <4>1. ASSUME NEW g \in Handlers, g \in m_event_handler_map'[c]
            PROVE  (g \in m_event_handler_map[c] /\ (g = h => type # unreg)) \/ (g = h /\ type = reg)
        <5>1. reg \in RegisterTypes /\ unreg \in UnregisterTypes /\ reg \notin UnregisterTypes /\ unreg \notin RegisterTypes
          BY <3>4 DEF Registers, RegisterTypes, UnregisterTypes
        <5>2. ChannelOf(type) \in Channels /\ (ChannelOf(type) = c <=> type = reg \/ type = unreg)
          BY <2>8, <3>4 DEF Registers, ChannelOf, Channels, RegisterTypes, UnregisterTypes
        <5>3. CASE type \in RegisterTypes
          <6>1. m_event_handler_map'[c] = IF c = ChannelOf(type) THEN m_event_handler_map[c] \cup {h} ELSE m_event_handler_map[c]
            BY <2>5, <2>8, <5>2, <5>3 DEF RegisterAction
          <6> QED
            BY <4>1, <5>1, <5>2, <5>3, <6>1
        <5>4. CASE type \in UnregisterTypes
          <6>1. m_event_handler_map'[c] = IF c = ChannelOf(type) THEN m_event_handler_map[c] \ {h} ELSE m_event_handler_map[c]
            BY <2>5, <2>8, <5>2, <5>4 DEF UnregisterAction
          <6> QED
            BY <4>1, <5>1, <5>2, <5>4, <6>1
        <5> QED
          BY <2>8, <5>3, <5>4
      <4>2. MapMove(c, reg, unreg, type, h)
        BY <4>1 DEF MapMove
      <4> QED
        BY <2>1, <2>2, <3>1, <3>4, <4>2, HandledSettled
    <3>5. ChanInv'
      BY <1>0, <2>8, <3>4 DEF ChanInv, Registers, Channels, ActionTypes, RegisterTypes, UnregisterTypes
    <3>6. ArgInv'
      BY <1>0, <2>2, <3>1, ArgKeeps
    <3> QED
      BY <2>3, <3>2, <3>3, <3>5, <3>6 DEF CallInv
  <2>9. CASE m_b_continue_running /\ type = DeleteType /\ DeleteAction(h)
    <3>1. ChanInv' /\ TimerInv' /\ DelInv'
      BY <1>0, <2>1, <2>2, <2>9, DeleteKeeps
    <3>2. \A g \in Handlers : g # h => held'[g] = held[g] /\ life'[g] = life[g]
      BY <2>9 DEF DeleteAction, TypeOK
    <3>3. life[h] = "dying"
      <4>1. 0 \in Pos[DeleteType][h]
        BY <2>1, <2>9 DEF AtHead
      <4> QED
        BY <1>0, <4>1 DEF DelInv
    <3>4. \A t \in Threads : pc[t] \in {"start", "push"} => arg[t].handler \in Handlers /\ arg[t].handler # h
      BY <1>0, <3>3 DEF ArgInv, TypeOK, RegAction
    <3>5. ArgInv'
      BY <1>0, <2>2, <3>2, <3>4, ArgKeeps
    <3> QED
      BY <2>3, <3>1, <3>5 DEF CallInv
  <2> QED
    BY <2>1, <2>6, <2>7, <2>8, <2>9 DEF ActionEffect, RegisterTypes, UnregisterTypes
<1>e. ASSUME NEW h \in Handlers, NEW unread, CallbackOf(h, unread),
             cur' = cur, pc' = pc, arg' = arg, m_event_handler_map' = m_event_handler_map,
             SameTimers, DeadTimers,
             m_b_continue_running' = m_b_continue_running, itc \notin {"drain", "handle"},
             calling' \subseteq Handlers, \A g \in calling' : life[g] # "deleted"
      PROVE  CallInv'
  <2>1. /\ ChanInv => ChanInv'
        /\ TimerInv => TimerInv'
        /\ DelInv' /\ ArgInv'
        /\ \A g \in Handlers : life'[g] = "deleted" =>
             life[g] = "deleted" /\ \A ty \in ActionTypes : Pos'[ty][g] = Pos[ty][g]
    BY <1>0, <1>e, CallbackKeeps
  <2>2. DrainInv'
    BY <1>0, <1>e, <2>1 DEF DrainInv
  <2>3. NoCallAfterDelete'
    BY <1>e, <2>1 DEF NoCallAfterDelete
  <2>4. m_b_continue_running' => ChanInv' /\ TimerInv'
    BY <1>0, <1>e, <2>1
  <2> QED
    BY <2>1, <2>2, <2>3, <2>4 DEF CallInv
<1>f. ASSUME NEW h \in Handlers, FireTimer(h) PROVE CallInv'
  <2>1. m_timer[h] > 0 /\ m_timer \in [Handlers -> Nat]
    BY <1>f DEF FireTimer, SleepInv, TypeOK
  <2>2. \A g \in Handlers : life[g] = "deleted" => m_timer[g] = 0 /\ g # h
    BY <1>0, <2>1 DEF DelInv
  <2>3. /\ \A g \in Handlers \ OneShot : m_timer'[g] = m_timer[g]
        /\ \A g \in Handlers : g # h => m_timer'[g] = m_timer[g]
    BY <1>f, <2>1 DEF FireTimer
  <2>4. CallbackOf(h, cm_events) /\ calling' = {h} /\ itc \notin {"drain", "handle"}
    BY <1>f DEF FireTimer
  <2>5. cur' = cur /\ pc' = pc /\ arg' = arg /\ m_event_handler_map' = m_event_handler_map /\ m_b_continue_running' = m_b_continue_running
    BY <1>f DEF FireTimer, appVars, evhVars
  <2>6. SameTimers /\ DeadTimers
    BY <2>2, <2>3 DEF SameTimers, DeadTimers
  <2>7. \A g \in calling' : life[g] # "deleted"
    BY <2>2, <2>4
  <2> QED
    BY <1>e, <2>4, <2>5, <2>6, <2>7
<1>s. ASSUME cur' = cur, m_reg_action_q' = m_reg_action_q, held' = held, life' = life,
             m_event_handler_map' = m_event_handler_map, m_timer' = m_timer,
             m_b_continue_running' => m_b_continue_running,
             itc' \in {"drain", "handle"} \/ itc \notin {"drain", "handle"} \/ (itc = "drain" /\ m_reg_action_q = <<>>),
             calling' \in {{}, calling}, arg' = arg,
             \A t \in Threads : pc'[t] \in {"start", "push"} => pc[t] \in {"start", "push"}
      PROVE  CallInv'
  <2>1. ArgInv'
    BY <1>0, <1>s, ArgKeeps
  <2> QED
    BY <1>s, <2>1, StillStep
<1>v. ASSUME NEW c, Visit(c)
      PROVE  /\ m_b_continue_running /\ itc = "events" /\ itc' = itc /\ cur' = cur /\ pc' = pc /\ arg' = arg
             /\ m_event_handler_map' = m_event_handler_map /\ m_timer' = m_timer
             /\ m_b_continue_running' = m_b_continue_running
             /\ SameTimers /\ DeadTimers
  BY <1>0, <1>v DEF Visit, evhVars, tblVars, appVars, DelInv, SameTimers, DeadTimers
<1>w. ASSUME m_b_continue_running, itc = "events", NEW c \in Channels, NEW h \in m_event_handler_map[c]
      PROVE  h \in Handlers /\ life[h] # "deleted"
  <2>1. h \in Handlers
    BY DEF TypeOK
  <2>2. ASSUME life[h] = "deleted", NEW reg \in ActionTypes, NEW unreg \in ActionTypes, Settled(c, reg, unreg)
        PROVE  FALSE
    <3>1. held[h] = {}
      BY <1>0, <2>1, <2>2 DEF DelInv
    <3>2. Pos[unreg][h] # {}
      BY <1>w, <2>1, <2>2, <3>1 DEF Settled
    <3>3. Pos[unreg][h] = {}
      BY <1>0, <1>w, <2>1, <2>2 DEF DrainInv
    <3> QED
      BY <3>2, <3>3
  <2>3. c = "ibverbs" => Settled(c, "REGISTER_IBVERBS", "UNREGISTER_IBVERBS")
    BY <1>0, <1>w DEF ChanInv
  <2>4. c = "rdma_cm" => Settled(c, "REGISTER_RDMA_CM", "UNREGISTER_RDMA_CM")
    BY <1>0, <1>w DEF ChanInv
  <2>5. {"REGISTER_IBVERBS", "UNREGISTER_IBVERBS", "REGISTER_RDMA_CM", "UNREGISTER_RDMA_CM"} \subseteq ActionTypes
    BY DEF ActionTypes, RegisterTypes, UnregisterTypes
  <2> QED
    BY <2>1, <2>2, <2>3, <2>4, <2>5 DEF Channels
<1>g. ASSUME ProcessRdmaCmEvent PROVE CallInv'
  <2>1. Visit("rdma_cm") /\ "rdma_cm" \in Channels
    BY <1>g DEF ProcessRdmaCmEvent, Channels
  <2>2. CASE UNCHANGED <<m_reg_action_q, ownVars>> /\ calling' = {}
    BY <1>s, <1>v, <2>1, <2>2 DEF ownVars
  <2>3. ASSUME NEW h \in m_event_handler_map["rdma_cm"], calling' = {h}, CallbackOf(h, cm_events \ {h})
        PROVE  CallInv'
    <3>1. h \in Handlers /\ life[h] # "deleted"
      BY <1>v, <1>w, <2>1
    <3> QED
      BY <1>e, <1>v, <2>1, <2>3, <3>1
  <2> QED
    BY <1>g, <2>2, <2>3 DEF ProcessRdmaCmEvent, ownVars
<1>h. ASSUME ProcessIbverbsEvent PROVE CallInv'
  <2>1. Visit("ibverbs") /\ "ibverbs" \in Channels
    BY <1>h DEF ProcessIbverbsEvent, Channels
  <2>2. CASE UNCHANGED <<m_reg_action_q, ownVars>> /\ calling' = {}
    BY <1>s, <1>v, <2>1, <2>2 DEF ownVars
  <2>3. ASSUME calling' = m_event_handler_map["ibverbs"],
               NEW h \in m_event_handler_map["ibverbs"], CallbackOf(h, cm_events)
        PROVE  CallInv'
    <3>1. \A g \in m_event_handler_map["ibverbs"] : g \in Handlers /\ life[g] # "deleted"
      BY <1>v, <1>w, <2>1
    <3> QED
      BY <1>e, <1>v, <2>1, <2>3, <3>1
  <2> QED
    BY <1>h, <2>2, <2>3 DEF ProcessIbverbsEvent, ownVars
<1>i. ASSUME ProcessCommandEvent PROVE CallInv'
  <2>1. Visit("command")
    BY <1>i DEF ProcessCommandEvent
  <2>2. CASE UNCHANGED <<m_reg_action_q, ownVars>> /\ calling' = {}
    BY <1>s, <1>v, <2>1, <2>2 DEF ownVars
  <2>3. ASSUME NEW h \in Handlers, life[h] = "live", calling' = {h}, CallbackOf(h, cm_events)
        PROVE  CallInv'
    BY <1>e, <1>v, <2>1, <2>3
  <2> QED
    BY <1>i, <2>2, <2>3 DEF ProcessCommandEvent, ownVars
<1> USE DEF evhVars, queueVars, tblVars, evVars, ownVars, thrVars, appVars
<1>1. ASSUME NEW t \in Threads, StartThread(t) \/ DoWakeupCheck(t) \/ DoWakeupAdd(t) PROVE CallInv'
  <2>1. \A u \in Threads : pc'[u] \in {"start", "push"} => pc[u] \in {"start", "push"}
    BY <1>1 DEF StartThread, DoWakeupCheck, DoWakeupAdd, TypeOK
  <2>2. CASE StartThread(t)
    BY <1>s, <2>1, <2>2 DEF StartThread, SleepInv
  <2>3. CASE DoWakeupCheck(t) \/ DoWakeupAdd(t)
    BY <1>s, <2>1, <2>3 DEF DoWakeupCheck, DoWakeupAdd
  <2> QED
    BY <1>1, <2>2, <2>3
<1>2. CASE StopThread \/ StopSteps
  BY <1>s, <1>2 DEF StopThread, StopSteps, StopWakeupCheck, StopWakeupAdd, StopJoin
<1>3. CASE LoopTop
  BY <1>s, <1>3 DEF LoopTop
<1>4. CASE EpollWait \/ EpollTimeout \/ EpollError
  BY <1>s, <1>4 DEF EpollWait, EpollTimeout, EpollError
<1>5. CASE ReturnFromSleep \/ RemoveWakeupFd \/ GoingToSleep
  BY <1>s, <1>5 DEF ReturnFromSleep, RemoveWakeupFd, GoingToSleep
<1>6. CASE UpdateTimeout \/ EventsDone
  BY <1>s, <1>6 DEF UpdateTimeout, EventsDone
<1>7. ASSUME NEW c \in Channels, NoEventHandler(c) PROVE CallInv'
  BY <1>s, <1>v, <1>7 DEF NoEventHandler
<1>8. ASSUME NEW h \in Handlers, RdmaCmEvent(h) PROVE CallInv'
  BY <1>s, <1>8 DEF RdmaCmEvent
<1>9. ASSUME NEW c \in {"ibverbs", "command"}, FdEvent(c) PROVE CallInv'
  BY <1>s, <1>9 DEF FdEvent
<1>10. CASE UNCHANGED vars
  BY <1>s, <1>10 DEF vars
<1> QED
  BY <1>a, <1>b, <1>c, <1>d, <1>f, <1>g, <1>h, <1>i, <1>1, <1>2, <1>3, <1>4, <1>5, <1>6, <1>7, <1>8, <1>9, <1>10
  DEF Next, PostNewRegAction, ThreadLoop, Stopped

(* The internal thread never calls back an object that it has deleted: no  *)
(* timer, rdma_cm, ibverbs or netlink callback reaches an object after     *)
(* unregister_timers_event_and_delete, for any number of objects, threads  *)
(* and posts.                                                              *)
THEOREM NoUseAfterDelete == Spec => []NoCallAfterDelete
<1>1. Init => CallInv
  <2> SUFFICES ASSUME Init PROVE CallInv
    OBVIOUS
  <2>1. \A ty \in ActionTypes, g \in Handlers : Pos[ty][g] = {}
    BY DEF Init, Pos
  <2>2. {"REGISTER_IBVERBS", "UNREGISTER_IBVERBS", "REGISTER_RDMA_CM", "UNREGISTER_RDMA_CM", "REGISTER_TIMER", "UNREGISTER_TIMER"} \subseteq ActionTypes
    BY DEF ActionTypes, RegisterTypes, UnregisterTypes, TimerTypes
  <2>3. ChanInv
    BY <2>1, <2>2 DEF Init, ChanInv, Settled, Channels
  <2>4. TimerInv
    BY <2>1, <2>2 DEF Init, TimerInv
  <2>5. DelInv
    BY <2>1 DEF Init, DelInv, ActionTypes
  <2>6. DrainInv /\ ArgInv /\ NoCallAfterDelete
    BY <2>1 DEF Init, DrainInv, ArgInv, NoCallAfterDelete
  <2> QED
    BY <2>3, <2>4, <2>5, <2>6 DEF CallInv
<1>2. IInv /\ CallInv /\ [Next]_vars => CallInv'
  BY CallInvStep DEF IInv
<1>3. CallInv => NoCallAfterDelete
  BY DEF CallInv
<1> QED
  BY <1>1, <1>2, <1>3, IInvInvariant, PTL DEF Spec
====
