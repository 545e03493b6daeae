--------------------------- MODULE NeighbourProofs ---------------------------
(* Proofs about Neighbour: for any number of destinations, any addresses and   *)
(* any bounds, over Ethernet and over InfiniBand.                              *)
EXTENDS Neighbour, TLAPS

\* Where a thread stands while it owns m_sm_lock; while an entry function runs.
Owning   == {"process", "enter", "notify", "retry", "publish"}
Entered  == {"enter", "notify", "retry", "publish"}
Raising  == Owning \cup {"raise"}

\* Where only the internal thread stands; only the destinations.
IntPlaces == {"timer", "verify", "rearm", "netlink"}
AppPlaces == {"join", "prepared", "checked", "send"}

(* TypeOK in parts: the threads, the locks, the states of the machine, the     *)
(* value, the peer and the destinations.                                       *)
ThreadTypes == /\ at \in [Threads -> Places] /\ ev \in [Threads -> Events \cup {"none"}]
               /\ outer \in [Threads -> BOOLEAN]
LockTypes   == /\ smLock \in Threads \cup {Free} /\ mLock \in Threads \cup {Free}
               /\ tblLock \in Threads \cup {Free}
StateTypes  == st \in States /\ tgt \in States
ValueTypes  == /\ mState \in BOOLEAN /\ l2 \in L2s \cup {NoL2}
               /\ errs \in 0 .. Retries /\ cma \in {"null", "unused", "addr", "route"}
               /\ verbs \in BOOLEAN
TimerTypes  == timers \in [BOOLEAN -> Nat] /\ cleaned \in BOOLEAN /\ alive \in BOOLEAN
CountTypes  == unsent \in Nat /\ unsent <= packets /\ packets \in 0 .. MaxPackets
PeerTypes   == /\ nud \in NudStates \cup {"NONE"} /\ nudL2 \in L2s
               /\ nlEvent \in NudStates \cup {"none"} /\ news \in 0 .. MaxNews
DstTypes    == /\ observers \subseteq Apps /\ valid \in [Apps -> BOOLEAN]
               /\ copy \in [Apps -> L2s \cup {NoL2}]

(* m_sm_lock belongs to the thread that processes an event, and each kind of   *)
(* thread keeps to its own places.                                             *)
OwnerInv ==
    /\ \A t \in Threads : at[t] \in Owning <=> smLock = t
    /\ \A a \in Apps : at[a] \notin IntPlaces
    /\ at[Int] \notin AppPlaces

(* While an entry function runs the row that led to it is still there to see:  *)
(* the old state is published, the event kept, and at most the one event that  *)
(* the function raised waits in the fifo.                                      *)
RowInv ==
    /\ \A t \in Threads : at[t] \in Entered => <<st, ev[t], tgt>> \in Table
    /\ \A t \in Threads : at[t] \in {"notify", "retry"} => tgt = "ERROR"
    /\ fifo = <<>> \/ \E e \in Events : fifo = <<e>>
    /\ fifo # <<>> => \E t \in Threads : at[t] = "publish"
    /\ fifo = <<"KICK_START">> => tgt = "ERROR"

(* Only destinations raise KICK_START; the internal thread meets it only as    *)
(* the retry of an entry in ERROR, and so never leaves NOT_ACTIVE.             *)
KickInv ==
    /\ at[Int] = "raise" => ev[Int] # "KICK_START"
    /\ at[Int] \in Owning /\ ev[Int] = "KICK_START" => st = "ERROR"

\* No timer is armed.
NoTimers == [late \in BOOLEAN |-> 0]

\* The creator is still in the constructor's kick.
Constructing == at[Creator] \in Raising /\ ~outer[Creator]

(* Nobody else can reach an entry that is being constructed: the creator holds *)
(* the table's lock, and the internal thread gets no further than m_sm_lock.   *)
Unreached ==
    /\ tblLock = Creator /\ observers = {} /\ ~cleaned /\ mLock # Int
    /\ \A a \in Apps : a # Creator => at[a] \in {"idle", "join"}
    /\ at[Int] \in {"idle", "timer", "raise"} /\ ~outer[Int]
    /\ at[Creator] = "raise" => /\ at[Int] = "idle" /\ mLock = Free /\ timers = NoTimers
                               /\ cma = "null" /\ ~verbs
ConstructInv == Constructing => Unreached

(* A destination raises events with m_lock held and in NOT_ACTIVE only, but    *)
(* for the constructor's kick.                                                 *)
HoldInv ==
    /\ \A a \in Apps : at[a] \in Raising /\ ~outer[a] => a = Creator
    /\ \A a \in Apps : at[a] \in Raising /\ outer[a] => mLock = a
    /\ \A a \in Apps : at[a] = "checked" => mLock = a
    /\ \A a \in Apps : at[a] = "raise" /\ outer[a] => st = "NOT_ACTIVE"

(* Destinations that use the entry observe it; it is removed from the table    *)
(* under the table's lock, when nobody does.                                   *)
ObserveInv ==
    /\ \A a \in Apps : at[a] \in {"prepared", "checked", "send"} => a \in observers
    /\ \A a \in Apps : at[a] \in Raising /\ outer[a] => a \in observers
    /\ \A t \in Threads : at[t] = "remove" => tblLock = t /\ observers = {}
    /\ at[Int] = "netlink" => tblLock = Int /\ ~cleaned
    /\ cleaned => observers = {}

(* It is deleted after that, with everything that would call it back.          *)
DeletedInv ==
    /\ timers[TRUE] = 0
    /\ ~alive => /\ cleaned /\ timers[FALSE] = 0 /\ cma = "null" /\ ~verbs
                 /\ at[Int] = "idle"

(* m_state follows the published state; the exceptions are an entry function   *)
(* that has run and is not published, and a value that could not be built,     *)
(* whose ERROR is the next event.                                              *)
ReadyAt(t) ==
    /\ at[t] = "process" => \/ mState <=> st = "READY"
                            \/ st = "READY" /\ ev[t] = "ERROR"
    /\ at[t] = "enter" /\ tgt # "ERROR" => ~mState
    /\ at[t] \in {"notify", "retry"} => ~mState
    /\ at[t] = "publish" => \/ mState <=> tgt = "READY"
                            \/ tgt = "READY" /\ fifo = <<"ERROR">>
ReadyInv ==
    /\ mState => l2 # NoL2 /\ unsent = 0
    /\ alive /\ smLock = Free => (mState <=> st = "READY")
    /\ alive => \A t \in Threads : ReadyAt(t)

(* Over InfiniBand the address is built on the way to PATH_RESOLVED, or ERROR  *)
(* is the next event: READY is entered with an address.                        *)
PathAt(t) ==
    /\ at[t] = "process" /\ st = "PATH_RESOLVED" => l2 # NoL2 \/ ev[t] = "ERROR"
    /\ at[t] = "enter" /\ tgt = "READY" => l2 # NoL2
    /\ at[t] = "publish" /\ tgt = "PATH_RESOLVED" => l2 # NoL2 \/ fifo = <<"ERROR">>
PathInv ==
    alive /\ Transport = "IB" =>
        /\ smLock = Free /\ st = "PATH_RESOLVED" => l2 # NoL2
        /\ \A t \in Threads : PathAt(t)

(* A destination that is done and believes its copy has the entry's address,   *)
(* or the owner of m_sm_lock is about to notify it.                            *)
CopyInv ==
    \A a \in observers :
        valid[a] /\ at[a] \in {"idle", "send"} =>
            (mState /\ copy[a] = l2) \/ \E t \in Threads : at[t] = "notify"

(* The inductive invariant: where the threads stand, what they hold and which  *)
(* row of the table they are in; the values; and what the entry promises.      *)
Core == /\ ThreadTypes /\ LockTypes /\ StateTypes /\ OwnerInv /\ RowInv /\ KickInv
        /\ ConstructInv /\ HoldInv /\ ObserveInv
Values == ValueTypes /\ TimerTypes /\ CountTypes /\ PeerTypes /\ DstTypes
IInv == Core /\ Values /\ DeletedInv /\ ReadyInv /\ PathInv /\ CopyInv

------------------------------------------------------------------------------
(* What the tables of the state machine say.                                   *)
LEMMA Rows ==
  ASSUME NEW s, NEW e, NEW n, <<s, e, n>> \in Table
  PROVE  /\ n \in States
         /\ s = "NOT_ACTIVE" => e = "KICK_START"
         /\ s = "READY" => n = "ERROR"
         /\ n = "NOT_ACTIVE" => s = "ERROR"
         /\ n = "READY" /\ Transport = "IB" => s = "PATH_RESOLVED" /\ e # "ERROR"
BY Zenon DEF Table, EthTable, IbTable, States

(* Both tables take ERROR in READY, and that of neigh_ib in PATH_RESOLVED      *)
(* too.                                                                        *)
LEMMA ErrorRows ==
  /\ \E row \in Table : row[1] = "READY" /\ row[2] = "ERROR"
  /\ Transport = "IB" => \E row \in Table : row[1] = "PATH_RESOLVED" /\ row[2] = "ERROR"
BY NeighbourAssumption, Zenon DEF Table, EthTable, IbTable

(* A row is a triple.                                                          *)
LEMMA RowIsTriple ==
  ASSUME NEW row \in Table
  PROVE  <<row[1], row[2], row[3]>> \in Table
BY DEF Table, EthTable, IbTable

(* A fifo of one event.                                                        *)
LEMMA OneEvent ==
  ASSUME NEW e
  PROVE  /\ Append(<<>>, e) = <<e>> /\ <<e>> # <<>>
         /\ Head(<<e>>) = e /\ Tail(<<e>>) = <<>>
OBVIOUS

------------------------------------------------------------------------------
\* NextEvent with nothing in the fifo.
GiveUp(t) ==
    /\ fifo = <<>> /\ fifo' = <<>> /\ smLock' = Free
    /\ ev' = [ev EXCEPT ![t] = "none"] /\ outer' = [outer EXCEPT ![t] = FALSE]
    /\ IF t = Int THEN Return(t)
                  ELSE /\ Goto(t, IF outer[t] THEN "checked" ELSE "join")
                       /\ UNCHANGED <<mLock, tblLock>>

\* Process and Publish by what comes next.
ProcessRow(t) ==
    /\ at[t] = "process" /\ <<st, ev[t], tgt'>> \in Table /\ Goto(t, "enter")
    /\ UNCHANGED <<st, lockVars, fifo, ev, outer, valVars, timers, peerVars, lifeVars, dstVars>>
ProcessLast(t) ==
    /\ at[t] = "process" /\ ~\E row \in Table : row[1] = st /\ row[2] = ev[t]
    /\ GiveUp(t)
    /\ UNCHANGED <<st, tgt, valVars, timers, peerVars, lifeVars, dstVars>>
PublishNext(t) ==
    /\ at[t] = "publish" /\ st' = tgt
    /\ \E e \in Events : fifo = <<e>> /\ ev' = [ev EXCEPT ![t] = e]
    /\ fifo' = <<>> /\ Goto(t, "process")
    /\ UNCHANGED <<tgt, lockVars, outer, valVars, timers, peerVars, lifeVars, dstVars>>
PublishLast(t) ==
    /\ at[t] = "publish" /\ st' = tgt
    /\ GiveUp(t)
    /\ UNCHANGED <<tgt, valVars, timers, peerVars, lifeVars, dstVars>>

(* An event is processed with an empty fifo, and an entry function starts with *)
(* one: what it pushes is all there is.                                        *)
LEMMA FifoIsEmpty ==
  ASSUME RowInv, OwnerInv, NEW t \in Threads, at[t] \in Owning, at[t] # "publish"
  PROVE  fifo = <<>>
BY Zenon DEF RowInv, OwnerInv, Owning

(* process_event finds a row, or gives m_sm_lock up.                           *)
LEMMA ProcessCases ==
  ASSUME RowInv, OwnerInv, NEW t \in Threads, Process(t)
  PROVE  ProcessRow(t) \/ ProcessLast(t)
<1>1. at[t] = "process"
  BY Zenon DEF Process
<1>2. fifo = <<>>
  BY <1>1, FifoIsEmpty, Zenon DEF Owning
<1>3. ASSUME NEW row \in Table, row[1] = st, row[2] = ev[t], tgt' = row[3]
      PROVE  <<st, ev[t], tgt'>> \in Table
  BY <1>3, RowIsTriple, Zenon
<1>4. CASE \E row \in Table : row[1] = st /\ row[2] = ev[t]
  BY <1>1, <1>3, <1>4, Zenon DEF Process, ProcessRow
<1>5. CASE ~\E row \in Table : row[1] = st /\ row[2] = ev[t]
  BY <1>1, <1>2, <1>5, Zenon DEF Process, ProcessLast, NextEvent, GiveUp
<1> QED
  BY <1>4, <1>5, Zenon

(* A published state is followed by the event in the fifo, or m_sm_lock is     *)
(* given up.                                                                   *)
LEMMA PublishCases ==
  ASSUME RowInv, NEW t \in Threads, Publish(t)
  PROVE  PublishNext(t) \/ PublishLast(t)
<1>1. CASE fifo = <<>>
  BY <1>1, Zenon DEF Publish, PublishLast, NextEvent, GiveUp
<1>2. CASE fifo # <<>>
  <2>1. PICK e \in Events : fifo = <<e>>
    BY <1>2, Zenon DEF RowInv
  <2>2. Head(fifo) = e /\ Tail(fifo) = <<>>
    BY <2>1, OneEvent, Zenon
  <2> QED
    BY <1>2, <2>1, <2>2, Zenon DEF Publish, PublishNext, NextEvent
<1> QED
  BY <1>1, <1>2, Zenon

\* An entry function other than that of ERROR has run: at most one event is
\* in the fifo, nothing is published, and nobody but its thread has moved.
EntryDone(t) ==
    /\ at[t] = "enter" /\ tgt # "ERROR" /\ Goto(t, "publish")
    /\ UNCHANGED <<st, tgt, ev, outer, lockVars, peerVars, lifeVars, dstVars>>
    /\ fifo' = <<>> \/ fifo' = <<"ARP_RESOLVED">> \/ fifo' = <<"ERROR">>

(* The entry functions but that of ERROR run in one step.                      *)
LEMMA EntryCases ==
  ASSUME RowInv, OwnerInv, NEW t \in Threads, Enter(t)
  PROVE  EntryDone(t) \/ EnterError(t)
<1>1. SUFFICES ASSUME ~EnterError(t) PROVE EntryDone(t)
  OBVIOUS
<1>2. /\ at[t] = "enter" /\ tgt # "ERROR" /\ Goto(t, "publish")
      /\ UNCHANGED <<st, tgt, ev, outer, lockVars, peerVars, lifeVars, dstVars>>
      /\ UNCHANGED fifo \/ Push("ARP_RESOLVED") \/ Push("ERROR")
  BY <1>1, ZenonT(30)
  DEF Enter, EnterInit, EnterInitResolution, EnterAddrResolved, EnterArpResolved, EnterPathResolved,
      EnterReady, EnterNotActive, Entering, lockVars, dstVars
<1>3. fifo = <<>>
  BY <1>2, FifoIsEmpty, Zenon DEF Owning
<1>4. Append(fifo, "ARP_RESOLVED") = <<"ARP_RESOLVED">> /\ Append(fifo, "ERROR") = <<"ERROR">>
  BY <1>3, OneEvent, Zenon
<1> QED
  BY <1>2, <1>3, <1>4, Zenon DEF Push, EntryDone

(* priv_enter_error ends by raising KICK_START or ERROR.                       *)
LEMMA RetryEnds ==
  ASSUME RowInv, OwnerInv, NEW t \in Threads, Retry(t)
  PROVE  fifo' = <<"KICK_START">> \/ fifo' = <<"ERROR">>
<1>1. at[t] = "retry" /\ (Push("KICK_START") \/ Push("ERROR"))
  BY Zenon DEF Retry
<1>2. fifo = <<>>
  BY <1>1, FifoIsEmpty, Zenon DEF Owning
<1>3. Append(fifo, "KICK_START") = <<"KICK_START">> /\ Append(fifo, "ERROR") = <<"ERROR">>
  BY <1>2, OneEvent, Zenon
<1> QED
  BY <1>1, <1>3, Zenon DEF Push

(* Names of events are different sequences of one event.                       *)
LEMMA EventNames ==
  /\ <<"ARP_RESOLVED">> # <<"KICK_START">> /\ <<"ERROR">> # <<"KICK_START">>
  /\ <<"ARP_RESOLVED">> # <<>> /\ <<"ERROR">> # <<>> /\ <<"KICK_START">> # <<>>
OBVIOUS

\* Where a thread may stand outside of the state machine.
Outside(x) == {"idle", "raise", "remove"} \cup IF x = Int THEN IntPlaces ELSE AppPlaces

\* A thread moves outside of the state machine; the internal one raises no kick.
Elsewhere(x) ==
    /\ at[x] \notin Raising
    /\ \E p \in Outside(x) : at' = [at EXCEPT ![x] = p]
    /\ \E e \in Events \cup {"none"} : ev' = [ev EXCEPT ![x] = e]
    /\ \E hold \in BOOLEAN : outer' = [outer EXCEPT ![x] = hold]
    /\ x = Int /\ at'[Int] = "raise" => ev'[Int] # "KICK_START"
    /\ UNCHANGED <<st, tgt, fifo, smLock>>

(* What is no step of the state machine moves its thread elsewhere.            *)
LEMMA ElsewhereCases ==
  ASSUME ThreadTypes
  PROVE  /\ \A t \in Threads : CleanObj(t) => Elsewhere(t)
         /\ InternalThread \/ VerbsEvent \/ NetlinkEvent \/ CollectGarbage => Elsewhere(Int)
         /\ \A a \in Apps : App(a) => Elsewhere(a)
<1> USE NeighbourAssumption DEF lockVars, valVars, peerVars, lifeVars, dstVars, Goto, Threads
<1>1. ASSUME NEW x \in Threads, NEW p \in Outside(x), p # "raise", at[x] \notin Raising,
             at' = [at EXCEPT ![x] = p], UNCHANGED <<ev, outer, st, tgt, fifo, smLock>>
      PROVE  Elsewhere(x)
  <2>1. ev' = [ev EXCEPT ![x] = ev[x]] /\ ev[x] \in Events \cup {"none"}
    BY <1>1, Zenon DEF ThreadTypes
  <2>2. outer' = [outer EXCEPT ![x] = outer[x]] /\ outer[x] \in BOOLEAN
    BY <1>1, Zenon DEF ThreadTypes
  <2>3. at'[x] # "raise"
    BY <1>1, Zenon DEF ThreadTypes
  <2> QED
    BY <1>1, <2>1, <2>2, <2>3, ZenonT(30) DEF Elsewhere
<1>2. ASSUME NEW x \in Threads, at[x] \notin Raising, NEW e \in Events, NEW hold \in BOOLEAN,
             x = Int => e # "KICK_START", Raise(x, e, hold), UNCHANGED <<st, tgt, fifo, smLock>>
      PROVE  Elsewhere(x)
  <2>1. "raise" \in Outside(x)
    BY Zenon DEF Outside
  <2>2. ev'[x] = e
    BY <1>2, Zenon DEF Raise, ThreadTypes
  <2> QED
    BY <1>2, <2>1, <2>2, ZenonT(30) DEF Elsewhere, Raise
<1>3. /\ {"idle", "timer", "verify", "rearm", "netlink", "remove"} \subseteq Outside(Int)
      /\ \A a \in Apps : {"idle", "join", "prepared", "send", "remove"} \subseteq Outside(a)
      /\ \A t \in Threads : "idle" \in Outside(t)
  BY Zenon DEF Outside, IntPlaces, AppPlaces
<1>4. {"idle", "timer", "verify", "rearm", "netlink", "join", "prepared", "send", "remove", "checked"}
        \cap Raising = {}
  BY Zenon DEF Raising, Owning
<1>5. ASSUME NEW x \in Threads, at[x] = "idle", UNCHANGED <<at, ev, outer, st, tgt, fifo, smLock>>
      PROVE  Elsewhere(x)
  <2>1. at' = [at EXCEPT ![x] = "idle"]
    BY <1>5, Zenon DEF ThreadTypes
  <2> QED
    BY <1>1, <1>3, <1>4, <1>5, <2>1, ZenonT(30)
<1>6. {"ARP_RESOLVED", "ADDR_RESOLVED", "PATH_RESOLVED", "ERROR", "START_RESOLUTION", "TIMEOUT_EXPIRED",
       "KICK_START"} = Events
  BY Zenon DEF Events
<1>7. ASSUME NEW t \in Threads, CleanObj(t) PROVE Elsewhere(t)
  BY <1>1, <1>3, <1>4, <1>7, ZenonT(30) DEF CleanObj, Return
<1>8. TimerExpired \/ Rearm \/ CollectGarbage => Elsewhere(Int)
  BY <1>1, <1>3, <1>4, Zenon DEF TimerExpired, Rearm, CollectGarbage, Return
<1>9. Delete => Elsewhere(Int)
  BY <1>5, Zenon DEF Delete
<1>10. NetlinkEvent => Elsewhere(Int)
  BY <1>1, <1>3, <1>4, <1>5, Zenon DEF NetlinkEvent
<1>11. HandleTimer => Elsewhere(Int)
  <2>1. TimerEvent # "none" => TimerEvent \in Events \ {"KICK_START"}
    BY <1>6, Zenon DEF TimerEvent
  <2> QED
    BY <1>1, <1>2, <1>3, <1>4, <2>1, ZenonT(30) DEF HandleTimer
<1>12. VerifyPeer => Elsewhere(Int)
  BY <1>1, <1>2, <1>3, <1>4, <1>6, ZenonT(30) DEF VerifyPeer
<1>13. RdmaCmEvent \/ VerbsEvent => Elsewhere(Int)
  BY <1>2, <1>4, <1>6, ZenonT(30) DEF RdmaCmEvent, VerbsEvent
<1>14. HandleNeighEvent => Elsewhere(Int)
  BY <1>1, <1>2, <1>3, <1>4, <1>6, ZenonT(30) DEF HandleNeighEvent, Return
<1>15. ASSUME NEW a \in Apps, PrepareToSend(a) \/ RegisterObserver(a) \/ SlowSend(a) PROVE Elsewhere(a)
  BY <1>1, <1>3, <1>4, <1>15, Zenon DEF PrepareToSend, RegisterObserver, SlowSend
<1>16. ASSUME NEW a \in Apps, GetPeerInfo(a) \/ GetPeerInfoAfterKick(a) PROVE Elsewhere(a)
  BY <1>1, <1>2, <1>3, <1>4, <1>6, <1>16, ZenonT(30) DEF GetPeerInfo, GetPeerInfoAfterKick, Answer
<1>17. ASSUME NEW a \in Apps, UnregisterObserver(a) PROVE Elsewhere(a)
  BY <1>1, <1>3, <1>4, <1>5, <1>17, Zenon DEF UnregisterObserver
<1> QED
  BY <1>7, <1>8, <1>9, <1>10, <1>11, <1>12, <1>13, <1>14, <1>15, <1>16, <1>17, Zenon
  DEF InternalThread, App

------------------------------------------------------------------------------
\* What a thread outside of the state machine does to the locks and to the set
\* of observers: it takes what is free and gives up what it holds.
Move(x) ==
    /\ mLock' \in {mLock, x, Free} /\ (mLock \in {Free, x} \/ UNCHANGED mLock)
    /\ tblLock' \in {tblLock, x, Free} /\ (tblLock \in {Free, x} \/ UNCHANGED tblLock)
    /\ observers \ {x} \subseteq observers' /\ observers' \subseteq observers \cup {x}
    /\ observers' \subseteq observers \/ (tblLock \in {Free, x} /\ ~cleaned')
    /\ cleaned' => cleaned \/ at[x] = "remove"
    /\ at'[x] = "remove" => tblLock' = x /\ observers' = {}
    /\ at'[x] = "netlink" => tblLock' = x /\ ~cleaned'

\* A destination registers first, and raises an event only with m_lock held and
\* in NOT_ACTIVE.  It gets no further than the table's lock while that is taken.
AppMove(a) ==
    /\ UNCHANGED <<timers, cma, verbs>> /\ at'[a] # "checked"
    /\ at'[a] = "raise" => outer'[a] /\ mLock' = a /\ st = "NOT_ACTIVE"
    /\ at'[a] \in {"prepared", "send", "raise"} =>
          a \in observers' \/ (at[a] \in {"prepared", "checked", "send"} /\ UNCHANGED observers)
    /\ at[a] \in {"idle", "join"} /\ tblLock \notin {Free, a} /\ a \notin observers =>
          at'[a] \in {"idle", "join"} /\ UNCHANGED <<observers, cleaned, mLock, tblLock>>

\* The internal thread meets an entry that is being constructed only through
\* what its state machine has armed.
IntMove ==
    \/ at[Int] \in {"verify", "rearm", "netlink", "remove"} \/ tblLock = Free \/ cleaned
    \/ at[Int] = "timer" /\ smLock = Free
    \/ /\ at'[Int] \in {"timer", "raise"} /\ (outer'[Int] => outer[Int])
       /\ timers # NoTimers \/ cma # "null" \/ verbs
       /\ UNCHANGED <<mLock, tblLock, observers, cleaned>>

(* The actions outside of the state machine are moves.                         *)
LEMMA MoveCases ==
  ASSUME ThreadTypes, HoldInv
  PROVE  /\ \A t \in Threads : CleanObj(t) => Move(t)
         /\ InternalThread \/ VerbsEvent \/ NetlinkEvent \/ CollectGarbage => Move(Int)
         /\ \A a \in Apps : App(a) => Move(a)
<1> USE NeighbourAssumption DEF lockVars, lifeVars, dstVars, Goto, Threads, ThreadTypes, Move
<1>1. ASSUME NEW t \in Threads, CleanObj(t) PROVE Move(t)
  BY <1>1, Zenon DEF CleanObj, CanLock, Return
<1>2. RdmaCmEvent \/ VerbsEvent => Move(Int)
  BY DEF RdmaCmEvent, VerbsEvent, Raise
<1>11. TimerExpired \/ Delete => Move(Int)
  <2>1. TimerExpired \/ Delete => at'[Int] \in {"idle", "timer"} /\ UNCHANGED <<lockVars, observers, cleaned>>
    BY Zenon DEF TimerExpired, Delete
  <2> QED
    BY <2>1, Zenon
<1>3. HandleTimer => Move(Int)
  BY DEF HandleTimer, Raise
<1>4. VerifyPeer => Move(Int)
  BY DEF VerifyPeer, CanLock, Raise
<1>5. Rearm => Move(Int)
  BY DEF Rearm, Return
<1>6. HandleNeighEvent => Move(Int)
  BY DEF HandleNeighEvent, CanLock, Raise, Return
<1>7. NetlinkEvent \/ CollectGarbage => Move(Int)
  BY DEF NetlinkEvent, CollectGarbage
<1>8. ASSUME NEW a \in Apps, PrepareToSend(a) \/ SlowSend(a) PROVE Move(a)
  BY <1>8 DEF PrepareToSend, SlowSend
<1>12. ASSUME NEW a \in Apps, GetPeerInfoAfterKick(a) PROVE Move(a)
  BY <1>12, Zenon DEF GetPeerInfoAfterKick, Answer, HoldInv
<1>9. ASSUME NEW a \in Apps, RegisterObserver(a) \/ UnregisterObserver(a) PROVE Move(a)
  BY <1>9 DEF RegisterObserver, UnregisterObserver, CanLock
<1>10. ASSUME NEW a \in Apps, GetPeerInfo(a) PROVE Move(a)
  BY <1>10, Zenon DEF GetPeerInfo, CanLock, Raise, Answer
<1> QED
  BY <1>1, <1>2, <1>3, <1>4, <1>5, <1>6, <1>7, <1>8, <1>9, <1>10, <1>11, <1>12, Zenon DEF InternalThread, App

(* Those of a destination.                                                     *)
LEMMA AppMoveCases ==
  ASSUME ThreadTypes, NEW a \in Apps, App(a) \/ CleanObj(a)
  PROVE  AppMove(a)
<1> USE NeighbourAssumption DEF lockVars, valVars, lifeVars, dstVars, Goto, Threads, ThreadTypes, AppMove
<1>1. CASE PrepareToSend(a) \/ SlowSend(a) \/ CleanObj(a)
  BY <1>1, Zenon DEF PrepareToSend, SlowSend, CleanObj, Return
<1>2. CASE RegisterObserver(a) \/ UnregisterObserver(a)
  BY <1>2, Zenon DEF RegisterObserver, UnregisterObserver
<1>3. CASE GetPeerInfo(a) \/ GetPeerInfoAfterKick(a)
  BY <1>3, Zenon DEF GetPeerInfo, GetPeerInfoAfterKick, Raise, Answer
<1> QED
  BY <1>1, <1>2, <1>3, Zenon DEF App

(* Those of the internal thread.                                               *)
LEMMA IntMoveCases ==
  ASSUME ThreadTypes, InternalThread \/ VerbsEvent \/ NetlinkEvent \/ CollectGarbage \/ CleanObj(Int)
  PROVE  IntMove
<1> USE DEF lockVars, valVars, lifeVars, dstVars, Goto, Threads, IntMove
<1>1. VerifyPeer \/ Rearm \/ HandleNeighEvent \/ NetlinkEvent \/ CollectGarbage \/ CleanObj(Int) \/ HandleTimer
        \/ Delete => IntMove
  BY Zenon DEF VerifyPeer, Rearm, HandleNeighEvent, NetlinkEvent, CollectGarbage, CleanObj, HandleTimer, Delete
<1>2. TimerExpired => IntMove
  <2>1. TimerExpired => timers # NoTimers
    BY DEF TimerExpired, NoTimers
  <2> QED
    BY <2>1, Zenon DEF TimerExpired, ThreadTypes
<1>3. RdmaCmEvent \/ VerbsEvent => IntMove
  BY Zenon DEF RdmaCmEvent, VerbsEvent, Raise, ThreadTypes
<1> QED
  BY <1>1, <1>2, <1>3, Zenon DEF InternalThread

(* So the locks keep their order and the set of observers its meaning.         *)
LEMMA MoveStep ==
  ASSUME ThreadTypes, LockTypes, OwnerInv, ConstructInv, HoldInv, ObserveInv,
         NEW x \in Threads, Elsewhere(x), Move(x), x \in Apps => AppMove(x), x = Int => IntMove
  PROVE  LockTypes' /\ ConstructInv' /\ HoldInv' /\ ObserveInv'
<1> USE NeighbourAssumption DEF Threads
<1>1. /\ at[x] \notin Raising /\ UNCHANGED <<st, smLock>>
      /\ \A y \in Threads \ {x} : at'[y] = at[y] /\ outer'[y] = outer[y]
  BY Zenon DEF Elsewhere, ThreadTypes
<1>2. LockTypes'
  BY <1>1, Zenon DEF Move, LockTypes
<1>3. at'[x] \in {"idle", "raise", "remove"} \cup IF x = Int THEN IntPlaces ELSE AppPlaces
  BY ZenonT(30) DEF Elsewhere, Outside, ThreadTypes
<1>4. ObserveInv'
  <2>1. \A a \in Apps : /\ at'[a] \in {"prepared", "checked", "send"} => a \in observers'
                        /\ at'[a] \in Raising /\ outer'[a] => a \in observers'
    BY <1>1, <1>3, ZenonT(30) DEF Move, AppMove, ObserveInv, Raising, Owning, AppPlaces
  <2>2. \A t \in Threads : at'[t] = "remove" => tblLock' = t /\ observers' = {}
    BY <1>1, Zenon DEF Move, ObserveInv
  <2>3. at'[Int] = "netlink" => tblLock' = Int /\ ~cleaned'
    BY <1>1 DEF Move, ObserveInv
  <2>4. cleaned' => observers' = {}
    BY Zenon DEF Move, ObserveInv
  <2> QED
    BY <2>1, <2>2, <2>3, <2>4, Zenon DEF ObserveInv
<1>5. HoldInv'
  BY <1>1, <1>3 DEF Move, AppMove, HoldInv, LockTypes, Raising, Owning, IntPlaces, AppPlaces
<1>6. ASSUME x \in Apps, Constructing' PROVE Unreached'
  <2>1. x # Creator /\ Constructing /\ UNCHANGED <<timers, cma, verbs>>
    BY <1>1, <1>3, <1>6, Zenon DEF AppMove, Constructing, Raising, Owning, AppPlaces
  <2>2. at'[x] \in {"idle", "join"} /\ UNCHANGED <<observers, cleaned, mLock, tblLock>>
    BY <1>6, <2>1, Zenon DEF AppMove, ConstructInv, Unreached
  <2> QED
    BY <1>1, <1>6, <2>1, <2>2, Zenon DEF ConstructInv, Unreached
<1>7. ASSUME x = Int, Constructing' PROVE Unreached'
  <2>1. Constructing /\ Unreached /\ at'[Creator] = at[Creator]
    BY <1>1, <1>7, Zenon DEF Constructing, ConstructInv
  <2>2. at[Creator] = "raise" \/ smLock = Creator
    BY <2>1, Zenon DEF Constructing, OwnerInv, Raising
  <2>3. /\ at'[Int] \in {"timer", "raise"} /\ ~outer'[Int] /\ at[Creator] # "raise"
        /\ UNCHANGED <<mLock, tblLock, observers, cleaned>>
    BY <1>1, <1>7, <2>1, <2>2, Zenon DEF IntMove, Unreached, Raising
  <2> QED
    BY <1>1, <1>7, <2>1, <2>3, Zenon DEF Unreached
<1> QED
  BY <1>2, <1>4, <1>5, <1>6, <1>7, Zenon DEF ConstructInv, Unreached

------------------------------------------------------------------------------
\* A thread takes m_sm_lock, or goes on with it: it may take and give back
\* m_lock, but not one that its caller holds or that is taken.
Within(t) ==
    /\ at[t] \in Owning \/ (at[t] = "raise" /\ smLock = Free)
    /\ smLock' = t \/ (at[t] \in Owning /\ UNCHANGED smLock)
    /\ \E p \in Owning : at' = [at EXCEPT ![t] = p]
    /\ UNCHANGED ev \/ \E e \in Events : ev' = [ev EXCEPT ![t] = e]
    /\ mLock' \in {mLock, t, Free} /\ (mLock \in {Free, t} \/ UNCHANGED mLock)
    /\ outer[t] /\ mLock = t => UNCHANGED mLock
    /\ UNCHANGED <<outer, tblLock, observers, packets, peerVars, lifeVars>>

(* The steps of the state machine that keep m_sm_lock.                         *)
LEMMA WithinCases ==
  ASSUME NEW t \in Threads, EventHandler(t) \/ ProcessRow(t) \/ EntryDone(t) \/ EnterError(t) \/ Notify(t)
                            \/ Retry(t) \/ PublishNext(t)
  PROVE  Within(t)
<1> USE DEF lockVars, dstVars, Goto, Within
<1>1. {"process", "enter", "notify", "retry", "publish"} = Owning
  BY Zenon DEF Owning
<1>2. CASE EventHandler(t) \/ ProcessRow(t) \/ PublishNext(t)
  BY <1>1, <1>2, ZenonT(30) DEF EventHandler, ProcessRow, PublishNext
<1>3. CASE EntryDone(t) \/ Notify(t)
  BY <1>1, <1>3, ZenonT(30) DEF EntryDone, Notify
<1>4. CASE EnterError(t)
  BY <1>1, <1>4, ZenonT(30) DEF EnterError, Entering, CanLock
<1>5. CASE Retry(t)
  BY <1>1, <1>5, ZenonT(30) DEF Retry, CanLock
<1> QED
  BY <1>2, <1>3, <1>4, <1>5, Zenon

(* They keep to the places, locks and observers.                               *)
LEMMA WithinStep ==
  ASSUME ThreadTypes, LockTypes, OwnerInv, ConstructInv, HoldInv, ObserveInv,
         NEW t \in Threads, Within(t)
  PROVE  ThreadTypes' /\ LockTypes' /\ OwnerInv' /\ ConstructInv' /\ ObserveInv'
<1> USE NeighbourAssumption DEF Threads
<1>1. /\ at[t] \in Raising /\ at'[t] \in Owning /\ smLock' = t
      /\ at[t] = "raise" => smLock = Free
      /\ \A y \in Threads \ {t} : at'[y] = at[y]
      /\ UNCHANGED <<outer, tblLock, observers, cleaned>>
  BY Zenon DEF Within, ThreadTypes, OwnerInv, Raising, Owning, lifeVars
<1>2. ThreadTypes'
  BY DEF Within, ThreadTypes, Owning, Places
<1>3. LockTypes'
  BY <1>1, Zenon DEF Within, LockTypes
<1>4. OwnerInv'
  BY <1>1, Zenon DEF OwnerInv, Owning, Raising, IntPlaces, AppPlaces, LockTypes
<1>5. ObserveInv'
  BY <1>1, Zenon DEF ObserveInv, Raising, Owning
<1>6. ASSUME Constructing' PROVE Unreached'
  <2>1. Constructing
    BY <1>1, <1>6, Zenon DEF Constructing
  <2>2. t \in {Creator, Int}
    BY <1>1, <2>1, Zenon DEF ConstructInv, Unreached, Raising, Owning
  <2>3. t = Creator
    BY <1>1, <2>1, <2>2, Zenon DEF ConstructInv, Unreached, Constructing, OwnerInv, Raising, Owning
  <2> QED
    BY <1>1, <2>1, <2>3, Zenon DEF ConstructInv, Unreached, Within, Owning
<1> QED
  BY <1>2, <1>3, <1>4, <1>5, <1>6, Zenon DEF ConstructInv

(* So does the step that gives m_sm_lock up.                                   *)
LEMMA GiveUpStep ==
  ASSUME ThreadTypes, LockTypes, OwnerInv, ConstructInv, HoldInv, ObserveInv,
         NEW t \in Threads, at[t] \in Owning, GiveUp(t), UNCHANGED <<observers, cleaned>>
  PROVE  ThreadTypes' /\ LockTypes' /\ OwnerInv' /\ ConstructInv' /\ ObserveInv'
<1> USE NeighbourAssumption DEF Threads
<1>1. /\ at'[t] = IF t = Int THEN "idle" ELSE IF outer[t] THEN "checked" ELSE "join"
      /\ smLock' = Free /\ smLock = t
      /\ \A y \in Threads \ {t} : at'[y] = at[y] /\ outer'[y] = outer[y]
      /\ mLock' = IF t = Int /\ mLock = t THEN Free ELSE mLock
      /\ tblLock' = IF t = Int /\ tblLock = t THEN Free ELSE tblLock
  BY Zenon DEF GiveUp, Return, Goto, ThreadTypes, OwnerInv
<1>2. ThreadTypes'
  BY Zenon DEF GiveUp, Return, Goto, ThreadTypes, Places
<1>3. LockTypes'
  BY <1>1, Zenon DEF LockTypes
<1>4. OwnerInv'
  BY <1>1, Zenon DEF OwnerInv, Owning, IntPlaces, AppPlaces, LockTypes
<1>5. ObserveInv'
  BY <1>1, Zenon DEF ObserveInv, Raising, Owning
<1>6. ~Constructing'
  BY <1>1, Zenon DEF Constructing, ConstructInv, Unreached, Raising, Owning
<1> QED
  BY <1>2, <1>3, <1>4, <1>5, <1>6, Zenon DEF ConstructInv

(* A destination that holds m_lock and waits for m_sm_lock waits for no entry  *)
(* function: in NOT_ACTIVE only KICK_START starts one, which the internal      *)
(* thread never raises and another destination raises with m_lock held.        *)
LEMMA NoEntryWhileRaising ==
  ASSUME ThreadTypes, OwnerInv, RowInv, KickInv, ConstructInv, HoldInv,
         NEW t \in Threads, at[t] \in Entered,
         NEW a \in Apps, a # t, at[a] = "raise", outer[a]
  PROVE  FALSE
<1>1. st = "NOT_ACTIVE" /\ mLock = a
  BY Zenon DEF HoldInv, Raising
<1>2. ev[t] = "KICK_START"
  <2>1. <<st, ev[t], tgt>> \in Table
    BY Zenon DEF RowInv
  <2> QED
    BY <1>1, <2>1, Rows, Zenon
<1>3. CASE t = Int
  BY <1>1, <1>2, <1>3, Zenon DEF KickInv, Entered, Owning
<1>4. CASE t \in Apps
  <2>1. t \in Apps /\ at[t] \in Raising
    BY <1>4, Zenon DEF Entered, Owning, Raising
  <2>2. CASE outer[t]
    BY <1>1, <2>1, <2>2, Zenon DEF HoldInv
  <2>3. CASE ~outer[t]
    <3>1. t = Creator
      BY <2>1, <2>3, Zenon DEF HoldInv
    <3>2. Constructing
      BY <2>1, <2>3, <3>1, Zenon DEF Constructing
    <3>3. at[a] \in {"idle", "join"}
      BY <3>1, <3>2, Zenon DEF ConstructInv, Unreached
    <3> QED
      BY <3>3, Zenon
  <2> QED
    BY <2>2, <2>3, Zenon
<1> QED
  BY <1>3, <1>4, Zenon DEF Threads

(* Events are processed for live entries only.                                 *)
LEMMA OwnerIsAlive ==
  ASSUME ConstructInv, HoldInv, ObserveInv, DeletedInv, NEW t \in Threads, at[t] \in Raising
  PROVE  alive
<1>1. SUFFICES ASSUME ~alive PROVE FALSE
  OBVIOUS
<1>2. cleaned /\ at[Int] = "idle" /\ observers = {}
  BY <1>1, Zenon DEF DeletedInv, ObserveInv
<1>3. t \in Apps
  BY <1>2, Zenon DEF Threads, Raising, Owning
<1>4. ~outer[t]
  BY <1>2, <1>3, Zenon DEF ObserveInv
<1>5. t = Creator
  BY <1>3, <1>4, Zenon DEF HoldInv
<1>6. Constructing
  BY <1>4, <1>5, Zenon DEF Constructing
<1> QED
  BY <1>2, <1>6, Zenon DEF ConstructInv, Unreached

------------------------------------------------------------------------------
\* One step of the state machine, with Process, Enter and Publish by their cases.
Machine(t) ==
    \/ EventHandler(t) \/ ProcessRow(t) \/ ProcessLast(t) \/ EntryDone(t) \/ EnterError(t)
    \/ Notify(t) \/ Retry(t) \/ PublishNext(t) \/ PublishLast(t)

(* These are all the steps of the state machine.                               *)
LEMMA MachineCases ==
  ASSUME RowInv, OwnerInv, NEW t \in Threads, StateMachine(t)
  PROVE  Machine(t)
BY ProcessCases, PublishCases, EntryCases, Zenon DEF StateMachine, Machine

(* A thread outside of the state machine leaves the row alone.                 *)
LEMMA ElsewhereStep ==
  ASSUME ThreadTypes, StateTypes, OwnerInv, RowInv, KickInv, NEW x \in Threads, Elsewhere(x)
  PROVE  ThreadTypes' /\ StateTypes' /\ OwnerInv' /\ RowInv' /\ KickInv'
<1> USE DEF Elsewhere
<1>1. /\ at'[x] \in Outside(x) /\ at[x] \notin Raising /\ \A y \in Threads \ {x} : at'[y] = at[y] /\ ev'[y] = ev[y]
      /\ UNCHANGED <<st, tgt, fifo, smLock>>
  BY Zenon DEF ThreadTypes
<1>2. ThreadTypes' /\ StateTypes'
  BY ZenonT(30) DEF ThreadTypes, StateTypes, Outside, Places, IntPlaces, AppPlaces
<1>3. OwnerInv'
  BY <1>1, NeighbourAssumption, Zenon DEF OwnerInv, Outside, Raising, Owning, IntPlaces, AppPlaces, Threads
<1>4. RowInv'
  BY <1>1, Zenon DEF RowInv, Outside, Raising, Owning, Entered, IntPlaces, AppPlaces
<1>5. KickInv'
  BY <1>1, NeighbourAssumption, Zenon DEF KickInv, Outside, Raising, Owning, IntPlaces, AppPlaces, Threads
<1> QED
  BY <1>2, <1>3, <1>4, <1>5, Zenon

(* The locks a destination raises events under stay held; a state is published *)
(* only when none waits to raise one in NOT_ACTIVE.                            *)
LEMMA HoldStep ==
  ASSUME ThreadTypes, LockTypes, OwnerInv, ConstructInv, HoldInv, NEW t \in Threads,
         Within(t) \/ (GiveUp(t) /\ at[t] \in Owning),
         UNCHANGED st \/ \A a \in Apps : a # t /\ at[a] = "raise" => ~outer[a]
  PROVE  HoldInv'
<1> USE NeighbourAssumption DEF Threads
<1>1. CASE Within(t)
  <2>1. /\ at[t] \in Raising /\ at'[t] \in Owning /\ UNCHANGED outer
        /\ \A y \in Threads \ {t} : at'[y] = at[y]
        /\ mLock' \in {mLock, t, Free} /\ (mLock \in {Free, t} \/ UNCHANGED mLock)
        /\ (outer[t] /\ mLock = t => UNCHANGED mLock)
    BY <1>1, Zenon DEF Within, ThreadTypes, Raising
  <2> QED
    BY <2>1, ZenonT(30) DEF HoldInv, Raising, Owning
<1>2. CASE GiveUp(t) /\ at[t] \in Owning
  <2>1. /\ at'[t] = IF t = Int THEN "idle" ELSE IF outer[t] THEN "checked" ELSE "join"
        /\ \A y \in Threads \ {t} : at'[y] = at[y] /\ outer'[y] = outer[y]
        /\ mLock' = IF t = Int /\ mLock = t THEN Free ELSE mLock
    BY <1>2, Zenon DEF GiveUp, Return, Goto, ThreadTypes
  <2> QED
    BY <1>2, <2>1, Zenon DEF HoldInv, Raising, Owning
<1> QED
  BY <1>1, <1>2, Zenon

(* The row that leads to an entry function stays to be seen while it runs.     *)
LEMMA RowStep ==
  ASSUME ThreadTypes, OwnerInv, RowInv, NEW t \in Threads, Machine(t)
  PROVE  RowInv'
<1> USE DEF lockVars, Goto, RowInv, OwnerInv, ThreadTypes, Owning, Entered
<1>1. CASE EventHandler(t)
  BY <1>1, EventNames, Zenon DEF EventHandler
<1>2. CASE ProcessRow(t)
  <2>1. at[t] = "process" /\ fifo = <<>>
    BY <1>2, FifoIsEmpty, Zenon DEF ProcessRow
  <2>2. \A u \in Threads : u # t => at[u] \notin Owning
    BY <2>1, Zenon
  <2> QED
    BY <1>2, <2>1, <2>2, EventNames, Zenon DEF ProcessRow
<1>3. CASE ProcessLast(t)
  BY <1>3, Zenon DEF ProcessLast, GiveUp, Return
<1>4. CASE EntryDone(t)
  BY <1>4, EventNames, Zenon DEF EntryDone, Events
<1>5. CASE EnterError(t)
  BY <1>5, Zenon DEF EnterError, Entering
<1>6. CASE Notify(t)
  BY <1>6, Zenon DEF Notify
<1>7. CASE Retry(t)
  <2>1. fifo' = <<"KICK_START">> \/ fifo' = <<"ERROR">>
    BY <1>7, RetryEnds, Zenon
  <2>2. at[t] = "retry" /\ Goto(t, "publish") /\ UNCHANGED <<st, ev, tgt>>
    BY <1>7, Zenon DEF Retry
  <2> QED
    BY <2>1, <2>2, EventNames, Zenon DEF Events
<1>8. CASE PublishNext(t)
  BY <1>8, Zenon DEF PublishNext
<1>9. CASE PublishLast(t)
  BY <1>9, Zenon DEF PublishLast, GiveUp, Return
<1> QED
  BY <1>1, <1>2, <1>3, <1>4, <1>5, <1>6, <1>7, <1>8, <1>9, Zenon DEF Machine

(* The internal thread comes to process KICK_START only in ERROR.              *)
LEMMA KickStep ==
  ASSUME ThreadTypes, OwnerInv, RowInv, KickInv, NEW t \in Threads, Machine(t)
  PROVE  KickInv'
<1> USE NeighbourAssumption DEF lockVars, Goto, KickInv, ThreadTypes, Owning, Threads
<1>1. CASE EventHandler(t) \/ ProcessRow(t) \/ EntryDone(t) \/ Notify(t)
  BY <1>1, Zenon DEF EventHandler, ProcessRow, EntryDone, Notify
<1>2. CASE EnterError(t) \/ Retry(t)
  BY <1>2, Zenon DEF EnterError, Entering, Retry
<1>3. CASE ProcessLast(t)
  BY <1>3, Zenon DEF ProcessLast, GiveUp, Return
<1>4. CASE PublishNext(t)
  BY <1>4, Zenon DEF PublishNext, RowInv, OwnerInv
<1>5. CASE PublishLast(t)
  BY <1>5, Zenon DEF PublishLast, GiveUp, Return, OwnerInv
<1> QED
  BY <1>1, <1>2, <1>3, <1>4, <1>5, Zenon DEF Machine

(* A step of the state machine keeps the core of the invariant.                *)
LEMMA MachineStep ==
  ASSUME Core, NEW t \in Threads, Machine(t)
  PROVE  Core'
<1>1. RowInv' /\ KickInv'
  BY RowStep, KickStep, Zenon DEF Core
<1>2. StateTypes'
  BY Rows, Zenon DEF Machine, StateTypes, Core, EventHandler, ProcessRow, ProcessLast, EntryDone, EnterError, Entering,
              Notify, Retry, PublishNext, PublishLast
<1>3. CASE Within(t) /\ UNCHANGED st
  BY <1>1, <1>2, <1>3, WithinStep, HoldStep, Zenon DEF Core
<1>4. CASE ProcessLast(t)
  BY <1>1, <1>2, <1>4, GiveUpStep, HoldStep, Zenon DEF Core, ProcessLast, lifeVars, dstVars, Owning
<1>5. ASSUME PublishNext(t) \/ PublishLast(t)
      PROVE  at[t] \in Owning /\ \A a \in Apps : a # t /\ at[a] = "raise" => ~outer[a]
  <2>1. at[t] \in Entered /\ at[t] \in Owning
    BY <1>5, Zenon DEF PublishNext, PublishLast, Entered, Owning
  <2> QED
    BY <2>1, NoEntryWhileRaising, Zenon DEF Core
<1>6. CASE PublishNext(t)
  BY <1>1, <1>2, <1>5, <1>6, WithinCases, WithinStep, HoldStep, Zenon DEF Core
<1>7. CASE PublishLast(t)
  BY <1>1, <1>2, <1>5, <1>7, GiveUpStep, HoldStep, Zenon DEF Core, PublishLast, lifeVars, dstVars
<1>8. EventHandler(t) \/ ProcessRow(t) \/ EntryDone(t) \/ EnterError(t) \/ Notify(t) \/ Retry(t) => UNCHANGED st
  BY Zenon DEF EventHandler, ProcessRow, EntryDone, EnterError, Entering, Notify, Retry
<1> QED
  BY <1>3, <1>4, <1>6, <1>7, <1>8, WithinCases, Zenon DEF Machine

(* A step outside of it does too, and is a step elsewhere.                     *)
LEMMA OutsideStep ==
  ASSUME Core, NEW x \in Threads,
         \/ CleanObj(x)
         \/ x = Int /\ (InternalThread \/ VerbsEvent \/ NetlinkEvent \/ CollectGarbage)
         \/ x \in Apps /\ App(x)
  PROVE  Core' /\ Elsewhere(x)
<1>1. Elsewhere(x)
  BY ElsewhereCases, Zenon DEF Core
<1>2. Move(x)
  BY MoveCases, Zenon DEF Core
<1>3. x \in Apps => AppMove(x)
  BY AppMoveCases, NeighbourAssumption, Zenon DEF Core
<1>4. x = Int => IntMove
  BY IntMoveCases, NeighbourAssumption, Zenon DEF Core
<1> QED
  BY <1>1, <1>2, <1>3, <1>4, ElsewhereStep, MoveStep, Zenon DEF Core

------------------------------------------------------------------------------
(* The rest of the types.  A timer is registered only before clean_obj.        *)
LEMMA TimerRegistered ==
  ASSUME TimerTypes
  PROVE  RegisterTimer \in [BOOLEAN -> Nat] /\ RegisterTimer[TRUE] = timers[TRUE]
<1>1. CASE cleaned
  BY <1>1, Zenon DEF RegisterTimer, TimerTypes
<1>2. CASE ~cleaned
  <2>1. \A n \in Nat : n + 1 \in Nat
    OBVIOUS
  <2>2. RegisterTimer = [timers EXCEPT ![FALSE] = timers[FALSE] + 1]
    BY <1>2, Zenon DEF RegisterTimer, TimerTypes
  <2> QED
    BY <2>1, <2>2, Zenon DEF TimerTypes
<1> QED
  BY <1>1, <1>2, Zenon

\* Everything that happens to a live entry between the timers that fire.
Arms == timers' \in {timers, RegisterTimer} /\ UNCHANGED alive /\ cleaned' \in {cleaned, TRUE}

(* All actions but TimerExpired and Delete.                                    *)
LEMMA ArmsCases ==
  /\ \A t \in Threads : StateMachine(t) \/ CleanObj(t) => Arms
  /\ HandleTimer \/ VerifyPeer \/ Rearm \/ RdmaCmEvent \/ HandleNeighEvent \/ VerbsEvent \/ NetlinkEvent
     \/ CollectGarbage => Arms
  /\ \A a \in Apps : App(a) => Arms
<1> USE DEF lifeVars, Arms
<1>1. ASSUME NEW t \in Threads, EventHandler(t) \/ Process(t) \/ Publish(t) \/ Notify(t) \/ Retry(t) PROVE Arms
  BY <1>1, Zenon DEF EventHandler, Process, Publish, Notify, Retry
<1>2. ASSUME NEW t \in Threads, Enter(t) PROVE Arms
  BY <1>2, Zenon DEF Enter, EnterInit, EnterInitResolution, EnterAddrResolved, EnterArpResolved,
                     EnterPathResolved, EnterReady, EnterError, EnterNotActive, Entering
<1>3. ASSUME NEW t \in Threads, CleanObj(t) PROVE Arms
  BY <1>3, Zenon DEF CleanObj
<1>4. ASSUME HandleTimer \/ VerifyPeer \/ Rearm \/ RdmaCmEvent \/ HandleNeighEvent \/ VerbsEvent \/ NetlinkEvent
             \/ CollectGarbage
      PROVE  Arms
  BY <1>4, Zenon DEF HandleTimer, VerifyPeer, Rearm, RdmaCmEvent, HandleNeighEvent, VerbsEvent, NetlinkEvent,
                     CollectGarbage
<1>5. ASSUME NEW a \in Apps, App(a) PROVE Arms
  BY <1>5, Zenon DEF App, PrepareToSend, RegisterObserver, GetPeerInfo, GetPeerInfoAfterKick, SlowSend,
                     UnregisterObserver
<1> HIDE DEF Arms
<1> QED
  BY <1>1, <1>2, <1>3, <1>4, <1>5, Zenon DEF StateMachine

(* The timers and the flags of the entry's life.                               *)
LEMMA TimerTypesStep ==
  ASSUME TimerTypes, Next
  PROVE  TimerTypes'
<1>1. CASE Arms
  BY <1>1, TimerRegistered, Zenon DEF Arms, TimerTypes
<1>2. CASE TimerExpired
  <2>1. PICK late \in BOOLEAN : timers[late] > 0 /\ timers' = [timers EXCEPT ![late] = timers[late] - 1]
    BY <1>2, Zenon DEF TimerExpired
  <2>2. timers[late] - 1 \in Nat
    BY <2>1 DEF TimerTypes
  <2>3. UNCHANGED <<cleaned, alive>>
    BY <1>2, Zenon DEF TimerExpired, lifeVars
  <2> QED
    BY <2>1, <2>2, <2>3, Zenon DEF TimerTypes
<1>3. CASE Delete
  <2>1. 0 \in Nat
    OBVIOUS
  <2> QED
    BY <1>3, <2>1, Zenon DEF Delete, TimerTypes
<1> QED
  BY <1>1, <1>2, <1>3, ArmsCases, Zenon DEF Next, InternalThread

(* What netlink knows of the peer.                                             *)
LEMMA PeerTypesStep ==
  ASSUME PeerTypes, Next
  PROVE  PeerTypes'
<1>1. ASSUME UNCHANGED peerVars PROVE PeerTypes'
  BY <1>1, Zenon DEF peerVars, PeerTypes
<1>2. ASSUME NEW t \in Threads, StateMachine(t) \/ CleanObj(t) PROVE UNCHANGED peerVars
  <2>1. CASE EventHandler(t) \/ Process(t) \/ Publish(t) \/ Notify(t) \/ Retry(t) \/ CleanObj(t)
    BY <2>1, Zenon DEF EventHandler, Process, Publish, Notify, Retry, CleanObj
  <2>2. CASE Enter(t)
    BY <2>2, Zenon DEF Enter, EnterInit, EnterInitResolution, EnterAddrResolved, EnterArpResolved,
                       EnterPathResolved, EnterReady, EnterError, EnterNotActive, Entering
  <2> QED
    BY <1>2, <2>1, <2>2, Zenon DEF StateMachine
<1>3. ASSUME TimerExpired \/ HandleTimer \/ VerifyPeer \/ Rearm \/ RdmaCmEvent \/ Delete \/ CollectGarbage
      PROVE  UNCHANGED peerVars
  BY <1>3, Zenon DEF TimerExpired, HandleTimer, VerifyPeer, Rearm, RdmaCmEvent, Delete, CollectGarbage
<1>4. ASSUME NEW a \in Apps, App(a) PROVE UNCHANGED peerVars
  BY <1>4, Zenon DEF App, PrepareToSend, RegisterObserver, GetPeerInfo, GetPeerInfoAfterKick, SlowSend,
                     UnregisterObserver
<1>5. ASSUME news < MaxNews, news' = news + 1 PROVE news' \in 0 .. MaxNews
  BY <1>5, NeighbourAssumption DEF PeerTypes
<1>7. VerbsEvent => PeerTypes'
  BY <1>5, Zenon DEF VerbsEvent, PeerTypes
<1>8. NetlinkEvent => PeerTypes'
  BY <1>5, Zenon DEF NetlinkEvent, PeerTypes
<1>6. HandleNeighEvent => PeerTypes'
  BY Zenon DEF HandleNeighEvent, PeerTypes
<1> QED
  BY <1>1, <1>2, <1>3, <1>4, <1>6, <1>7, <1>8, Zenon DEF Next, InternalThread

(* No more packets wait than were passed to the entry.                         *)
LEMMA CountTypesStep ==
  ASSUME CountTypes, Next
  PROVE  CountTypes'
<1> USE DEF dstVars, valVars
<1>1. ASSUME UNCHANGED <<unsent, packets>> PROVE CountTypes'
  BY <1>1, Zenon DEF CountTypes
<1>2. ASSUME NEW t \in Threads,
             EventHandler(t) \/ Process(t) \/ Publish(t) \/ Notify(t) \/ Retry(t) \/ CleanObj(t)
      PROVE  UNCHANGED <<unsent, packets>>
  BY <1>2, Zenon DEF EventHandler, Process, Publish, Notify, Retry, CleanObj
<1>3. ASSUME NEW t \in Threads, Enter(t) PROVE (UNCHANGED unsent \/ unsent' = 0) /\ UNCHANGED packets
  BY <1>3, Zenon DEF Enter, EnterInit, EnterInitResolution, EnterAddrResolved, EnterArpResolved,
                     EnterPathResolved, EnterReady, EnterError, EnterNotActive, Entering
<1>4. ASSUME TimerExpired \/ HandleTimer \/ VerifyPeer \/ Rearm \/ RdmaCmEvent \/ HandleNeighEvent
             \/ VerbsEvent \/ NetlinkEvent \/ CollectGarbage
      PROVE  UNCHANGED <<unsent, packets>>
  BY <1>4, Zenon DEF TimerExpired, HandleTimer, VerifyPeer, Rearm, RdmaCmEvent, HandleNeighEvent, VerbsEvent,
                     NetlinkEvent, CollectGarbage
<1>5. Delete => unsent' = 0 /\ UNCHANGED packets
  BY Zenon DEF Delete
<1>6. ASSUME NEW a \in Apps, PrepareToSend(a) \/ RegisterObserver(a) \/ GetPeerInfo(a) \/ GetPeerInfoAfterKick(a)
                             \/ UnregisterObserver(a)
      PROVE  UNCHANGED <<unsent, packets>>
  BY <1>6, Zenon DEF PrepareToSend, RegisterObserver, GetPeerInfo, GetPeerInfoAfterKick, UnregisterObserver
<1>7. ASSUME NEW a \in Apps, SlowSend(a) PROVE CountTypes'
  BY <1>7, NeighbourAssumption DEF SlowSend, CountTypes
<1>8. ASSUME unsent' = 0, UNCHANGED packets PROVE CountTypes'
  BY <1>8, NeighbourAssumption DEF CountTypes
<1> QED
  BY <1>1, <1>2, <1>3, <1>4, <1>5, <1>6, <1>7, <1>8, Zenon DEF Next, InternalThread, StateMachine, App

(* The value of the entry; the retries stay within their limit.                *)
LEMMA ValueTypesStep ==
  ASSUME ValueTypes, PeerTypes, Next
  PROVE  ValueTypes'
<1> USE DEF valVars
<1> DEFINE Flags == /\ mState' \in {mState, TRUE, FALSE} /\ verbs' \in {verbs, TRUE, FALSE}
                    /\ cma' \in {cma, "null", "unused", "addr", "route"}
           Addr  == l2' \in {l2, nudL2, NoL2}
           Same  == UNCHANGED <<mState, l2, errs, cma, verbs>>
<1>1. ASSUME Flags, Addr, errs' \in 0 .. Retries PROVE ValueTypes'
  BY <1>1, Zenon DEF ValueTypes, PeerTypes
<1>2. ASSUME Same PROVE ValueTypes'
  BY <1>2, Zenon DEF ValueTypes
<1>3. errs \in 0 .. Retries
  BY Zenon DEF ValueTypes
<1>4. ASSUME NEW t \in Threads,
             EventHandler(t) \/ Process(t) \/ Publish(t) \/ Notify(t) \/ CleanObj(t) \/ EnterInit(t)
             \/ EnterAddrResolved(t)
      PROVE  Same
  BY <1>4, Zenon DEF EventHandler, Process, Publish, Notify, CleanObj, EnterInit, EnterAddrResolved
<1>5. ASSUME NEW t \in Threads, EnterInitResolution(t) \/ EnterArpResolved(t) \/ EnterPathResolved(t)
      PROVE  Flags /\ Addr /\ UNCHANGED errs
  BY <1>5, Zenon DEF EnterInitResolution, EnterArpResolved, EnterPathResolved
<1>6. ASSUME NEW t \in Threads, EnterReady(t) PROVE Flags /\ Addr /\ UNCHANGED errs
  BY <1>6, Zenon DEF EnterReady
<1>7. ASSUME NEW t \in Threads, EnterError(t) \/ EnterNotActive(t) PROVE Flags /\ Addr /\ UNCHANGED errs
  BY <1>7, Zenon DEF EnterError, EnterNotActive
<1>8. ASSUME NEW t \in Threads, Retry(t) PROVE Flags /\ Addr /\ errs' \in 0 .. Retries
  <2>1. UNCHANGED <<mState, l2, cma, verbs>> /\ (errs' = 0 \/ (errs < Retries /\ errs' = errs + 1))
    BY <1>8, Zenon DEF Retry
  <2>2. errs' \in 0 .. Retries
    BY <1>3, <2>1, NeighbourAssumption
  <2> QED
    BY <2>1, <2>2, Zenon
<1>9. ASSUME TimerExpired \/ HandleTimer \/ VerifyPeer \/ Rearm \/ HandleNeighEvent \/ VerbsEvent
             \/ NetlinkEvent \/ CollectGarbage
      PROVE  Same
  BY <1>9, Zenon DEF TimerExpired, HandleTimer, VerifyPeer, Rearm, HandleNeighEvent, VerbsEvent, NetlinkEvent,
                     CollectGarbage
<1>10. ASSUME RdmaCmEvent \/ Delete PROVE Flags /\ Addr /\ UNCHANGED errs
  BY <1>10, Zenon DEF RdmaCmEvent, Delete
<1>11. ASSUME NEW a \in Apps, App(a) PROVE Same
  BY <1>11, Zenon DEF App, PrepareToSend, RegisterObserver, GetPeerInfo, GetPeerInfoAfterKick, SlowSend,
                      UnregisterObserver
<1> HIDE DEF Flags, Addr, Same
<1>12. ASSUME NEW t \in Threads, Enter(t) PROVE ValueTypes'
  BY <1>1, <1>2, <1>3, <1>4, <1>5, <1>6, <1>7, <1>12, Zenon DEF Enter
<1>13. ASSUME NEW t \in Threads, StateMachine(t) \/ CleanObj(t) PROVE ValueTypes'
  BY <1>1, <1>2, <1>4, <1>8, <1>12, <1>13, Zenon DEF StateMachine
<1> QED
  BY <1>1, <1>2, <1>3, <1>9, <1>10, <1>11, <1>13, Zenon DEF Next, InternalThread

(* What the destinations keep.                                                 *)
LEMMA DstTypesStep ==
  ASSUME DstTypes, ValueTypes, Next
  PROVE  DstTypes'
<1> USE DEF dstVars
<1> DEFINE Same == UNCHANGED <<observers, valid, copy>>
<1>1. ASSUME Same PROVE DstTypes'
  BY <1>1, Zenon DEF DstTypes
<1>2. ASSUME NEW t \in Threads, EventHandler(t) \/ Process(t) \/ Publish(t) \/ Retry(t) \/ CleanObj(t)
      PROVE  Same
  BY <1>2, Zenon DEF EventHandler, Process, Publish, Retry, CleanObj
<1>3. ASSUME NEW t \in Threads, Enter(t) PROVE Same
  BY <1>3, Zenon DEF Enter, EnterInit, EnterInitResolution, EnterAddrResolved, EnterArpResolved,
                     EnterPathResolved, EnterReady, EnterError, EnterNotActive, Entering
<1>4. ASSUME NEW t \in Threads, Notify(t) PROVE DstTypes'
  <2>1. \A a \in Apps : (valid[a] /\ a \notin observers) \in BOOLEAN
    BY Zenon
  <2> QED
    BY <1>4, <2>1, Zenon DEF Notify, DstTypes
<1>5. ASSUME TimerExpired \/ HandleTimer \/ VerifyPeer \/ Rearm \/ RdmaCmEvent \/ HandleNeighEvent \/ Delete
             \/ VerbsEvent \/ NetlinkEvent \/ CollectGarbage
      PROVE  Same
  BY <1>5, Zenon DEF TimerExpired, HandleTimer, VerifyPeer, Rearm, RdmaCmEvent, HandleNeighEvent, Delete,
                     VerbsEvent, NetlinkEvent, CollectGarbage
<1>6. ASSUME NEW a \in Apps, SlowSend(a) PROVE Same
  BY <1>6, Zenon DEF SlowSend
<1>7. ASSUME NEW a \in Apps, PrepareToSend(a) PROVE DstTypes'
  BY <1>7, Zenon DEF PrepareToSend, DstTypes
<1>8. ASSUME NEW a \in Apps, RegisterObserver(a) PROVE DstTypes'
  BY <1>8, Zenon DEF RegisterObserver, DstTypes
<1>9. ASSUME NEW a \in Apps, GetPeerInfo(a) \/ GetPeerInfoAfterKick(a) PROVE DstTypes'
  BY <1>9, Zenon DEF GetPeerInfo, GetPeerInfoAfterKick, Answer, DstTypes, ValueTypes
<1>10. ASSUME NEW a \in Apps, UnregisterObserver(a) PROVE DstTypes'
  BY <1>10, Zenon DEF UnregisterObserver, DstTypes
<1> HIDE DEF Same
<1> QED
  BY <1>1, <1>2, <1>3, <1>4, <1>5, <1>6, <1>7, <1>8, <1>9, <1>10, Zenon
  DEF Next, InternalThread, StateMachine, App

------------------------------------------------------------------------------
(* A thread in the state machine has raised an event.                          *)
LEMMA StandsInMachine ==
  ASSUME NEW t \in Threads, StateMachine(t)
  PROVE  at[t] \in Raising
<1>1. at[t] \in {"process", "enter", "notify", "retry", "publish", "raise"}
  BY Zenon DEF StateMachine, EventHandler, Process, Publish, Notify, Retry, Enter, EnterInit,
               EnterInitResolution, EnterAddrResolved, EnterArpResolved, EnterPathResolved, EnterReady,
               EnterError, EnterNotActive, Entering
<1> QED
  BY <1>1, Zenon DEF Raising, Owning

(* Only live entries are called back, by a timer, rdma_cm or verbs; what the   *)
(* destructor takes away does not come back.                                   *)
LEMMA DeletedStep ==
  ASSUME ThreadTypes, TimerTypes, ConstructInv, HoldInv, ObserveInv, DeletedInv, Next
  PROVE  DeletedInv'
<1> USE DEF lifeVars, valVars
<1>1. ASSUME alive, Arms PROVE DeletedInv'
  <2>1. timers'[TRUE] = 0
    BY <1>1, TimerRegistered, Zenon DEF Arms, DeletedInv
  <2> QED
    BY <1>1, <2>1, Zenon DEF Arms, DeletedInv
<1>2. ASSUME NEW t \in Threads, StateMachine(t) PROVE DeletedInv'
  <2>1. at[t] \in Raising
    BY <1>2, StandsInMachine, Zenon
  <2>2. alive
    BY <2>1, OwnerIsAlive, Zenon
  <2> QED
    BY <1>1, <1>2, <2>2, ArmsCases, Zenon
<1>3. ASSUME ~alive, UNCHANGED <<timers, alive, cma, verbs>>, cleaned' = TRUE \/ UNCHANGED cleaned,
             at'[Int] = at[Int]
      PROVE  DeletedInv'
  <2>1. timers'[TRUE] = 0 /\ timers'[FALSE] = 0
    BY <1>3, Zenon DEF DeletedInv
  <2>2. cleaned /\ cma = "null" /\ ~verbs /\ at[Int] = "idle"
    BY <1>3, Zenon DEF DeletedInv
  <2>3. cleaned' /\ cma' = "null" /\ ~verbs' /\ at'[Int] = "idle"
    BY <1>3, <2>2, Zenon
  <2> QED
    BY <2>1, <2>3, Zenon DEF DeletedInv
<1>4. ASSUME NEW t \in Threads, CleanObj(t) PROVE DeletedInv'
  <2>1. CASE ~alive
    <3>1. t # Int /\ at'[Int] = at[Int]
      BY <1>4, <2>1, Zenon DEF CleanObj, Return, Goto, DeletedInv, ThreadTypes, Threads
    <3> QED
      BY <1>3, <1>4, <2>1, <3>1, Zenon DEF CleanObj
  <2> QED
    BY <1>1, <1>4, <2>1, ArmsCases, Zenon
<1>5. ASSUME HandleTimer \/ VerifyPeer \/ Rearm \/ RdmaCmEvent \/ HandleNeighEvent \/ VerbsEvent
             \/ CollectGarbage
      PROVE  DeletedInv'
  <2>1. alive
    BY <1>5, Zenon DEF HandleTimer, VerifyPeer, Rearm, RdmaCmEvent, HandleNeighEvent, VerbsEvent, CollectGarbage,
                       DeletedInv
  <2> QED
    BY <1>1, <1>5, <2>1, ArmsCases, Zenon
<1>6. CASE NetlinkEvent
  <2>1. CASE ~alive
    BY <1>3, <1>6, <2>1, Zenon DEF NetlinkEvent, DeletedInv
  <2> QED
    BY <1>1, <1>6, <2>1, ArmsCases, Zenon
<1>7. CASE TimerExpired
  <2>1. PICK late \in BOOLEAN : timers[late] > 0 /\ timers' = [timers EXCEPT ![late] = timers[late] - 1]
    BY <1>7, Zenon DEF TimerExpired
  <2>2. ~(0 > 0)
    OBVIOUS
  <2>3. timers'[TRUE] = 0
    BY <2>1, <2>2, Zenon DEF DeletedInv, TimerTypes
  <2> QED
    BY <1>7, <2>3, Zenon DEF TimerExpired, DeletedInv
<1>8. CASE Delete
  BY <1>8, Zenon DEF Delete, DeletedInv, TimerTypes
<1>9. ASSUME NEW a \in Apps, App(a) PROVE DeletedInv'
  <2>1. CASE ~alive
    <3>1. UNCHANGED <<timers, alive, cma, verbs, cleaned>>
      BY <1>9, Zenon DEF App, PrepareToSend, RegisterObserver, GetPeerInfo, GetPeerInfoAfterKick, SlowSend,
                         UnregisterObserver
    <3>2. at'[Int] = at[Int]
      BY <1>9, ElsewhereCases, NeighbourAssumption DEF Elsewhere, ThreadTypes, Threads
    <3> QED
      BY <1>3, <2>1, <3>1, <3>2, Zenon
  <2> QED
    BY <1>1, <1>9, <2>1, ArmsCases, Zenon
<1> QED
  BY <1>2, <1>4, <1>5, <1>6, <1>7, <1>8, <1>9, Zenon DEF Next, InternalThread

------------------------------------------------------------------------------
(* What the entry functions other than that of ERROR do to the value.          *)
EntryValue(t) ==
    \/ tgt \notin {"READY", "PATH_RESOLVED", "ERROR"} /\ UNCHANGED <<mState, l2, unsent>>
    \/ /\ tgt = "PATH_RESOLVED" /\ UNCHANGED <<mState, unsent>>
       /\ l2' # NoL2 \/ fifo' = <<"ERROR">>
    \/ /\ tgt = "READY"
       /\ \/ mState' = TRUE /\ l2' # NoL2 /\ unsent' = 0
          \/ fifo' = <<"ERROR">> /\ UNCHANGED <<mState, l2, unsent>>
    \/ tgt = "NOT_ACTIVE" /\ mState' = FALSE

(* They build a value with an address, or raise ERROR.                         *)
LEMMA EntryValues ==
  ASSUME RowInv, OwnerInv, PeerTypes, PathInv, alive, NEW t \in Threads, Enter(t), ~EnterError(t)
  PROVE  EntryValue(t)
<1> USE DEF valVars, EntryValue
<1>1. at[t] = "enter"
  BY Zenon DEF Enter, EnterInit, EnterInitResolution, EnterAddrResolved, EnterArpResolved, EnterPathResolved,
               EnterReady, EnterNotActive, Entering
<1>2. Push("ERROR") => fifo' = <<"ERROR">>
  <2>1. fifo = <<>>
    BY <1>1, FifoIsEmpty, Zenon DEF Owning
  <2> QED
    BY <2>1, OneEvent, Zenon DEF Push
<1>3. nudL2 # NoL2
  BY NeighbourAssumption, Zenon DEF PeerTypes
<1>4. CASE EnterInit(t) \/ EnterInitResolution(t) \/ EnterAddrResolved(t) \/ EnterArpResolved(t)
  BY <1>4, Zenon DEF EnterInit, EnterInitResolution, EnterAddrResolved, EnterArpResolved, Entering
<1>5. CASE EnterPathResolved(t)
  BY <1>2, <1>3, <1>5, Zenon DEF EnterPathResolved, Entering
<1>6. CASE EnterReady(t)
  <2>1. Transport = "IB" /\ tgt = "READY" => l2 # NoL2
    BY <1>1, Zenon DEF PathInv, PathAt
  <2>2. Transport = "ETH" \/ Transport = "IB"
    BY NeighbourAssumption, Zenon
  <2> QED
    BY <1>2, <1>3, <1>6, <2>1, <2>2, Zenon DEF EnterReady, Entering
<1>7. CASE EnterNotActive(t)
  BY <1>7, Zenon DEF EnterNotActive, Entering
<1> QED
  BY <1>4, <1>5, <1>6, <1>7, Zenon DEF Enter

(* m_state follows the published state.                                        *)
LEMMA MachineReady ==
  ASSUME ThreadTypes, OwnerInv, RowInv, PeerTypes, ReadyInv, PathInv, alive, OwnerInv',
         NEW t \in Threads, at[t] \in Raising, StateMachine(t)
  PROVE  ReadyInv' /\ PathInv'
<1> USE DEF lockVars, valVars, lifeVars, Goto
<1> DEFINE Value == mState' => l2' # NoL2 /\ unsent' = 0
           Mine  == Value /\ smLock' = t /\ ReadyAt(t)'
           Path  == Transport = "IB" => PathAt(t)'
           Last  == Value /\ (mState' <=> st' = "READY") /\ at'[t] \notin Owning
           LastP == Transport = "IB" /\ st' = "PATH_RESOLVED" => l2' # NoL2
<1>1. /\ mState => l2 # NoL2 /\ unsent = 0
      /\ smLock = Free => (mState <=> st = "READY")
      /\ ReadyAt(t)
  BY Zenon DEF ReadyInv
<1>2. Transport = "IB" => (smLock = Free /\ st = "PATH_RESOLVED" => l2 # NoL2) /\ PathAt(t)
  BY Zenon DEF PathInv
<1>3. at[t] \in Owning => smLock = t
  BY Zenon DEF OwnerInv
<1>4. t # Free
  BY NeighbourAssumption, Zenon DEF Threads
<1>5. ASSUME EventHandler(t) PROVE Mine /\ Path
  <2>1. /\ smLock = Free /\ smLock' = t /\ at'[t] = "process"
        /\ UNCHANGED <<st, ev, mState, l2, unsent>>
    BY <1>5, Zenon DEF EventHandler, ThreadTypes
  <2> QED
    BY <1>1, <1>2, <2>1, Zenon DEF ReadyAt, PathAt
<1>6. ASSUME ProcessRow(t) PROVE Mine /\ Path
  <2>1. /\ at[t] = "process" /\ at'[t] = "enter" /\ <<st, ev[t], tgt'>> \in Table
        /\ UNCHANGED <<smLock, mState, l2, unsent>>
    BY <1>6, Zenon DEF ProcessRow, ThreadTypes
  <2>2. (st = "READY" => tgt' = "ERROR") /\ (tgt' = "READY" /\ Transport = "IB" => st = "PATH_RESOLVED" /\ ev[t] # "ERROR")
    BY <2>1, Rows, Zenon
  <2> QED
    BY <1>1, <1>2, <1>3, <2>1, <2>2, Zenon DEF ReadyAt, PathAt, Owning
<1>7. ASSUME ProcessLast(t) PROVE Last /\ LastP /\ smLock' = Free
  <2>1. /\ at[t] = "process" /\ smLock' = Free /\ at'[t] \notin Owning /\ ~\E row \in Table : row[1] = st /\ row[2] = ev[t]
        /\ UNCHANGED <<st, mState, l2, unsent>>
    BY <1>7, Zenon DEF ProcessLast, GiveUp, Return, ThreadTypes, Owning
  <2>2. /\ ~(st = "READY" /\ ev[t] = "ERROR")
        /\ Transport = "IB" => ~(st = "PATH_RESOLVED" /\ ev[t] = "ERROR")
    BY <2>1, ErrorRows, Zenon
  <2> QED
    BY <1>1, <1>2, <2>1, <2>2, Zenon DEF ReadyAt, PathAt
<1>8. ASSUME Enter(t) /\ ~EnterError(t) PROVE Mine /\ Path
  <2>1. EntryDone(t)
    BY <1>8, EntryCases, Zenon
  <2>2. at[t] = "enter" /\ tgt # "ERROR" /\ at'[t] = "publish" /\ UNCHANGED <<tgt, smLock>>
    BY <2>1, Zenon DEF EntryDone, ThreadTypes
  <2>3. EntryValue(t)
    BY <1>8, EntryValues, Zenon
  <2>4. Value /\ ReadyAt(t)'
    BY <1>1, <2>2, <2>3 DEF EntryValue, ReadyAt
  <2> QED
    BY <1>3, <2>2, <2>3, <2>4, Zenon DEF EntryValue, PathAt, Owning
<1>9. ASSUME EnterError(t) PROVE Mine /\ Path
  <2>1. at[t] = "enter" /\ at'[t] = "notify" /\ mState' = FALSE /\ UNCHANGED smLock
    BY <1>9, Zenon DEF EnterError, Entering, ThreadTypes
  <2> QED
    BY <1>3, <2>1, Zenon DEF ReadyAt, PathAt, Owning
<1>10. ASSUME Notify(t) PROVE Mine /\ Path
  <2>1. at[t] = "notify" /\ at'[t] = "retry" /\ UNCHANGED <<smLock, mState>>
    BY <1>10, Zenon DEF Notify, ThreadTypes
  <2> QED
    BY <1>1, <1>3, <2>1, Zenon DEF ReadyAt, PathAt, Owning
<1>11. ASSUME Retry(t) PROVE Mine /\ Path
  <2>1. at[t] = "retry" /\ at'[t] = "publish" /\ tgt = "ERROR" /\ UNCHANGED <<smLock, mState, tgt>>
    BY <1>11, Zenon DEF Retry, ThreadTypes, RowInv
  <2> QED
    BY <1>1, <1>3, <2>1, Zenon DEF ReadyAt, PathAt, Owning
<1>12. ASSUME PublishNext(t) PROVE Mine /\ Path
  <2>1. /\ at[t] = "publish" /\ at'[t] = "process" /\ st' = tgt /\ fifo = <<ev'[t]>>
        /\ UNCHANGED <<smLock, mState, l2, unsent>>
    BY <1>12, Zenon DEF PublishNext, ThreadTypes
  <2>2. fifo = <<"ERROR">> => ev'[t] = "ERROR"
    BY <2>1, Zenon
  <2> QED
    BY <1>1, <1>2, <1>3, <2>1, <2>2, Zenon DEF ReadyAt, PathAt, Owning
<1>13. ASSUME PublishLast(t) PROVE Last /\ LastP /\ smLock' = Free
  <2>1. /\ at[t] = "publish" /\ smLock' = Free /\ at'[t] \notin Owning /\ st' = tgt /\ fifo = <<>>
        /\ UNCHANGED <<mState, l2, unsent>>
    BY <1>13, Zenon DEF PublishLast, GiveUp, Return, ThreadTypes, Owning
  <2>2. fifo # <<"ERROR">>
    BY <2>1, OneEvent, Zenon
  <2> QED
    BY <1>1, <1>2, <2>1, <2>2, Zenon DEF ReadyAt, PathAt
<1>14. ASSUME Mine, Path PROVE ReadyInv' /\ PathInv'
  <2>1. \A u \in Threads : u # t => at'[u] \notin Owning
    BY <1>14, Zenon DEF OwnerInv
  <2>2. \A u \in Threads : u # t => ReadyAt(u)' /\ PathAt(u)'
    BY <2>1, Zenon DEF ReadyAt, PathAt, Owning
  <2> QED
    BY <1>4, <1>14, <2>2, Zenon DEF ReadyInv, PathInv
<1>15. ASSUME Last, LastP, smLock' = Free PROVE ReadyInv' /\ PathInv'
  <2>1. \A u \in Threads : at'[u] \notin Owning
    BY <1>15, NeighbourAssumption, Zenon DEF OwnerInv, Threads
  <2>2. \A u \in Threads : ReadyAt(u)' /\ PathAt(u)'
    BY <2>1, Zenon DEF ReadyAt, PathAt, Owning
  <2> QED
    BY <1>15, <2>2, Zenon DEF ReadyInv, PathInv
<1> QED
  <2> HIDE DEF Mine, Path, Last, LastP
  <2>1. EventHandler(t) \/ ProcessRow(t) \/ ProcessLast(t) \/ Enter(t) \/ Notify(t) \/ Retry(t) \/ PublishNext(t)
        \/ PublishLast(t)
    BY ProcessCases, PublishCases, Zenon DEF StateMachine
  <2> QED
    BY <1>5, <1>6, <1>7, <1>8, <1>9, <1>10, <1>11, <1>12, <1>13, <1>14, <1>15, <2>1, Zenon

(* Outside of the state machine the value is left alone, and packets wait      *)
(* only for an entry that is not ready.                                        *)
LEMMA ElsewhereReady ==
  ASSUME ThreadTypes, OwnerInv, ReadyInv, PathInv, alive' => alive, NEW x \in Threads, Elsewhere(x),
         UNCHANGED <<mState, l2>>, unsent' = unsent \/ unsent' = 0 \/ ~mState
  PROVE  ReadyInv' /\ PathInv'
<1>1. /\ \A u \in Threads : at'[u] \in Owning => at'[u] = at[u] /\ ev'[u] = ev[u]
      /\ UNCHANGED <<st, tgt, fifo, smLock>>
  BY Zenon DEF Elsewhere, ThreadTypes, Outside, Raising, Owning, IntPlaces, AppPlaces
<1>2. \A u \in Threads : (ReadyAt(u) => ReadyAt(u)') /\ (PathAt(u) => PathAt(u)')
  BY <1>1, Zenon DEF ReadyAt, PathAt, Owning
<1> QED
  BY <1>1, <1>2, Zenon DEF ReadyInv, PathInv

(* Together: m_state follows the published state through every step.           *)
LEMMA ReadyStep ==
  ASSUME Core, Core', PeerTypes, DeletedInv, ReadyInv, PathInv, Next
  PROVE  ReadyInv' /\ PathInv'
<1> USE DEF valVars, lifeVars
<1>1. ASSUME NEW t \in Threads, StateMachine(t) PROVE ReadyInv' /\ PathInv'
  <2>1. at[t] \in Raising
    BY <1>1, StandsInMachine, Zenon
  <2>2. alive
    BY <2>1, OwnerIsAlive, Zenon DEF Core
  <2> QED
    BY <1>1, <2>1, <2>2, MachineReady, Zenon DEF Core
<1>2. ASSUME NEW x \in Threads, Elsewhere(x), UNCHANGED <<mState, l2, unsent, alive>> PROVE ReadyInv' /\ PathInv'
  BY <1>2, ElsewhereReady, Zenon DEF Core
<1>3. ASSUME NEW t \in Threads, CleanObj(t) PROVE UNCHANGED <<mState, l2, unsent, alive>>
  BY <1>3, Zenon DEF CleanObj
<1>4. ASSUME TimerExpired \/ HandleTimer \/ VerifyPeer \/ Rearm \/ RdmaCmEvent \/ HandleNeighEvent
             \/ VerbsEvent \/ NetlinkEvent \/ CollectGarbage
      PROVE  UNCHANGED <<mState, l2, unsent, alive>>
  BY <1>4, Zenon DEF TimerExpired, HandleTimer, VerifyPeer, Rearm, RdmaCmEvent, HandleNeighEvent, VerbsEvent,
                     NetlinkEvent, CollectGarbage
<1>5. Delete => ReadyInv' /\ PathInv'
  BY Zenon DEF Delete, ReadyInv, PathInv
<1>6. ASSUME NEW a \in Apps, PrepareToSend(a) \/ RegisterObserver(a) \/ GetPeerInfo(a) \/ GetPeerInfoAfterKick(a)
                             \/ UnregisterObserver(a)
      PROVE  UNCHANGED <<mState, l2, unsent, alive>>
  BY <1>6, Zenon DEF PrepareToSend, RegisterObserver, GetPeerInfo, GetPeerInfoAfterKick, UnregisterObserver
<1>7. ASSUME NEW a \in Apps, SlowSend(a) PROVE ReadyInv' /\ PathInv'
  <2>1. UNCHANGED <<mState, l2, alive>> /\ (unsent' = unsent \/ unsent' = 0 \/ ~mState)
    BY <1>7, Zenon DEF SlowSend
  <2>2. a \in Threads /\ Elsewhere(a)
    BY <1>7, ElsewhereCases, Zenon DEF Core, App, Threads
  <2> QED
    BY <2>1, <2>2, ElsewhereReady, Zenon DEF Core
<1>8. Int \in Threads /\ Apps \subseteq Threads
  BY Zenon DEF Threads
<1>9. ThreadTypes
  BY Zenon DEF Core
<1>10. ASSUME NEW a \in Apps, App(a) PROVE ReadyInv' /\ PathInv'
  BY <1>2, <1>6, <1>7, <1>8, <1>9, <1>10, ElsewhereCases, Zenon DEF App
<1>11. InternalThread \/ VerbsEvent \/ NetlinkEvent \/ CollectGarbage => ReadyInv' /\ PathInv'
  BY <1>2, <1>4, <1>5, <1>8, <1>9, ElsewhereCases, Zenon DEF InternalThread
<1>12. ASSUME NEW t \in Threads, CleanObj(t) PROVE ReadyInv' /\ PathInv'
  BY <1>2, <1>3, <1>9, <1>12, ElsewhereCases, Zenon
<1> QED
  BY <1>1, <1>10, <1>11, <1>12, Zenon DEF Next

------------------------------------------------------------------------------
(* The state machine drops a value that destinations believe only on its way   *)
(* to notify them.                                                             *)
LEMMA MachineCopy ==
  ASSUME ThreadTypes, OwnerInv, RowInv, DstTypes, ReadyInv, CopyInv, alive,
         NEW t \in Threads, StateMachine(t)
  PROVE  CopyInv'
<1> USE DEF lockVars, valVars, dstVars, Goto
<1> DEFINE Quiet == /\ \A u \in Threads : u # t => at'[u] = at[u]
                    /\ at'[t] \notin {"idle", "send"} \/ t = Int
                    /\ UNCHANGED <<observers, valid>>
           Same  == UNCHANGED <<mState, l2, copy>> /\ (at[t] \in Owning \/ smLock = Free) /\ at[t] # "notify"
<1>1. ASSUME Quiet, Same PROVE CopyInv'
  <2>1. \A u \in Threads : at[u] # "notify"
    BY <1>1, NeighbourAssumption, Zenon DEF OwnerInv, Owning, Threads
  <2>2. \A a \in observers : a \in Apps /\ a # Int /\ a \in Threads
    BY NeighbourAssumption, Zenon DEF DstTypes, Threads
  <2> QED
    BY <1>1, <2>1, <2>2, Zenon DEF CopyInv
<1>2. ASSUME EventHandler(t) \/ ProcessRow(t) \/ Retry(t) \/ PublishNext(t) PROVE Quiet /\ Same
  <2>1. \E p \in Owning : at' = [at EXCEPT ![t] = p]
    BY <1>2, WithinCases, Zenon DEF Within
  <2>2. \A u \in Threads : u # t => at'[u] = at[u]
    BY <2>1, Zenon DEF ThreadTypes
  <2>3. at'[t] \notin {"idle", "send"}
    BY <2>1, Zenon DEF ThreadTypes, Owning
  <2>4. UNCHANGED <<observers, valid, mState, l2, copy>>
    BY <1>2, Zenon DEF EventHandler, ProcessRow, Retry, PublishNext
  <2>5. at[t] \in {"process", "retry", "publish"} \/ (at[t] = "raise" /\ smLock = Free)
    BY <1>2, Zenon DEF EventHandler, ProcessRow, Retry, PublishNext
  <2> QED
    BY <2>2, <2>3, <2>4, <2>5, Zenon DEF Owning
<1>3. ASSUME ProcessLast(t) \/ PublishLast(t) PROVE Quiet /\ Same
  <2>1. /\ \A u \in Threads : u # t => at'[u] = at[u]
        /\ at'[t] \in {"checked", "join"} \/ t = Int
    BY <1>3, Zenon DEF ProcessLast, PublishLast, GiveUp, Return, ThreadTypes
  <2>2. UNCHANGED <<observers, valid, mState, l2, copy>>
    BY <1>3, Zenon DEF ProcessLast, PublishLast
  <2>3. at[t] \in {"process", "publish"}
    BY <1>3, Zenon DEF ProcessLast, PublishLast
  <2> QED
    BY <2>1, <2>2, <2>3, Zenon DEF Owning
<1>4. ASSUME EnterError(t) PROVE CopyInv'
  <2>1. at'[t] = "notify"
    BY <1>4, Zenon DEF EnterError, ThreadTypes
  <2> QED
    BY <2>1, Zenon DEF CopyInv
<1>5. ASSUME Notify(t) PROVE CopyInv'
  BY <1>5, Zenon DEF Notify, CopyInv, DstTypes
<1>6. ASSUME EntryDone(t) PROVE CopyInv'
  <2>1. at[t] = "enter" /\ tgt # "ERROR" /\ at' = [at EXCEPT ![t] = "publish"]
        /\ UNCHANGED <<observers, valid>>
    BY <1>6, Zenon DEF EntryDone
  <2>2. ~mState
    BY <2>1, Zenon DEF ReadyInv, ReadyAt
  <2>3. \A u \in Threads : at[u] # "notify"
    BY <2>1, Zenon DEF OwnerInv, Owning
  <2>4. \A a \in observers : ~(valid[a] /\ at[a] \in {"idle", "send"})
    BY <2>2, <2>3, Zenon DEF CopyInv
  <2> QED
    BY <2>1, <2>4 DEF CopyInv, ThreadTypes, DstTypes
<1>7. Machine(t)
  BY MachineCases, Zenon
<1> HIDE DEF Quiet, Same
<1> QED
  BY <1>1, <1>2, <1>3, <1>4, <1>5, <1>6, <1>7, Zenon DEF Machine

\* A destination that believes its copy did so before, or has just copied the
\* value of a READY entry; the others keep what they have.
Believes(x) ==
    /\ UNCHANGED <<mState, l2>> /\ observers' \subseteq observers \cup {x}
    /\ \A b \in observers' : b # x => (valid'[b] => valid[b]) /\ copy'[b] = copy[b]
    /\ x \in observers' /\ valid'[x] /\ at'[x] \in {"idle", "send"} =>
          \/ x \in observers /\ valid[x] /\ at[x] \in {"idle", "send"} /\ copy'[x] = copy[x]
          \/ mState /\ copy'[x] = l2

(* A step that lets no destination believe anything else loses no              *)
(* notification.                                                               *)
LEMMA ElsewhereCopy ==
  ASSUME ThreadTypes, CopyInv, DstTypes, DstTypes', NEW x \in Threads, Elsewhere(x), Believes(x)
  PROVE  CopyInv'
<1>1. \A u \in Threads : /\ at[u] = "notify" => at'[u] = "notify"
                         /\ u # x => at'[u] = at[u]
  BY Zenon DEF Elsewhere, ThreadTypes, Raising, Owning
<1>2. observers \subseteq Threads /\ observers' \subseteq Threads
  BY Zenon DEF DstTypes, Threads
<1> QED
  BY <1>1, <1>2, Zenon DEF CopyInv, Believes

(* Together: no step leaves a destination with a stale copy it believes.       *)
LEMMA CopyStep ==
  ASSUME Core, Core', DstTypes, DstTypes', DeletedInv, ReadyInv, CopyInv, Next
  PROVE  CopyInv'
<1> USE DEF valVars, dstVars, lifeVars, Goto
<1>1. ASSUME NEW t \in Threads, StateMachine(t) PROVE CopyInv'
  <2>1. alive
    BY <1>1, StandsInMachine, OwnerIsAlive, Zenon DEF Core
  <2> QED
    BY <1>1, <2>1, MachineCopy, Zenon DEF Core
<1>2. Int \notin Apps /\ Int \in Threads /\ Apps \subseteq Threads /\ ThreadTypes
  BY NeighbourAssumption, Zenon DEF Threads, Core
<1>3. ASSUME UNCHANGED <<mState, l2, observers, valid, copy>> PROVE Believes(Int)
  BY <1>2, <1>3, Zenon DEF Believes, DstTypes
<1>4. ASSUME TimerExpired \/ HandleTimer \/ VerifyPeer \/ Rearm \/ RdmaCmEvent \/ HandleNeighEvent
             \/ VerbsEvent \/ NetlinkEvent \/ CollectGarbage
      PROVE  Believes(Int)
  <2>1. UNCHANGED <<mState, l2, observers, valid, copy>>
    BY <1>4, Zenon DEF TimerExpired, HandleTimer, VerifyPeer, Rearm, RdmaCmEvent, HandleNeighEvent, VerbsEvent,
                       NetlinkEvent, CollectGarbage
  <2> QED
    BY <1>3, <2>1, Zenon
<1>5. Delete => CopyInv'
  BY Zenon DEF Delete, Core, ObserveInv, CopyInv
<1>6. ASSUME NEW t \in Threads, CleanObj(t) PROVE CopyInv'
  BY <1>6, Zenon DEF CleanObj, Core, ObserveInv, CopyInv
<1>7. ASSUME NEW a \in Apps, PrepareToSend(a) \/ RegisterObserver(a) PROVE Believes(a)
  BY <1>2, <1>7, Zenon DEF PrepareToSend, RegisterObserver, Believes, DstTypes, ThreadTypes
<1>8. ASSUME NEW a \in Apps, GetPeerInfo(a) PROVE Believes(a)
  BY <1>2, <1>8, Zenon DEF GetPeerInfo, Raise, Answer, Believes, DstTypes, ThreadTypes
<1>9. ASSUME NEW a \in Apps, GetPeerInfoAfterKick(a) PROVE Believes(a)
  BY <1>2, <1>9, Zenon DEF GetPeerInfoAfterKick, Answer, Believes, DstTypes, ThreadTypes
<1>10. ASSUME NEW a \in Apps, SlowSend(a) \/ UnregisterObserver(a) PROVE Believes(a)
  BY <1>2, <1>10, Zenon DEF SlowSend, UnregisterObserver, Believes, DstTypes, ThreadTypes
<1>11. ASSUME NEW x \in Threads, Elsewhere(x), Believes(x) PROVE CopyInv'
  BY <1>2, <1>11, ElsewhereCopy, Zenon
<1>12. ASSUME NEW a \in Apps, App(a) PROVE CopyInv'
  BY <1>2, <1>7, <1>8, <1>9, <1>10, <1>11, <1>12, ElsewhereCases, Zenon DEF App
<1>13. InternalThread \/ VerbsEvent \/ NetlinkEvent \/ CollectGarbage => CopyInv'
  BY <1>2, <1>4, <1>5, <1>11, ElsewhereCases, Zenon DEF InternalThread
<1> QED
  BY <1>1, <1>6, <1>12, <1>13, Zenon DEF Next

------------------------------------------------------------------------------
(* The invariant holds when the constructor has been called.                   *)
LEMMA InitIInv == Init => IInv
<1> SUFFICES ASSUME Init PROVE IInv
  OBVIOUS
<1> USE NeighbourAssumption DEF Init, Threads
<1>1. ThreadTypes /\ LockTypes
  BY Zenon DEF ThreadTypes, LockTypes, Places, Events
<1>2. StateTypes
  BY Zenon DEF StateTypes, States
<1>3. ValueTypes
  <2>1. errs \in 0 .. Retries
    BY SMT
  <2> QED
    BY <2>1, ZenonT(30) DEF ValueTypes
<1>4. TimerTypes
  BY ZenonT(30) DEF TimerTypes
<1>15. CountTypes
  BY DEF CountTypes
<1>16. PeerTypes
  BY DEF PeerTypes
<1>17. DstTypes
  BY Zenon DEF DstTypes
<1>5. OwnerInv
  BY Zenon DEF OwnerInv, Owning, IntPlaces, AppPlaces
<1>6. RowInv
  BY EventNames, Zenon DEF RowInv, Entered
<1>7. KickInv
  BY Zenon DEF KickInv, Owning
<1>8. ConstructInv
  BY Zenon DEF ConstructInv, Unreached, NoTimers
<1>9. HoldInv
  BY Zenon DEF HoldInv, Raising, Owning
<1>10. ObserveInv
  BY Zenon DEF ObserveInv, Raising, Owning
<1>11. DeletedInv
  BY Zenon DEF DeletedInv
<1>12. ReadyInv
  BY Zenon DEF ReadyInv, ReadyAt
<1>13. PathInv
  BY Zenon DEF PathInv, PathAt
<1>14. CopyInv
  BY Zenon DEF CopyInv
<1> QED
  BY <1>1, <1>2, <1>3, <1>4, <1>5, <1>6, <1>7, <1>8, <1>9, <1>10, <1>11, <1>12, <1>13, <1>14,
     <1>15, <1>16, <1>17, Zenon
  DEF IInv, Core, Values

(* And every step from a state in which it holds keeps it.                     *)
LEMMA StepIInv ==
  ASSUME IInv, [Next]_vars
  PROVE  IInv'
<1>1. ASSUME Next PROVE IInv'
  <2>1. Core'
    <3>1. Core /\ RowInv /\ OwnerInv
      BY Zenon DEF IInv, Core
    <3>2. ASSUME NEW t \in Threads, StateMachine(t) PROVE Core'
      BY <3>1, <3>2, MachineCases, MachineStep, Zenon
    <3>3. ASSUME NEW t \in Threads, CleanObj(t) PROVE Core'
      BY <3>1, <3>3, OutsideStep, Zenon
    <3>4. InternalThread \/ VerbsEvent \/ NetlinkEvent \/ CollectGarbage => Core'
      BY <3>1, OutsideStep, Zenon DEF Threads
    <3>5. ASSUME NEW a \in Apps, App(a) PROVE Core'
      BY <3>1, <3>5, OutsideStep, Zenon DEF Threads
    <3> QED
      BY <1>1, <3>2, <3>3, <3>4, <3>5, Zenon DEF Next
  <2>2. Values'
    BY <1>1, ValueTypesStep, TimerTypesStep, CountTypesStep, PeerTypesStep, DstTypesStep, Zenon DEF IInv, Values
  <2>3. DeletedInv'
    BY <1>1, DeletedStep, Zenon DEF IInv, Core, Values
  <2>4. ReadyInv' /\ PathInv'
    BY <1>1, <2>1, ReadyStep, Zenon DEF IInv, Values
  <2>5. CopyInv'
    BY <1>1, <2>1, <2>2, CopyStep, Zenon DEF IInv, Values
  <2> QED
    BY <2>1, <2>2, <2>3, <2>4, <2>5, Zenon DEF IInv
<1>2. ASSUME UNCHANGED vars PROVE IInv'
  <2> USE <1>2 DEF vars, lockVars, valVars, peerVars, lifeVars, dstVars
  <2>1. Core'
    <3>1. ThreadTypes' /\ LockTypes' /\ StateTypes' /\ OwnerInv'
      BY Zenon DEF IInv, Core, ThreadTypes, LockTypes, StateTypes, OwnerInv
    <3>2. RowInv' /\ KickInv'
      BY Zenon DEF IInv, Core, RowInv, KickInv
    <3>3. ConstructInv'
      BY Zenon DEF IInv, Core, ConstructInv, Constructing, Unreached
    <3>4. HoldInv' /\ ObserveInv'
      BY Zenon DEF IInv, Core, HoldInv, ObserveInv
    <3> QED
      BY <3>1, <3>2, <3>3, <3>4, Zenon DEF Core
  <2>2. Values'
    BY Zenon DEF IInv, Values, ValueTypes, TimerTypes, CountTypes, PeerTypes, DstTypes
  <2>3. DeletedInv'
    BY Zenon DEF IInv, DeletedInv
  <2>4. ReadyInv' /\ PathInv'
    BY Zenon DEF IInv, ReadyInv, ReadyAt, PathInv, PathAt
  <2>5. CopyInv'
    BY Zenon DEF IInv, CopyInv
  <2> QED
    BY <2>1, <2>2, <2>3, <2>4, <2>5, Zenon DEF IInv
<1> QED
  BY <1>1, <1>2, Zenon

(* The invariant holds in every state of every behaviour.                      *)
LEMMA AlwaysIInv == Spec => []IInv
BY InitIInv, StepIInv, PTL DEF Spec

(* Every variable of a neigh_entry stays within its type: in particular no     *)
(* state outside the tables is entered, the retries stay within their limit    *)
(* and the queue holds no more packets than were passed to it.                 *)
THEOREM EntryTypes == Spec => []TypeOK
<1>1. IInv => TypeOK
  <2> SUFFICES ASSUME IInv PROVE TypeOK
    OBVIOUS
  <2> USE DEF IInv, Core, Values
  <2>1. fifo \in Seq(Events)
    <3>1. fifo = <<>> \/ \E e \in Events : fifo = <<e>>
      BY Zenon DEF RowInv
    <3>2. <<>> \in Seq(Events) /\ \A e \in Events : <<e>> \in Seq(Events)
      OBVIOUS
    <3> QED
      BY <3>1, <3>2, Zenon
  <2>2. unsent \in 0 .. MaxPackets
    BY NeighbourAssumption DEF CountTypes
  <2>3. {smLock, mLock, tblLock} \subseteq Threads \cup {Free}
    BY Zenon DEF LockTypes
  <2> QED
    BY <2>1, <2>2, <2>3, Zenon
    DEF TypeOK, ThreadTypes, StateTypes, ValueTypes, TimerTypes, CountTypes, PeerTypes, DstTypes
<1> QED
  BY <1>1, AlwaysIInv, PTL

(* get_peer_info and handle_neigh_event take m_sm_lock under m_lock, the entry *)
(* functions m_lock under m_sm_lock, and still no two threads ever wait for    *)
(* each other, however many destinations use the entry.                        *)
THEOREM LocksNeverCycle == Spec => []NoLockCycle
<1>1. IInv => NoLockCycle
  <2> SUFFICES ASSUME IInv,
                      NEW t \in Threads, NEW u \in Threads, t # u, mLock = t, at[t] = "raise",
                      smLock = u, NeedsLock(u)
               PROVE  FALSE
    BY Zenon DEF NoLockCycle
  <2>1. at[u] \in Entered /\ at[u] \in Raising
    BY Zenon DEF NeedsLock, Entered, Raising, Owning
  <2>2. CASE t \in Apps /\ outer[t]
    BY <2>1, <2>2, NoEntryWhileRaising, Zenon DEF IInv, Core
  <2>3. CASE t \in Apps /\ ~outer[t]
    <3>1. t = Creator
      BY <2>3, Zenon DEF IInv, Core, HoldInv, Raising
    <3>2. mLock = Free
      BY <2>3, <3>1, Zenon DEF IInv, Core, ConstructInv, Unreached, Constructing, Raising
    <3> QED
      BY <3>1, <3>2, NeighbourAssumption, Zenon
  <2>4. CASE t = Int
    <3>1. u \in Apps
      BY <2>4, Zenon DEF Threads
    <3>2. ~outer[u]
      BY <2>1, <2>4, <3>1, Zenon DEF IInv, Core, HoldInv
    <3>3. u = Creator
      BY <2>1, <3>1, <3>2, Zenon DEF IInv, Core, HoldInv
    <3>4. mLock # Int
      BY <2>1, <3>2, <3>3, Zenon DEF IInv, Core, ConstructInv, Unreached, Constructing
    <3> QED
      BY <2>4, <3>4, Zenon
  <2>5. outer[t] \in BOOLEAN
    BY Zenon DEF IInv, Core, ThreadTypes
  <2> QED
    BY <2>2, <2>3, <2>4, <2>5, Zenon DEF Threads
<1> QED
  BY <1>1, AlwaysIInv, PTL

(* When no event is being processed m_state says READY and a READY entry has   *)
(* an address and an empty queue; a destination that believes its copy has the *)
(* entry's address, so that no notification is lost; and a deleted neigh_entry *)
(* has no timer, rdma_cm id or registration left that would call it.           *)
THEOREM EntryIsSound == Spec => []EntrySound
<1>1. IInv => ReadyIsUsable
  BY Zenon DEF IInv, ReadyInv, ReadyIsUsable
<1>2. IInv => NoStaleDestination
  <2> SUFFICES ASSUME IInv,
                      NEW a \in Apps, smLock = Free, at[a] = "idle", a \in observers, valid[a]
               PROVE  mState /\ copy[a] = l2
    BY Zenon DEF NoStaleDestination
  <2>1. \A t \in Threads : at[t] # "notify"
    BY NeighbourAssumption, Zenon DEF IInv, Core, OwnerInv, Owning, Threads
  <2> QED
    BY <2>1, Zenon DEF IInv, CopyInv
<1>3. IInv => NothingAfterDelete
  BY ZenonT(30) DEF IInv, Core, DeletedInv, ObserveInv, NothingAfterDelete
<1> QED
  BY <1>1, <1>2, <1>3, AlwaysIInv, PTL DEF EntrySound
==============================================================================
