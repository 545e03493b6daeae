------------------------------- MODULE Netlink -------------------------------
(***************************************************************************)
(* The listener to the kernel's netlink messages (netlink_wrapper.cpp).    *)
(* The internal thread takes messages into libnl's caches under            *)
(* m_cache_lock and calls the observers under m_subj_map_lock; a timer     *)
(* refills the neighbour cache, because a message can be lost.             *)
(* Application threads look neighbours up, register and unregister.        *)
(* The observer of neighbour events is the neighbour table, which finds    *)
(* the entry under its own lock; an entry has a lock too, taken to handle  *)
(* an event and around the entry's lookups.                                *)
(***************************************************************************)
EXTENDS Naturals, Sequences, FiniteSets, TLAPS

CONSTANTS
  Nbrs,         \* neighbours; each may have an entry in the neighbour table
  MaxChanges,   \* bound on the kernel's changes of a neighbour
  SockRoom      \* messages the netlink socket holds

ASSUME NlAssumption == SockRoom \in Nat

VARIABLES
  kern,         \* the kernel's neighbour table: a version per neighbour
  msgs,         \* messages in the socket
  ncache,       \* m_cache_neigh
  cacheLock,    \* holder of m_cache_lock
  subjLock,     \* holder of m_subj_map_lock
  nbLock,       \* holder of the neighbour table's m_lock
  registered,   \* the neighbour table observes nlgrpNEIGH
  subs,         \* the entries of the neighbour table
  nl,           \* the internal thread: [pc, by, ev, rest]
  appl,         \* application thread of each entry
  told          \* the version each entry knows

nlVars == <<kern, msgs, ncache, cacheLock, subjLock, nbLock, registered, subs, nl, appl, told>>

Unheld == "free"
Internal == "internal"
NoEv == <<"none", 0>>

NlInit ==
  /\ kern = [n \in Nbrs |-> 0] /\ ncache = kern /\ told = kern
  /\ msgs = <<>> /\ cacheLock = Unheld /\ subjLock = Unheld /\ nbLock = Unheld
  /\ registered = FALSE /\ subs = {}
  /\ nl = [pc |-> "idle", by |-> "none", ev |-> NoEv, rest |-> {}]
  /\ appl = [n \in Nbrs |-> "out"]

-----------------------------------------------------------------------------
(* The kernel: a message that finds the socket full is lost.                *)
KernelChanges(n) ==
  /\ kern[n] < MaxChanges
  /\ kern' = [kern EXCEPT ![n] = @ + 1]
  /\ msgs' = IF Len(msgs) < SockRoom THEN Append(msgs, <<n, kern[n] + 1>>) ELSE msgs
  /\ UNCHANGED <<ncache, cacheLock, subjLock, nbLock, registered, subs, nl, appl, told>>

(* The internal thread                                                      *)
handle_events ==
  /\ nl.pc = "idle" /\ msgs # <<>> /\ cacheLock = Unheld
  /\ cacheLock' = Internal /\ nl' = [nl EXCEPT !.pc = "work", !.by = "socket"]
  /\ UNCHANGED <<kern, msgs, ncache, subjLock, nbLock, registered, subs, appl, told>>

\* nl_cache_mngr_data_ready: a message updates the cache, then the callback.
\* nl_msg_rcv_cb, neigh_cache_callback
data_ready ==
  /\ nl.pc = "work" /\ nl.by = "socket"
  /\ IF msgs = <<>>
     THEN nl' = [nl EXCEPT !.pc = "idle"] /\ cacheLock' = Unheld /\ UNCHANGED <<msgs, ncache>>
     ELSE /\ msgs' = Tail(msgs)
          /\ ncache' = [ncache EXCEPT ![Head(msgs)[1]] = Head(msgs)[2]]
          /\ nl' = [nl EXCEPT !.pc = "callback", !.ev = Head(msgs)]
          /\ UNCHANGED cacheLock
  /\ UNCHANGED <<kern, subjLock, nbLock, registered, subs, appl, told>>

(* Mutant: the timer notifies without asking the kernel.                    *)
NotifyOnly ==
  /\ nl.pc = "idle" /\ cacheLock = Unheld
  /\ cacheLock' = Internal /\ nl' = [nl EXCEPT !.pc = "work", !.by = "timer", !.rest = Nbrs]
  /\ UNCHANGED <<kern, msgs, ncache, subjLock, nbLock, registered, subs, appl, told>>

\* neigh_timer_expired: refill, then notify for every entry of the cache.
neigh_timer_expired ==
  /\ nl.pc = "idle" /\ cacheLock = Unheld
  /\ cacheLock' = Internal /\ ncache' = kern
  /\ nl' = [nl EXCEPT !.pc = "work", !.by = "timer", !.rest = Nbrs]
  /\ UNCHANGED <<kern, msgs, subjLock, nbLock, registered, subs, appl, told>>
notify_neigh_cache_entries ==
  /\ nl.pc = "work" /\ nl.by = "timer"
  /\ \/ /\ nl.rest = {} /\ nl' = [nl EXCEPT !.pc = "idle"] /\ cacheLock' = Unheld
     \/ \E n \in nl.rest : /\ nl' = [nl EXCEPT !.pc = "callback", !.ev = <<n, ncache[n]>>, !.rest = @ \ {n}]
                           /\ UNCHANGED cacheLock
  /\ UNCHANGED <<kern, msgs, ncache, subjLock, nbLock, registered, subs, appl, told>>

(* Mutant: the cache lock is kept while the observers are called.           *)
KeepCacheLock ==
  /\ nl.pc = "callback"
  /\ nl' = [nl EXCEPT !.pc = "subject"]
  /\ UNCHANGED <<kern, msgs, ncache, cacheLock, subjLock, nbLock, registered, subs, appl, told>>

\* notify_observers: release the cache, take the subjects, notify, and back.
UnlockCache ==
  /\ nl.pc = "callback"
  /\ nl' = [nl EXCEPT !.pc = "subject"] /\ cacheLock' = Unheld
  /\ UNCHANGED <<kern, msgs, ncache, subjLock, nbLock, registered, subs, appl, told>>
LockSubjects ==
  /\ nl.pc = "subject" /\ subjLock = Unheld
  /\ nl' = [nl EXCEPT !.pc = IF registered THEN "notify" ELSE "unlock"] /\ subjLock' = Internal
  /\ UNCHANGED <<kern, msgs, ncache, cacheLock, nbLock, registered, subs, appl, told>>

\* neigh_table_mgr::notify_cb: look the entry up under the table's lock.
notify_cb ==
  /\ nl.pc = "notify" /\ nbLock = Unheld
  /\ nl' = [nl EXCEPT !.pc = IF nl.ev[1] \in subs THEN "handle" ELSE "unlock"]
  /\ nbLock' = IF nl.ev[1] \in subs THEN Internal ELSE Unheld
  /\ UNCHANGED <<kern, msgs, ncache, cacheLock, subjLock, registered, subs, appl, told>>
\* handle_neigh_event, under the entry's lock
handle_neigh_event ==
  LET n == nl.ev[1] IN
  /\ nl.pc = "handle" /\ appl[n] \notin {"locked", "looked"}
  /\ told' = [told EXCEPT ![n] = nl.ev[2]]
  /\ nl' = [nl EXCEPT !.pc = "unlock"] /\ nbLock' = Unheld
  /\ UNCHANGED <<kern, msgs, ncache, cacheLock, subjLock, registered, subs, appl>>
UnlockSubjects ==
  /\ nl.pc = "unlock"
  /\ nl' = [nl EXCEPT !.pc = "relock"] /\ subjLock' = Unheld
  /\ UNCHANGED <<kern, msgs, ncache, cacheLock, nbLock, registered, subs, appl, told>>
LockCacheAgain ==
  /\ nl.pc = "relock" /\ cacheLock \in {Unheld, Internal}
  /\ nl' = [nl EXCEPT !.pc = "work", !.ev = NoEv] /\ cacheLock' = Internal
  /\ UNCHANGED <<kern, msgs, ncache, subjLock, nbLock, registered, subs, appl, told>>

-----------------------------------------------------------------------------
(* The application thread that works with entry n.                          *)
\* neigh_table_mgr::register_observer: an empty table registers with netlink
\* first; then the entry is made under the table's lock.
register_event(n) ==
  /\ appl[n] = "out" /\ (subs = {} => subjLock = Unheld)
  /\ registered' = (registered \/ subs = {})
  /\ appl' = [appl EXCEPT ![n] = "registering"]
  /\ UNCHANGED <<kern, msgs, ncache, cacheLock, subjLock, nbLock, subs, nl, told>>
AddEntry(n) ==
  /\ appl[n] = "registering" /\ nbLock = Unheld
  /\ subs' = subs \cup {n} /\ appl' = [appl EXCEPT ![n] = "in"]
  /\ told' = [told EXCEPT ![n] = 0]
  /\ UNCHANGED <<kern, msgs, ncache, cacheLock, subjLock, nbLock, registered, nl>>
LockEntry(n) ==
  /\ appl[n] = "in"
  /\ appl' = [appl EXCEPT ![n] = "locked"]
  /\ UNCHANGED <<kern, msgs, ncache, cacheLock, subjLock, nbLock, registered, subs, nl, told>>
\* get_neigh copies what the cache holds under m_cache_lock.
get_neigh(n) ==
  /\ appl[n] = "locked" /\ cacheLock = Unheld
  /\ told' = [told EXCEPT ![n] = ncache[n]]
  /\ appl' = [appl EXCEPT ![n] = "looked"]
  /\ UNCHANGED <<kern, msgs, ncache, cacheLock, subjLock, nbLock, registered, subs, nl>>
UnlockEntry(n) ==
  /\ appl[n] = "looked"
  /\ appl' = [appl EXCEPT ![n] = "in"]
  /\ UNCHANGED <<kern, msgs, ncache, cacheLock, subjLock, nbLock, registered, subs, nl, told>>
RemoveEntry(n) ==
  /\ appl[n] = "in" /\ nbLock = Unheld
  /\ subs' = subs \ {n} /\ appl' = [appl EXCEPT ![n] = "out"]
  /\ UNCHANGED <<kern, msgs, ncache, cacheLock, subjLock, nbLock, registered, nl, told>>

InternalStep ==
  \/ handle_events \/ data_ready \/ notify_neigh_cache_entries
  \/ UnlockCache \/ LockSubjects \/ notify_cb \/ handle_neigh_event \/ UnlockSubjects \/ LockCacheAgain
AppStep(n) == AddEntry(n) \/ get_neigh(n) \/ UnlockEntry(n)

NlNext ==
  \/ InternalStep \/ neigh_timer_expired
  \/ \E n \in Nbrs : \/ KernelChanges(n) \/ AppStep(n) \/ register_event(n)
                     \/ LockEntry(n) \/ RemoveEntry(n)

NlSpec ==
  /\ NlInit /\ [][NlNext]_nlVars
  /\ SF_nlVars(InternalStep) /\ SF_nlVars(neigh_timer_expired)
  /\ \A n \in Nbrs : SF_nlVars(AppStep(n))

-----------------------------------------------------------------------------
NlTypeOK ==
  /\ cacheLock \in {Unheld, Internal} /\ subjLock \in {Unheld, Internal}
  /\ subs \subseteq Nbrs /\ Len(msgs) <= SockRoom
  /\ \A n \in Nbrs : told[n] <= kern[n] /\ ncache[n] <= kern[n]

(* The internal thread never waits for an entry whose thread waits for the   *)
(* cache lock the internal thread holds, and the entry it handles an event   *)
(* for is still in the table.                                                *)
NetlinkSafe ==
  nl.pc = "handle" =>
    /\ nl.ev[1] \in subs
    /\ ~(appl[nl.ev[1]] = "locked" /\ cacheLock = Internal)

(* Once the kernel's neighbour stays the same, a registered entry ends up    *)
(* knowing it, also when the message was lost because the socket was full.   *)
KernelIsTold ==
  \A n \in Nbrs : <>[](n \in subs) => []<>(told[n] = kern[n])

------------------------------------------------------------------------------
(* Proofs, for any number of neighbours, versions and any room in the      *)
(* socket.                                                                 *)

(* The locks follow the internal thread: it holds m_cache_lock only while   *)
(* it works on the caches, m_subj_map_lock only around the observers, and   *)
(* the neighbour table's lock only while an entry handles an event, which   *)
(* is therefore still in the table.                                         *)
LockInv ==
  /\ nl \in [pc : {"idle", "work", "callback", "subject", "notify", "handle", "unlock", "relock"},
             by : {"none", "socket", "timer"}, ev : {NoEv} \cup (Nbrs \X Nat), rest : SUBSET Nbrs]
  /\ cacheLock = IF nl.pc \in {"work", "callback"} THEN Internal ELSE Unheld
  /\ subjLock = IF nl.pc \in {"notify", "handle", "unlock"} THEN Internal ELSE Unheld
  /\ nbLock = IF nl.pc = "handle" THEN Internal ELSE Unheld
  /\ subs \subseteq Nbrs /\ (nl.pc = "handle" => nl.ev[1] \in subs)

(* A message, or an event, of a version that the kernel has or had.         *)
Past(m) == m \in Nbrs \X Nat /\ m[2] <= kern[m[1]]

(* Nobody is ahead of the kernel: not the cache, not an entry, not a        *)
(* message in the socket, not the event on its way to an observer.          *)
VersionInv ==
  /\ kern \in [Nbrs -> Nat] /\ ncache \in [Nbrs -> Nat] /\ told \in [Nbrs -> Nat]
  /\ \A n \in Nbrs : told[n] <= kern[n] /\ ncache[n] <= kern[n]
  /\ msgs \in Seq(Nbrs \X Nat) /\ Len(msgs) <= SockRoom
  /\ \A i \in 1..Len(msgs) : Past(msgs[i])
  /\ nl.pc \in {"callback", "subject", "notify", "handle", "unlock"} => Past(nl.ev)

(* What the first element and the rest of a sequence are.                   *)
LEMMA TailFacts ==
  ASSUME NEW S, NEW q \in Seq(S), q # <<>>
  PROVE  /\ Head(q) = q[1] /\ Head(q) \in S /\ 1 \in 1..Len(q)
         /\ Tail(q) \in Seq(S) /\ Len(Tail(q)) = Len(q) - 1
         /\ \A i \in 1..Len(Tail(q)) : Tail(q)[i] = q[i + 1] /\ i + 1 \in 1..Len(q)
OBVIOUS

(* Every step keeps the locks with the internal thread.                     *)
LEMMA LockStep == LockInv /\ VersionInv /\ [NlNext]_nlVars => LockInv'
<1> SUFFICES ASSUME LockInv, VersionInv, [NlNext]_nlVars PROVE LockInv'
  OBVIOUS
<1> USE DEF nlVars, Unheld, Internal
<1>1. CASE handle_events
  BY <1>1 DEF handle_events, LockInv
<1>2. CASE data_ready
  <2>1. msgs # <<>> => Head(msgs) \in Nbrs \X Nat
    BY DEF VersionInv
  <2> QED
    BY <1>2, <2>1, ZenonT(30) DEF data_ready, LockInv
<1>3. CASE notify_neigh_cache_entries
  <2>1. \A n \in nl.rest : <<n, ncache[n]>> \in Nbrs \X Nat
    BY DEF LockInv, VersionInv
  <2> QED
    BY <1>3, <2>1 DEF notify_neigh_cache_entries, LockInv
<1>4. CASE UnlockCache
  BY <1>4 DEF UnlockCache, LockInv
<1>5. CASE LockSubjects
  BY <1>5 DEF LockSubjects, LockInv
<1>6. CASE notify_cb
  BY <1>6 DEF notify_cb, LockInv
<1>7. CASE handle_neigh_event
  BY <1>7 DEF handle_neigh_event, LockInv
<1>8. CASE UnlockSubjects
  BY <1>8 DEF UnlockSubjects, LockInv
<1>9. CASE LockCacheAgain
  BY <1>9 DEF LockCacheAgain, LockInv
<1>10. CASE neigh_timer_expired
  BY <1>10 DEF neigh_timer_expired, LockInv
<1>11. ASSUME NEW n \in Nbrs, KernelChanges(n) \/ register_event(n) \/ LockEntry(n) \/ get_neigh(n) \/ UnlockEntry(n)
       PROVE  LockInv'
  BY <1>11 DEF KernelChanges, register_event, LockEntry, get_neigh, UnlockEntry, LockInv
<1>12. ASSUME NEW n \in Nbrs, AddEntry(n) PROVE LockInv'
  BY <1>12 DEF AddEntry, LockInv
<1>13. ASSUME NEW n \in Nbrs, RemoveEntry(n) PROVE LockInv'
  BY <1>13 DEF RemoveEntry, LockInv
<1>14. CASE UNCHANGED nlVars
  BY <1>14 DEF LockInv
<1> QED
  BY <1>1, <1>2, <1>3, <1>4, <1>5, <1>6, <1>7, <1>8, <1>9, <1>10, <1>11, <1>12, <1>13, <1>14
     DEF NlNext, InternalStep, AppStep

(* Every step leaves the kernel ahead of everybody.                         *)
LEMMA VersionStep == LockInv /\ VersionInv /\ [NlNext]_nlVars => VersionInv'
<1> SUFFICES ASSUME LockInv, VersionInv, [NlNext]_nlVars PROVE VersionInv'
  OBVIOUS
<1> USE NlAssumption DEF nlVars
<1>0. ASSUME kern' = kern PROVE \A m : Past(m)' <=> Past(m)
  BY <1>0 DEF Past
<1>1. ASSUME NEW n \in Nbrs, KernelChanges(n) PROVE VersionInv'
  <2>1. /\ kern' = [kern EXCEPT ![n] = @ + 1] /\ UNCHANGED <<ncache, told, nl>>
        /\ msgs' = IF Len(msgs) < SockRoom THEN Append(msgs, <<n, kern[n] + 1>>) ELSE msgs
    BY <1>1 DEF KernelChanges
  <2>2. kern' \in [Nbrs -> Nat] /\ kern'[n] = kern[n] + 1 /\ \A m \in Nbrs : m # n => kern'[m] = kern[m]
    BY <2>1 DEF VersionInv
  <2>3. ASSUME NEW m \in Nbrs, NEW v \in Nat, v <= kern[m] PROVE v <= kern'[m]
    <3>1. PICK k \in Nat : k = kern[m]
      BY DEF VersionInv
    <3>2. v <= k /\ v <= k + 1
      BY <2>3, <3>1
    <3> QED
      BY <2>2, <3>1, <3>2
  <2>4. ASSUME NEW m, Past(m) PROVE Past(m)'
    BY <2>3, <2>4 DEF Past
  <2>6. <<n, kern[n] + 1>> \in Nbrs \X Nat
    BY DEF VersionInv
  <2>7. /\ msgs' \in Seq(Nbrs \X Nat) /\ Len(msgs') <= SockRoom
        /\ \A i \in 1..Len(msgs') : Past(msgs[i])'
    <3>1. CASE Len(msgs) < SockRoom
      <4> DEFINE x == <<n, kern[n] + 1>>
      <4>1. msgs' = Append(msgs, x) /\ msgs \in Seq(Nbrs \X Nat) /\ x \in Nbrs \X Nat
        BY <2>1, <2>6, <3>1 DEF VersionInv
      <4>6. x[1] = n /\ x[2] = kern'[n] /\ kern'[n] <= kern'[n]
        BY <2>2
      <4> HIDE DEF x
      <4>2. Len(msgs') = Len(msgs) + 1 /\ msgs' \in Seq(Nbrs \X Nat) /\ Len(msgs) \in Nat
        BY <4>1
      <4>3. \A i \in 1..Len(msgs') : IF i = Len(msgs) + 1 THEN msgs'[i] = x ELSE i \in 1..Len(msgs) /\ msgs'[i] = msgs[i]
        BY <4>1, <4>2
      <4>4. \A i \in 1..Len(msgs) : Past(msgs[i])
        BY DEF VersionInv
      <4>5. ASSUME NEW i \in 1..Len(msgs') PROVE Past(msgs[i])'
        <5>1. CASE i = Len(msgs) + 1
          BY <4>1, <4>3, <4>6, <5>1 DEF Past
        <5>2. CASE i # Len(msgs) + 1
          BY <2>3, <4>3, <4>4, <5>2 DEF Past
        <5> QED
          BY <5>1, <5>2
      <4> QED
        BY <3>1, <4>2, <4>5
    <3>2. CASE ~(Len(msgs) < SockRoom)
      <4>1. msgs' = msgs
        BY <2>1, <3>2
      <4> QED
        BY <2>4, <4>1, ZenonT(30) DEF VersionInv, Past
    <3> QED
      BY <3>1, <3>2
  <2>8. \A m \in Nbrs : told'[m] <= kern'[m] /\ ncache'[m] <= kern'[m]
    BY <2>1, <2>3 DEF VersionInv
  <2>9. nl.pc \in {"callback", "subject", "notify", "handle", "unlock"} => Past(nl.ev)'
    BY <2>1, <2>3 DEF VersionInv, Past
  <2> QED
    BY <2>1, <2>2, <2>7, <2>8, <2>9 DEF VersionInv
<1>2. CASE data_ready
  <2>1. CASE msgs = <<>>
    BY <1>2, <2>1, <1>0 DEF data_ready, VersionInv, LockInv
  <2>2. CASE msgs # <<>>
    <3>1. /\ Head(msgs) = msgs[1] /\ Head(msgs) \in Nbrs \X Nat /\ 1 \in 1..Len(msgs)
          /\ Tail(msgs) \in Seq(Nbrs \X Nat) /\ Len(Tail(msgs)) = Len(msgs) - 1
          /\ \A i \in 1..Len(Tail(msgs)) : Tail(msgs)[i] = msgs[i + 1] /\ i + 1 \in 1..Len(msgs)
      BY <2>2, TailFacts DEF VersionInv
    <3>2. /\ msgs' = Tail(msgs) /\ ncache' = [ncache EXCEPT ![Head(msgs)[1]] = Head(msgs)[2]]
          /\ nl'.pc = "callback" /\ nl'.ev = Head(msgs) /\ kern' = kern /\ told' = told
      BY <1>2, <2>2, ZenonT(30) DEF data_ready, LockInv
    <3>3. \A i \in 1..Len(msgs) : Past(msgs[i])
      BY DEF VersionInv
    <3>4. ncache' \in [Nbrs -> Nat] /\ \A n \in Nbrs : ncache'[n] <= kern[n]
      BY <3>1, <3>2, <3>3 DEF VersionInv, Past
    <3>5. \A i \in 1..Len(msgs') : Past(msgs'[i])
      BY <3>1, <3>2, <3>3
    <3>6. Past(nl'.ev)
      BY <3>1, <3>2, <3>3
    <3>7. Len(msgs) \in Nat /\ Len(msgs) <= SockRoom
      BY DEF VersionInv
    <3>8. Len(msgs') <= SockRoom
      <4>1. PICK l \in Nat : l = Len(msgs) /\ l <= SockRoom
        BY <3>7
      <4>2. l - 1 <= SockRoom
        BY <4>1
      <4> QED
        BY <3>1, <3>2, <4>1, <4>2
    <3> QED
      BY <3>1, <3>2, <3>4, <3>5, <3>6, <3>8 DEF VersionInv, Past
  <2> QED
    BY <2>1, <2>2
<1>3. CASE notify_neigh_cache_entries
  <2>1. \A n \in nl.rest : Past(<<n, ncache[n]>>)
    BY DEF LockInv, VersionInv, Past
  <2>2. UNCHANGED <<kern, msgs, ncache, told>> /\ (nl'.pc = "idle" \/ \E n \in nl.rest : nl'.ev = <<n, ncache[n]>>)
    BY <1>3 DEF notify_neigh_cache_entries, LockInv
  <2> QED
    BY <2>1, <2>2 DEF VersionInv, Past
<1>4. CASE handle_events \/ UnlockCache \/ LockSubjects \/ notify_cb \/ UnlockSubjects \/ LockCacheAgain
  <2>1. /\ UNCHANGED <<kern, msgs, ncache, told>>
        /\ nl'.pc \in {"callback", "subject", "notify", "handle", "unlock"} =>
             nl'.ev = nl.ev /\ nl.pc \in {"callback", "subject", "notify", "handle", "unlock"}
    BY <1>4 DEF handle_events, UnlockCache, LockSubjects, notify_cb, UnlockSubjects, LockCacheAgain, LockInv
  <2> QED
    BY <2>1 DEF VersionInv, Past
<1>5. CASE handle_neigh_event
  <2>1. /\ UNCHANGED <<kern, msgs, ncache>> /\ told' = [told EXCEPT ![nl.ev[1]] = nl.ev[2]]
        /\ nl.pc = "handle" /\ nl'.ev = nl.ev
    BY <1>5 DEF handle_neigh_event, LockInv
  <2>2. told' \in [Nbrs -> Nat] /\ \A n \in Nbrs : told'[n] <= kern[n]
    BY <2>1 DEF VersionInv, Past
  <2> QED
    BY <2>1, <2>2 DEF VersionInv, Past
<1>6. CASE neigh_timer_expired
  <2>1. UNCHANGED <<kern, msgs, told>> /\ ncache' = kern /\ nl'.pc = "work"
    BY <1>6 DEF neigh_timer_expired, LockInv
  <2>2. \A n \in Nbrs : kern[n] <= kern[n]
    BY DEF VersionInv
  <2> QED
    BY <2>1, <2>2 DEF VersionInv, Past
<1>7. ASSUME NEW n \in Nbrs, register_event(n) \/ LockEntry(n) \/ UnlockEntry(n) \/ RemoveEntry(n) PROVE VersionInv'
  <2>1. UNCHANGED <<kern, msgs, ncache, nl, told>>
    BY <1>7 DEF register_event, LockEntry, UnlockEntry, RemoveEntry
  <2> QED
    BY <2>1 DEF VersionInv, Past
<1>8. ASSUME NEW n \in Nbrs, AddEntry(n) \/ get_neigh(n) PROVE VersionInv'
  <2>1. UNCHANGED <<kern, msgs, ncache, nl>> /\ (told' = [told EXCEPT ![n] = 0] \/ told' = [told EXCEPT ![n] = ncache[n]])
    BY <1>8 DEF AddEntry, get_neigh
  <2>2. told' \in [Nbrs -> Nat] /\ \A m \in Nbrs : told'[m] <= kern[m]
    <3>1. \A m \in Nbrs : 0 <= kern[m] /\ ncache[m] <= kern[m] /\ told[m] <= kern[m]
      BY DEF VersionInv
    <3>2. CASE told' = [told EXCEPT ![n] = 0]
      BY <3>1, <3>2 DEF VersionInv
    <3>3. CASE told' = [told EXCEPT ![n] = ncache[n]]
      BY <3>1, <3>3 DEF VersionInv
    <3> QED
      BY <2>1, <3>2, <3>3
  <2> QED
    BY <2>1, <2>2 DEF VersionInv, Past
<1>9. CASE UNCHANGED nlVars
  BY <1>9 DEF VersionInv, Past
<1> QED
  BY <1>1, <1>2, <1>3, <1>4, <1>5, <1>6, <1>7, <1>8, <1>9 DEF NlNext, InternalStep, AppStep

(* Both invariants hold from the start and at every step.                   *)
LEMMA NetlinkInv == NlSpec => [](LockInv /\ VersionInv)
<1>1. NlInit => LockInv /\ VersionInv
  <2> SUFFICES ASSUME NlInit PROVE LockInv /\ VersionInv
    OBVIOUS
  <2>1. LockInv
    BY DEF NlInit, LockInv, Unheld, Internal
  <2>6. <<>> \in Seq(Nbrs \X Nat) /\ Len(<<>>) = 0
    OBVIOUS
  <2>2. msgs \in Seq(Nbrs \X Nat) /\ Len(msgs) = 0
    BY <2>6 DEF NlInit
  <2>3. \A i \in 1..Len(msgs) : FALSE
    BY <2>2
  <2>4. /\ kern \in [Nbrs -> Nat] /\ ncache \in [Nbrs -> Nat] /\ told \in [Nbrs -> Nat]
        /\ \A n \in Nbrs : told[n] <= kern[n] /\ ncache[n] <= kern[n]
    <3>1. kern = [n \in Nbrs |-> 0] /\ ncache = kern /\ told = kern
      BY DEF NlInit
    <3>2. kern \in [Nbrs -> Nat] /\ \A n \in Nbrs : kern[n] = 0
      BY <3>1
    <3>3. \A n \in Nbrs : kern[n] <= kern[n]
      BY <3>2
    <3> QED
      BY <3>1, <3>2, <3>3
  <2>5. nl.pc = "idle"
    BY DEF NlInit
  <2> QED
    BY <2>1, <2>2, <2>3, <2>4, <2>5, NlAssumption DEF VersionInv
<1>2. (LockInv /\ VersionInv) /\ [NlNext]_nlVars => (LockInv /\ VersionInv)'
  BY LockStep, VersionStep
<1> QED
  BY <1>1, <1>2, PTL DEF NlSpec

(* The thread that delivers a netlink event never waits for an entry whose  *)
(* thread waits for the cache, and never handles an event for an entry that *)
(* left the table: for any number of neighbours and any size of the socket. *)
THEOREM NetlinkIsSafe == NlSpec => []NetlinkSafe
<1>1. LockInv /\ VersionInv => NetlinkSafe
  BY DEF LockInv, NetlinkSafe, Unheld, Internal
<1> QED
  BY <1>1, NetlinkInv, PTL

(* Neither the cache nor an entry ever knows a version of a neighbour that  *)
(* the kernel did not have, and the types hold.                             *)
THEOREM NetlinkTypes == NlSpec => []NlTypeOK
<1>1. LockInv /\ VersionInv => NlTypeOK
  BY DEF LockInv, VersionInv, NlTypeOK, Unheld, Internal
<1> QED
  BY <1>1, NetlinkInv, PTL

==============================================================================
