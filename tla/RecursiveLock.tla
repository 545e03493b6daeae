--------------------------- MODULE RecursiveLock ---------------------------
(***************************************************************************)
(* lock_spin_recursive: a spin lock that its owner may take again.  Its    *)
(* owner and depth are plain members: m_owner is read by every thread that *)
(* calls lock or trylock, without any synchronisation.  Each statement is  *)
(* a step of its own.  The pthread spin lock is external.                  *)
(***************************************************************************)
EXTENDS Naturals, TLAPS

CONSTANTS LThreads,   \* the threads
          NoOwner,    \* m_invalid_owner
          MaxNest     \* Bound: how deep a thread nests its calls

ASSUME RecursiveLockAssumption == NoOwner \notin LThreads /\ MaxNest \in Nat

VARIABLES m_lock,       \* the pthread spin lock is held
          m_owner,
          m_lock_count,
          lpc,          \* the next statement of each thread
          nest          \* calls of lock that returned and have no unlock yet

lockVars == <<m_lock, m_owner, m_lock_count, lpc, nest>>

LockInit == /\ m_lock = FALSE /\ m_owner = NoOwner /\ m_lock_count = 0
            /\ lpc = [t \in LThreads |-> "idle"]
            /\ nest = [t \in LThreads |-> 0]

---------------------------------------------------------------------------
\* lock and trylock begin with "if (m_owner == self)".
CallLock(t) ==
    /\ lpc[t] = "idle" /\ nest[t] < MaxNest
    /\ \/ lpc' = [lpc EXCEPT ![t] = IF m_owner = t THEN "again" ELSE "spin"]
       \/ lpc' = [lpc EXCEPT ![t] = IF m_owner = t THEN "again" ELSE "try"]
    /\ UNCHANGED <<m_lock, m_owner, m_lock_count, nest>>

\* The owner only counts.
LockAgain(t) ==
    /\ lpc[t] = "again"
    /\ m_lock_count' = m_lock_count + 1
    /\ nest' = [nest EXCEPT ![t] = @ + 1]
    /\ lpc' = [lpc EXCEPT ![t] = "idle"]
    /\ UNCHANGED <<m_lock, m_owner>>

\* lock_spin::lock waits for the spin lock, lock_spin::trylock does not.
Acquire(t) ==
    /\ lpc[t] \in {"spin", "try"} /\ ~m_lock
    /\ m_lock' = TRUE
    /\ lpc' = [lpc EXCEPT ![t] = "count"]
    /\ UNCHANGED <<m_owner, m_lock_count, nest>>

TryFails(t) ==
    /\ lpc[t] = "try" /\ m_lock
    /\ lpc' = [lpc EXCEPT ![t] = "idle"]
    /\ UNCHANGED <<m_lock, m_owner, m_lock_count, nest>>

Count(t) ==
    /\ lpc[t] = "count"
    /\ m_lock_count' = m_lock_count + 1
    /\ lpc' = [lpc EXCEPT ![t] = "own"]
    /\ UNCHANGED <<m_lock, m_owner, nest>>

Own(t) ==
    /\ lpc[t] = "own"
    /\ m_owner' = t
    /\ nest' = [nest EXCEPT ![t] = @ + 1]
    /\ lpc' = [lpc EXCEPT ![t] = "idle"]
    /\ UNCHANGED <<m_lock, m_lock_count>>

\* unlock of a thread that called lock: "if (--m_lock_count == 0)".
CallUnlock(t) ==
    /\ lpc[t] = "idle" /\ nest[t] > 0
    /\ m_lock_count' = m_lock_count - 1
    /\ nest' = [nest EXCEPT ![t] = @ - 1]
    /\ lpc' = [lpc EXCEPT ![t] = IF m_lock_count' = 0 THEN "disown" ELSE "idle"]
    /\ UNCHANGED <<m_lock, m_owner>>

(* Mutant: the owner stays noted when the lock is released.                *)
KeepOwner(t) ==
    /\ lpc[t] = "disown"
    /\ m_owner' = m_owner
    /\ lpc' = [lpc EXCEPT ![t] = "release"]
    /\ UNCHANGED <<m_lock, m_lock_count, nest>>

Disown(t) ==
    /\ lpc[t] = "disown"
    /\ m_owner' = NoOwner
    /\ lpc' = [lpc EXCEPT ![t] = "release"]
    /\ UNCHANGED <<m_lock, m_lock_count, nest>>

Release(t) ==
    /\ lpc[t] = "release"
    /\ m_lock' = FALSE
    /\ lpc' = [lpc EXCEPT ![t] = "idle"]
    /\ UNCHANGED <<m_owner, m_lock_count, nest>>

Step(t) == \/ CallLock(t) \/ LockAgain(t) \/ Acquire(t) \/ TryFails(t) \/ Count(t)
           \/ Own(t) \/ CallUnlock(t) \/ Disown(t) \/ Release(t)

LockNext == \E t \in LThreads : Step(t)

LockSpec == LockInit /\ [][LockNext]_lockVars

---------------------------------------------------------------------------
(* The members of the lock and the statements the threads are at.          *)
LockTypeOK ==
    /\ m_lock \in BOOLEAN
    /\ m_owner \in LThreads \cup {NoOwner}
    /\ m_lock_count \in Nat
    /\ lpc \in [LThreads -> {"idle", "again", "spin", "try", "count", "own", "disown", "release"}]
    /\ nest \in [LThreads -> Nat]

\* Between the return of its first lock and the return of its last unlock.
Holds(t) == nest[t] > 0 \/ lpc[t] \in {"again", "count", "own", "disown", "release"}

(* Two threads are never inside the lock together, nested calls counted:   *)
(* the unsynchronised test "m_owner == self" never lets a thread in, or    *)
(* count, while another one holds the lock, is taking it or is releasing   *)
(* it; and the depth that is counted is that of the calls to undo.         *)
RecursiveExclusion ==
    /\ \A t, u \in LThreads : Holds(t) /\ Holds(u) => t = u
    /\ \A t \in LThreads : nest[t] > 0 => m_lock_count = nest[t] /\ m_owner = t

---------------------------------------------------------------------------
\* What makes it inductive: the spin lock is held exactly while some thread
\* is inside, and owner and depth are those of that thread's statement.
LockInv ==
    /\ LockTypeOK
    /\ RecursiveExclusion
    /\ m_lock <=> \E t \in LThreads : Holds(t)
    /\ (\A t \in LThreads : ~Holds(t)) => m_lock_count = 0 /\ m_owner = NoOwner
    /\ \A t \in LThreads :
          /\ lpc[t] = "again" => nest[t] > 0
          /\ lpc[t] \in {"count", "own", "disown", "release"} => nest[t] = 0
          /\ lpc[t] = "count" => m_lock_count = 0 /\ m_owner = NoOwner
          /\ lpc[t] = "own" => m_lock_count = 1 /\ m_owner = NoOwner
          /\ lpc[t] = "disown" => m_lock_count = 0 /\ m_owner = t
          /\ lpc[t] = "release" => m_lock_count = 0 /\ m_owner = NoOwner
          /\ lpc[t] \in {"spin", "try"} => nest[t] = 0

---------------------------------------------------------------------------
(* The lock starts free.                                                   *)
LEMMA LockInvInit == LockInit => LockInv
<1> SUFFICES ASSUME LockInit PROVE LockInv
  OBVIOUS
<1>1. LockTypeOK
  BY DEF LockInit, LockTypeOK
<1>2. \A t \in LThreads : lpc[t] = "idle" /\ nest[t] = 0 /\ ~Holds(t)
  <2> TAKE t \in LThreads
  <2>1. lpc[t] = "idle" /\ nest[t] = 0
    BY DEF LockInit
  <2> QED
    BY <2>1 DEF Holds
<1>3. RecursiveExclusion
  BY <1>2 DEF RecursiveExclusion
<1>4. m_lock <=> \E t \in LThreads : Holds(t)
  BY <1>2 DEF LockInit
<1> QED
  BY <1>1, <1>2, <1>3, <1>4 DEF LockInit, LockInv

(* Every statement of lock, trylock and unlock preserves the invariant.    *)
LEMMA LockInvStep == LockInv /\ [LockNext]_lockVars => LockInv'
<1> SUFFICES ASSUME LockInv, [LockNext]_lockVars PROVE LockInv'
  OBVIOUS
<1> USE RecursiveLockAssumption
<1>1. CASE UNCHANGED lockVars
  BY <1>1 DEF LockInv, LockTypeOK, RecursiveExclusion, Holds, lockVars
<1>2. ASSUME NEW t \in LThreads, CallLock(t) PROVE LockInv'
  BY <1>2 DEF CallLock, LockInv, LockTypeOK, RecursiveExclusion, Holds
<1>3. ASSUME NEW t \in LThreads, LockAgain(t) PROVE LockInv'
  BY <1>3 DEF LockAgain, LockInv, LockTypeOK, RecursiveExclusion, Holds
<1>4. ASSUME NEW t \in LThreads, Acquire(t) PROVE LockInv'
  BY <1>4 DEF Acquire, LockInv, LockTypeOK, RecursiveExclusion, Holds
<1>5. ASSUME NEW t \in LThreads, TryFails(t) PROVE LockInv'
  BY <1>5 DEF TryFails, LockInv, LockTypeOK, RecursiveExclusion, Holds
<1>6. ASSUME NEW t \in LThreads, Count(t) PROVE LockInv'
  BY <1>6 DEF Count, LockInv, LockTypeOK, RecursiveExclusion, Holds
<1>7. ASSUME NEW t \in LThreads, Own(t) PROVE LockInv'
  BY <1>7 DEF Own, LockInv, LockTypeOK, RecursiveExclusion, Holds
<1>8. ASSUME NEW t \in LThreads, CallUnlock(t) PROVE LockInv'
  BY <1>8 DEF CallUnlock, LockInv, LockTypeOK, RecursiveExclusion, Holds
<1>9. ASSUME NEW t \in LThreads, Disown(t) PROVE LockInv'
  BY <1>9 DEF Disown, LockInv, LockTypeOK, RecursiveExclusion, Holds
<1>10. ASSUME NEW t \in LThreads, Release(t) PROVE LockInv'
  BY <1>10 DEF Release, LockInv, LockTypeOK, RecursiveExclusion, Holds
<1> QED
  BY <1>1, <1>2, <1>3, <1>4, <1>5, <1>6, <1>7, <1>8, <1>9, <1>10 DEF LockNext, Step

(* lock_spin_recursive: two threads are never inside the lock together,    *)
(* and m_lock_count and m_owner are those of the thread inside.            *)
THEOREM RecursiveLockExcludes == LockSpec => []RecursiveExclusion
<1>1. LockInv => RecursiveExclusion
  BY DEF LockInv
<1> QED
  BY <1>1, LockInvInit, LockInvStep, PTL DEF LockSpec
=============================================================================
