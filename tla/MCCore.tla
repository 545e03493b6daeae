------------------------------- MODULE MCCore -------------------------------
(***************************************************************************)
(* Instances for TLC of the internal thread (evh), the recursive spin lock *)
(* (lock) and the daemon's hash table (hash).  A behaviour explores one of *)
(* them, the subject; the others keep their initial state.                 *)
(***************************************************************************)
EXTENDS EventHandlerManager, RecursiveLock, DaemonHash

VARIABLE subject

MCInit == subject \in {"evh", "lock", "hash"} /\ Init /\ LockInit /\ HashInit
MCNext ==
  \/ subject = "evh" /\ Next /\ UNCHANGED <<subject, lockVars, hashVars>>
  \/ subject = "lock" /\ LockNext /\ UNCHANGED <<subject, vars, hashVars>>
  \/ subject = "hash" /\ HashNext /\ UNCHANGED <<subject, vars, lockVars>>
MCFairSpec == MCInit /\ [][MCNext]_<<subject, vars, lockVars, hashVars>> /\ Fairness

(* EventHandlerManager: the internal thread deletes every object whose     *)
(* deletion was posted, and a thread in stop_thread returns.               *)
CallersAreServed == DeleteHappens /\ StopReturns
=============================================================================
