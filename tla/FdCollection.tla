---------------------------- MODULE FdCollection ----------------------------
(***************************************************************************)
(* The descriptors of the process: the kernel's table, the library's maps  *)
(* from descriptors to objects (fd_collection) and the intercepted calls   *)
(* that open, close, duplicate and use descriptors (sock-redirect), by     *)
(* several threads.  The C library may close a descriptor behind the       *)
(* library's back (fclose and the like).  An object has the number of the  *)
(* kernel file it was made for.                                            *)
(***************************************************************************)
EXTENDS Integers, FiniteSets, Sequences, FiniteSetsExt

CONSTANTS
  Threads,
  FdSpace,      \* descriptors
  MaxFiles,     \* bound: files opened
  Calls,        \* calls that open: subset of {"udp", "tcp", "epoll", "open", "dupfd", "dup2"}
  CloseOnDup2,  \* safe_mce_sys().close_on_dup2
  OffloadRule   \* offloaded_sockets

Files == 1..MaxFiles
NoFile == 0

VARIABLES
  kfd,          \* the kernel: descriptor -> file
  sockMap,      \* m_p_sockfd_map
  epfdMap,      \* m_p_epfd_map
  kindOf,       \* file -> "udp", "tcp", "epoll", "open" or "none"
  life,         \* file -> "none", "live", "pending" (m_pendig_to_remove_lst), "freed"
  sets,         \* epoll object -> objects in it
  timers,       \* registrations of the collection's timer
  opposite,     \* m_offload_thread_rule
  thr           \* what each thread is doing

fdVars == <<kfd, sockMap, epfdMap, kindOf, life, sets, timers, opposite, thr>>

Resting == [at |-> "idle"]

FdInit ==
  /\ kfd = [f \in FdSpace |-> NoFile] /\ sockMap = kfd /\ epfdMap = kfd
  /\ kindOf = [i \in Files |-> "none"] /\ life = [i \in Files |-> "none"] /\ sets = [i \in Files |-> {}]
  /\ timers = 0 /\ opposite = {} /\ thr = [t \in Threads |-> Resting]

Used == {i \in Files : kindOf[i] # "none"}
FreeFds == {f \in FdSpace : kfd[f] = NoFile}
Busy(f) == \E t \in Threads : thr[t].at # "idle" /\ thr[t].at # "using" /\ thr[t].fd = f
Goes(t, r) == thr' = [thr EXCEPT ![t] = r]

-----------------------------------------------------------------------------

(* A call that returns a new descriptor: the kernel gives the lowest free  *)
(* one, then the library removes what it still has under that number.      *)
(* fcntl(F_DUPFD) closes its argument instead.                             *)
Opens(t, call) ==
  /\ thr[t] = Resting /\ FreeFds # {} /\ Cardinality(Used) < MaxFiles
  /\ LET f == Min(FreeFds)
         i == Cardinality(Used) + 1
     IN /\ ~Busy(f)
        /\ kfd' = [kfd EXCEPT ![f] = i]
        /\ kindOf' = [kindOf EXCEPT ![i] = call]
        /\ Goes(t, [at |-> "epolls", fd |-> f, then |-> "add", pass |-> FALSE])
  /\ UNCHANGED <<sockMap, epfdMap, life, sets, timers, opposite>>

DupFd(t, old) ==
  /\ "dupfd" \in Calls /\ thr[t] = Resting /\ FreeFds # {} /\ Cardinality(Used) < MaxFiles
  /\ kfd[old] # NoFile /\ ~Busy(old)
  /\ LET f == Min(FreeFds)
         i == Cardinality(Used) + 1
     IN /\ kfd' = [kfd EXCEPT ![f] = i]
        /\ kindOf' = [kindOf EXCEPT ![i] = "open"]
        /\ Goes(t, [at |-> "epolls", fd |-> old, then |-> "idle", pass |-> FALSE])
  /\ UNCHANGED <<sockMap, epfdMap, life, sets, timers, opposite>>

(* dup2 onto a descriptor: closed in the library before (if configured)    *)
(* and after.                                                              *)
dup2(t, f) ==
  /\ "dup2" \in Calls /\ thr[t] = Resting /\ Cardinality(Used) < MaxFiles /\ kfd[f] # NoFile /\ ~Busy(f)
  /\ Goes(t, [at |-> IF CloseOnDup2 THEN "epolls" ELSE "dup", fd |-> f, then |-> "dup", pass |-> FALSE])
  /\ UNCHANGED <<kfd, sockMap, epfdMap, kindOf, life, sets, timers, opposite>>

Dup2Kernel(t) ==
  /\ thr[t].at = "dup"
  /\ LET i == Cardinality(Used) + 1 IN
     IF i \in Files
     THEN /\ kfd' = [kfd EXCEPT ![thr[t].fd] = i] /\ kindOf' = [kindOf EXCEPT ![i] = "open"]
          /\ Goes(t, [at |-> "epolls", fd |-> thr[t].fd, then |-> "idle", pass |-> FALSE])
     ELSE Goes(t, Resting) /\ UNCHANGED <<kfd, kindOf>>
  /\ UNCHANGED <<sockMap, epfdMap, life, sets, timers, opposite>>

close(t, f) ==
  /\ thr[t] = Resting /\ kfd[f] # NoFile /\ ~Busy(f)
  /\ Goes(t, [at |-> "epolls", fd |-> f, then |-> "kernel", pass |-> FALSE])
  /\ UNCHANGED <<kfd, sockMap, epfdMap, kindOf, life, sets, timers, opposite>>

(* bind, connect and listen hand a socket that is not offloaded back to    *)
(* the kernel.                                                             *)
Passthrough(t, f) ==
  /\ thr[t] = Resting /\ sockMap[f] # NoFile /\ kfd[f] # NoFile /\ ~Busy(f)
  /\ Goes(t, [at |-> "epolls", fd |-> f, then |-> "idle", pass |-> TRUE])
  /\ UNCHANGED <<kfd, sockMap, epfdMap, kindOf, life, sets, timers, opposite>>

HiddenClose(f) ==
  /\ kfd[f] # NoFile /\ ~Busy(f) /\ kfd' = [kfd EXCEPT ![f] = NoFile]
  /\ UNCHANGED <<sockMap, epfdMap, kindOf, life, sets, timers, opposite, thr>>

-----------------------------------------------------------------------------
(* handle_close: out of every epoll set, then out of the maps.             *)
remove_from_all_epfds(t) ==
  /\ thr[t].at = "epolls"
  /\ sets' = [e \in Files |-> sets[e] \ {sockMap[thr[t].fd]}]
  /\ Goes(t, [thr[t] EXCEPT !.at = IF sockMap[thr[t].fd] # NoFile THEN "sock" ELSE "epfd"])
  /\ UNCHANGED <<kfd, sockMap, epfdMap, kindOf, life, timers, opposite>>

(* del_sockfd: a TCP socket that is still connected is deferred; the first *)
(* one starts the timer.                                                   *)
del_sockfd(t) ==
  /\ thr[t].at = "sock"
  /\ LET i == sockMap[thr[t].fd] IN
     /\ sockMap' = [sockMap EXCEPT ![thr[t].fd] = NoFile]
     /\ \/ life' = [life EXCEPT ![i] = "freed"] /\ UNCHANGED timers
        \/ /\ kindOf[i] = "tcp" /\ life' = [life EXCEPT ![i] = "pending"]
           /\ timers' = IF {j \in Files : life'[j] = "pending"} = {i} THEN timers + 1 ELSE timers
  /\ Goes(t, [thr[t] EXCEPT !.at = "epfd"])
  /\ UNCHANGED <<kfd, epfdMap, kindOf, sets, opposite>>

(* del_epfd                                                                *)
del_epfd(t) ==
  /\ thr[t].at = "epfd"
  /\ LET i == epfdMap[thr[t].fd] IN
     IF i = NoFile THEN UNCHANGED <<epfdMap, life, sets>>
     ELSE /\ epfdMap' = [epfdMap EXCEPT ![thr[t].fd] = NoFile]
          /\ life' = [life EXCEPT ![i] = "freed"] /\ sets' = [sets EXCEPT ![i] = {}]
  /\ Goes(t, IF thr[t].then = "idle" THEN Resting ELSE [thr[t] EXCEPT !.at = thr[t].then])
  /\ UNCHANGED <<kfd, sockMap, kindOf, timers, opposite>>

KernelClose(t) ==
  /\ thr[t].at = "kernel"
  /\ kfd' = [kfd EXCEPT ![thr[t].fd] = NoFile] /\ Goes(t, Resting)
  /\ UNCHANGED <<sockMap, epfdMap, kindOf, life, sets, timers, opposite>>

(* create_offloaded_sockets                                                *)
create_offloaded_sockets(t) == (t \in opposite) # OffloadRule

(* addsocket, addepfd: the object of the new file; the rules of the        *)
(* configuration may keep a socket in the kernel.                          *)
Adds(t) ==
  /\ thr[t].at = "add"
  /\ LET f == thr[t].fd
         i == kfd[f]
     IN \/ /\ kindOf[i] \in {"udp", "tcp"} /\ create_offloaded_sockets(t)
           /\ sockMap' = [sockMap EXCEPT ![f] = i] /\ life' = [life EXCEPT ![i] = "live"] /\ UNCHANGED epfdMap
        \/ /\ kindOf[i] = "epoll"
           /\ epfdMap' = [epfdMap EXCEPT ![f] = i] /\ life' = [life EXCEPT ![i] = "live"] /\ UNCHANGED sockMap
        \/ kindOf[i] # "epoll" /\ UNCHANGED <<sockMap, epfdMap, life>>
  /\ Goes(t, Resting)
  /\ UNCHANGED <<kfd, kindOf, sets, timers, opposite>>

-----------------------------------------------------------------------------
(* Any other call: look the object up, without a lock, and use it; no      *)
(* object, and the call goes to the kernel.                                *)
Looks(t, f) ==
  /\ thr[t] = Resting /\ kfd[f] # NoFile /\ sockMap[f] # NoFile
  /\ Goes(t, [at |-> "using", fd |-> f, id |-> sockMap[f]])
  /\ UNCHANGED <<kfd, sockMap, epfdMap, kindOf, life, sets, timers, opposite>>

RxCall(t, f) == Looks(t, f)
TxCall(t, f) == Looks(t, f)
OptionCall(t, f) == Looks(t, f)

epoll_ctl(t, f) ==
  /\ thr[t] = Resting /\ kfd[f] # NoFile /\ epfdMap[f] # NoFile
  /\ Goes(t, [at |-> "using", fd |-> f, id |-> epfdMap[f]])
  /\ UNCHANGED <<kfd, sockMap, epfdMap, kindOf, life, sets, timers, opposite>>

CtlAdd(t, f) ==
  /\ thr[t].at = "using" /\ kindOf[thr[t].id] = "epoll" /\ life[thr[t].id] = "live" /\ sockMap[f] # NoFile
  /\ sets' = [sets EXCEPT ![thr[t].id] = @ \cup {sockMap[f]}] /\ Goes(t, Resting)
  /\ UNCHANGED <<kfd, sockMap, epfdMap, kindOf, life, timers, opposite>>

Returns(t) ==
  /\ thr[t].at = "using" /\ Goes(t, Resting)
  /\ UNCHANGED <<kfd, sockMap, epfdMap, kindOf, life, sets, timers, opposite>>

offloading_rule_change_thread(t, offloaded) ==
  /\ opposite' = IF offloaded = OffloadRule THEN opposite \ {t} ELSE opposite \cup {t}
  /\ opposite' # opposite
  /\ UNCHANGED <<kfd, sockMap, epfdMap, kindOf, life, sets, timers, thr>>

(* handle_timer_expired: the sockets that have become closable go, and     *)
(* with the last one the timer.                                            *)
handle_timer_expired ==
  /\ timers > 0
  /\ \E gone \in SUBSET {i \in Files : life[i] = "pending"} :
       /\ gone # {}
       /\ life' = [i \in Files |-> IF i \in gone THEN "freed" ELSE life[i]]
       /\ timers' = IF gone = {i \in Files : life[i] = "pending"} THEN timers - 1 ELSE timers
  /\ UNCHANGED <<kfd, sockMap, epfdMap, kindOf, sets, opposite, thr>>

FdNext ==
  \/ \E t \in Threads :
       \/ \E call \in Calls \ {"dupfd", "dup2"} : Opens(t, call)
       \/ \E f \in FdSpace :
            \/ DupFd(t, f) \/ dup2(t, f) \/ close(t, f) \/ Passthrough(t, f)
            \/ RxCall(t, f) \/ TxCall(t, f) \/ OptionCall(t, f) \/ epoll_ctl(t, f) \/ CtlAdd(t, f)
       \/ Dup2Kernel(t) \/ remove_from_all_epfds(t) \/ del_sockfd(t) \/ del_epfd(t) \/ KernelClose(t) \/ Adds(t) \/ Returns(t)
       \/ \E b \in BOOLEAN : offloading_rule_change_thread(t, b)
  \/ \E f \in FdSpace : HiddenClose(f)
  \/ handle_timer_expired

FdSpec == FdInit /\ [][FdNext]_fdVars

-----------------------------------------------------------------------------
FdTypeOK ==
  /\ kfd \in [FdSpace -> Files \cup {NoFile}] /\ sockMap \in [FdSpace -> Files \cup {NoFile}]
  /\ epfdMap \in [FdSpace -> Files \cup {NoFile}] /\ opposite \subseteq Threads
  /\ life \in [Files -> {"none", "live", "pending", "freed"}] /\ timers \in Nat

(* "Sanity check to remove any old sockinfo object using the same fd": a   *)
(* descriptor that a call has returned never leads to the object of an     *)
(* earlier file, even if the C library closed that file unseen.            *)
NoOldObject ==
  \A f \in FdSpace :
    (kfd[f] # NoFile /\ ~Busy(f)) => sockMap[f] \in {NoFile, kfd[f]} /\ epfdMap[f] \in {NoFile, kfd[f]}

(* Every object is in exactly one place: under one descriptor while it     *)
(* lives, in the list of closing sockets, or gone; and the timer of that   *)
(* list runs exactly while it is not empty.                                *)
ObjectsAccounted ==
  /\ \A i \in Files :
       Cardinality({f \in FdSpace : sockMap[f] = i}) + Cardinality({f \in FdSpace : epfdMap[f] = i})
         = (IF life[i] = "live" THEN 1 ELSE 0)
  /\ timers = IF \E i \in Files : life[i] = "pending" THEN 1 ELSE 0

-----------------------------------------------------------------------------
(***************************************************************************)
(* A pipe that an event-queue library uses for wake-ups (pipeinfo): the    *)
(* one-byte writes are gathered; the first goes through and starts a       *)
(* periodic timer whose ticks write on behalf of the gathered ones.        *)
(***************************************************************************)


CONSTANTS
  Burst,         \* mce_spec_param2
  MaxWrites,     \* bound: writes by the application
  PipeRoom       \* bytes that the kernel's pipe holds

VARIABLES writeCount, onLast, noChange, timerOn, bytes, writes, owed

pipeVars == <<writeCount, onLast, noChange, timerOn, bytes, writes, owed>>

PipeInit == writeCount = 0 /\ onLast = 0 /\ noChange = 0 /\ timerOn = FALSE /\ bytes = 0 /\ writes = 0 /\ owed = FALSE

(* write_lbm_pipe_enhance, from counters c, n and timer state on.  The     *)
(* write waits for room in the kernel's pipe.                              *)
write_lbm_pipe_enhance(c, n, on) ==
  /\ bytes < PipeRoom
  /\ timerOn' = IF c = onLast /\ n + 1 >= 2 /\ on THEN FALSE ELSE on
  /\ writeCount' = 0 /\ noChange' = 0 /\ onLast' = 0
  /\ bytes' = bytes + 1 /\ owed' = FALSE

pipe_tx ==
  /\ writes < MaxWrites /\ writes' = writes + 1
  /\ IF ~timerOn THEN write_lbm_pipe_enhance(writeCount + 1, 0, TRUE)
     ELSE IF writeCount + 1 > onLast + Burst THEN write_lbm_pipe_enhance(writeCount + 1, noChange, TRUE)
     ELSE writeCount' = writeCount + 1 /\ owed' = TRUE /\ UNCHANGED <<onLast, noChange, timerOn, bytes>>

pipe_timer_expired == timerOn /\ write_lbm_pipe_enhance(writeCount, noChange, timerOn) /\ UNCHANGED writes

PipeReads == bytes > 0 /\ bytes' = 0 /\ UNCHANGED <<writeCount, onLast, noChange, timerOn, writes, owed>>

PipeNext == pipe_tx \/ pipe_timer_expired \/ PipeReads

PipeSpec == PipeInit /\ [][PipeNext]_pipeVars /\ WF_pipeVars(pipe_timer_expired) /\ WF_pipeVars(PipeReads)

PipeTypeOK == writeCount \in 0..MaxWrites /\ bytes \in 0..PipeRoom /\ timerOn \in BOOLEAN /\ noChange \in 0..1

(* A write that was gathered is not forgotten: the timer that will carry   *)
(* it is running, or its byte is in the pipe.                              *)
GatheredIsCarried == owed => (timerOn /\ writeCount > 0)

=============================================================================
