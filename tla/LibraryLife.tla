---------------------------- MODULE LibraryLife -----------------------------
(***************************************************************************)
(* Start and end of the library in a process and in the child it forks:    *)
(* the first intercepted call constructs the global objects                *)
(* (do_global_ctors), the end of the process or a failed construction      *)
(* destroys them (free_libvma_resources), fork() and daemon() forget them  *)
(* in the child.  Constructors and destructors use other global objects.   *)
(***************************************************************************)
EXTENDS Integers, Sequences, FiniteSets

CONSTANTS
  LifeThreads,    \* threads of the application
  MainThread,     \* the one that ends the process
  LifeSockets,    \* descriptors of offloaded sockets
  HandleFork,     \* safe_mce_sys().handle_fork
  SigActs,        \* what the application asks for SIGINT: {"handler", "ignore", "default"}
  MaxCtorFails    \* bound: constructors that throw

Procs == {"p", "c"}   \* the process and its child
NoMaker == "none"

VARIABLES
  up,         \* processes that run
  flags,      \* g_init_global_ctors_done, g_init_ibv_fork_done, g_b_exit
  glob,       \* process -> global object -> the process that made it, or none
  globalsLock,\* process -> holder of g_globals_lock
  lt,         \* process -> thread -> what it does: [at, k]
  thread,     \* processes whose internal thread runs
  files,      \* files in the file system: <<process it is named after, kind>>
  open,       \* process -> sockets in m_p_sockfd_map
  prepared,   \* process -> sockets told to close
  overlap,    \* ghost: processes freed while another thread is in the library
  missing,    \* ghost: <<process, object>>: needed when it is not there
  sig,        \* SIGINT: g_act_prev, the kernel's handler, what the last signal did
  ctorFails

lifeVars == <<up, flags, glob, globalsLock, lt, thread, files, open, prepared, overlap, missing, sig, ctorFails>>

(* The order in which the objects are made.                                *)
CtorOrder == <<"agent", "ehm", "shm", "netlink", "ibctx", "neigh", "netdev", "rule", "route", "igmp", "rx",
               "tx", "seg", "tmr", "vlog", "frag", "fdc", "lwip", "cmdnl", "profiles">>
Globals == {CtorOrder[i] : i \in DOMAIN CtorOrder}

(* What the constructors use without a test: timers and events are         *)
(* registered with the event handler, memory with the devices, the pools   *)
(* are sized by the largest MTU.                                           *)
CtorUses == [g \in Globals |->
  CASE g \in {"shm", "ibctx", "neigh", "lwip"} -> {"ehm"}
    [] g = "netdev" -> {"ehm", "ibctx"}
    [] g = "route" -> {"netlink", "rule"}
    [] g \in {"rx", "tx"} -> {"netdev", "ibctx"}
    [] g = "cmdnl" -> {"netlink", "ehm"}
    [] OTHER -> {}]

(* What the destructors use without a test.                                *)
DtorUses == [g \in Globals |->
  CASE g \in {"igmp", "tmr", "fdc", "neigh", "ibctx", "vlog"} -> {"ehm"}
    [] g = "route" -> {"rule", "netdev"}
    [] g \in {"rx", "tx"} -> {"ibctx"}
    [] OTHER -> {}]

(* The rings go with their device: their buffers return to the pools, the  *)
(* broadcast neighbour of an IPoIB device is given up.                     *)
RingUses(q) == IF open[q] # {} THEN {"rx", "tx", "neigh"} ELSE {}

IdleThread == [at |-> "idle", k |-> 0]
Has(q, g) == glob[q][g] # NoMaker
Lacks(q, gs) == {<<q, g>> : g \in {x \in gs : ~Has(q, x)}}
Step(q, t, r) == lt' = [lt EXCEPT ![q][t] = r]
Others(q, t) == {s \in LifeThreads \ {t} : lt[q][s].at \notin {"idle", "gone"}}

-----------------------------------------------------------------------------
prepare_fork(f) == IF HandleFork THEN [f EXCEPT !.fork = TRUE] ELSE f

Freeing == {"undo", "free"}   \* after a constructor threw, at the end of the process
Free(q, t, why) ==
  /\ Step(q, t, [at |-> why, k |-> 1])
  /\ flags' = [flags EXCEPT ![q].exit = TRUE]
  /\ overlap' = IF Others(q, t) # {} THEN overlap \cup {q} ELSE overlap

(* Under g_globals_lock; the flag is set first, so the calls that the      *)
(* constructors make do not start again.                                   *)
do_global_ctors(q, t) ==
  /\ q \in up /\ lt[q][t] = IdleThread /\ globalsLock[q] = NoMaker
  /\ IF flags[q].done
     THEN Step(q, t, [at |-> "call", k |-> 0]) /\ UNCHANGED <<globalsLock, flags>>
     ELSE /\ globalsLock' = [globalsLock EXCEPT ![q] = t]
          /\ flags' = [flags EXCEPT ![q] = prepare_fork([@ EXCEPT !.done = TRUE])]
          /\ Step(q, t, [at |-> "ctor", k |-> 0])
  /\ overlap' = IF \E s \in LifeThreads \ {t} : lt[q][s].at \in Freeing THEN overlap \cup {q} ELSE overlap
  /\ UNCHANGED <<up, glob, thread, files, open, prepared, missing, sig, ctorFails>>

(* NEW_CTOR, from the first object to the n-th: one that is there is kept. *)
(* The lock keeps the other calls out; a constructor that throws (the next *)
(* one) gives it back with the stack, then what was made is freed.         *)
Made(n) == {CtorOrder[i] : i \in 1..n}
Present(q) == {g \in Globals : Has(q, g)}
do_global_ctors_helper(q, t) == \E n \in 0..Len(CtorOrder) :
  LET new == Made(n) \ Present(q)
      first(g) == CHOOSE i \in 1..Len(CtorOrder) : CtorOrder[i] = g
      lacked == UNION {CtorUses[g] \ (Present(q) \cup Made(first(g) - 1)) : g \in new}
  IN /\ lt[q][t].at = "ctor"
     /\ missing' = missing \cup {<<q, g>> : g \in lacked}
     /\ glob' = [glob EXCEPT ![q] = [g \in Globals |-> IF g \in new THEN q ELSE @[g]]]
     /\ files' = files \cup {<<q, k>> : k \in {x \in {"pid", "stats"} :
                     [pid |-> "agent", stats |-> "shm"][x] \in new}}
     /\ thread' = IF "shm" \in new THEN thread \cup {q} ELSE thread
     /\ globalsLock' = [globalsLock EXCEPT ![q] = NoMaker]
     /\ IF n = Len(CtorOrder)
        THEN Step(q, t, [at |-> "call", k |-> 0]) /\ UNCHANGED <<flags, overlap, ctorFails>>
        ELSE /\ ~Has(q, CtorOrder[n + 1]) /\ ctorFails < MaxCtorFails
             /\ ctorFails' = ctorFails + 1
             /\ Free(q, t, "undo")
     /\ UNCHANGED <<up, open, prepared, sig>>

(* The rest of socket(): with a collection a socket is added to it.        *)
socket_internal(q, t) ==
  /\ lt[q][t].at = "call"
  /\ \/ Has(q, "fdc") /\ \E s \in LifeSockets \ open[q] : open' = [open EXCEPT ![q] = @ \cup {s}]
     \/ ~Has(q, "fdc") /\ UNCHANGED open
     \/ LifeSockets \subseteq open[q] /\ UNCHANGED open
  /\ Step(q, t, IdleThread)
  /\ UNCHANGED <<up, flags, glob, globalsLock, thread, files, prepared, overlap, missing, sig, ctorFails>>

main_destroy(q) ==
  /\ q \in up /\ lt[q][MainThread] = IdleThread
  /\ Free(q, MainThread, "free")
  /\ UNCHANGED <<up, glob, globalsLock, thread, files, open, prepared, missing, sig, ctorFails>>

(* The order in which free_libvma_resources proceeds.                      *)
FreeOrder == <<"prepare", "drain", "igmp", "tmr", "stop", "fdc", "lwip", "route", "rule", "netdev", "frag", "neigh",
               "seg", "tx", "rx", "cmdnl", "netlink", "ibctx", "vlog", "ehm", "agent", "profiles", "shm">>

(* fd_collection::clear: the sockets below the size of the map.            *)
clear(size, socks) == {s \in socks : s >= size}

(* The files that go with the objects: the agent removes the files of the  *)
(* process that made it, the statistics file goes with its process.        *)
FilesOf(q, gs) == {<<glob[q]["agent"], "pid">> : g \in gs \cap {"agent"}} \cup
                  {<<glob[q]["shm"], "stats">> : g \in gs \cap {"shm"}}

(* The calls of other threads tell three parts apart: before the           *)
(* collection is hidden, its removal ("Block all sock-redicrt API calls    *)
(* into our offloading core"), and the rest.                               *)
Part(k) == LET hide == CHOOSE i \in DOMAIN FreeOrder : FreeOrder[i] = "fdc"
           IN CASE k = 1 -> 1..(hide - 1) [] k = 2 -> {hide} [] k = 3 -> (hide + 1)..Len(FreeOrder)

free_libvma_resources(q, t) ==
  LET k == lt[q][t].k
      steps == {FreeOrder[i] : i \in Part(k)}
      dead == steps \cap Present(q)
      before(i) == {FreeOrder[j] : j \in 1..(i - 1)}
      uses(g) == DtorUses[g] \cup (IF g = "netdev" THEN RingUses(q) ELSE {})
      lacked == UNION {IF FreeOrder[i] \in dead THEN uses(FreeOrder[i]) \ (Present(q) \ before(i)) ELSE {} : i \in Part(k)}
  IN /\ lt[q][t].at \in Freeing
     /\ prepared' = IF "prepare" \in steps /\ Has(q, "fdc") THEN [prepared EXCEPT ![q] = open[q]] ELSE prepared
     /\ thread' = IF "stop" \in steps THEN thread \ {q} ELSE thread
     /\ missing' = missing \cup {<<q, g>> : g \in lacked}
     /\ glob' = [glob EXCEPT ![q] = [g \in Globals |-> IF g \in dead THEN NoMaker ELSE @[g]]]
     /\ files' = files \ FilesOf(q, dead)
     /\ open' = IF "fdc" \in dead THEN [open EXCEPT ![q] = clear(-1, @)] ELSE open
     /\ CASE k < 3 -> Step(q, t, [lt[q][t] EXCEPT !.k = @ + 1]) /\ UNCHANGED up
          [] k = 3 /\ lt[q][t].at = "undo" -> Step(q, t, IdleThread) /\ UNCHANGED up
          [] k = 3 /\ lt[q][t].at = "free" ->
               /\ up' = up \ {q}
               /\ lt' = [lt EXCEPT ![q] = [s \in LifeThreads |-> [at |-> "ended", k |-> 0]]]
     /\ UNCHANGED <<flags, globalsLock, overlap, sig, ctorFails>>

-----------------------------------------------------------------------------
(* reset_globals: the objects are forgotten; the agent is not among them.  *)
reset_globals(gl) == [g \in Globals |-> IF g = "agent" THEN gl[g] ELSE NoMaker]

(* The child of fork() and daemon(): a copy of the memory with the calling *)
(* thread alone.  The lock is copied as it is.                             *)
Child(t, removed) ==
  LET f == IF flags["p"].done THEN flags["p"] ELSE prepare_fork(flags["p"])
  IN /\ up = {"p"} /\ t = MainThread /\ lt["p"][t] = IdleThread /\ lt["c"][t].at = "gone"
     /\ flags' = [flags EXCEPT !["p"] = f, !["c"] = [f EXCEPT !.done = FALSE]]
     /\ glob' = [glob EXCEPT !["c"] = reset_globals(glob["p"])]
     /\ files' = files \ removed
     /\ globalsLock' = [globalsLock EXCEPT !["c"] = globalsLock["p"]]
     /\ lt' = [lt EXCEPT !["c"] = [s \in LifeThreads |-> IF s = t THEN IdleThread ELSE [at |-> "gone", k |-> 0]]]
     /\ UNCHANGED <<open, prepared, overlap, missing, sig, ctorFails>>

(* The child unmaps the statistics (g_is_forked_child: the file stays) and *)
(* starts again at its next call.                                          *)
ChildRestarts(t) == Child(t, {})

fork(t) == ChildRestarts(t) /\ up' = {"p", "c"} /\ UNCHANGED thread

(* daemon(): the same, and the parent is gone without its destructors.     *)
daemon(t) == ChildRestarts(t) /\ up' = {"c"} /\ thread' = {}

-----------------------------------------------------------------------------
(* sigaction(SIGINT, act) with VMA_HANDLE_SIGINTR: the library's handler   *)
(* is installed, the application's action is remembered.                   *)
sigaction(a) ==
  /\ "p" \in up
  /\ sig' = [sig EXCEPT !.prev = a, !.kernel = "vma"]
  /\ UNCHANGED <<up, flags, glob, globalsLock, lt, thread, files, open, prepared, overlap, missing, ctorFails>>

(* A call of SIG_IGN (the address 1) is a crash; SIG_DFL (0) is not called.*)
handler_intr ==
  /\ "p" \in up /\ sig.kernel = "vma" /\ sig.did = "none"
  /\ flags' = [flags EXCEPT !["p"].exit = TRUE]
  /\ sig' = [sig EXCEPT !.did = [handler |-> "called", ignore |-> "crash", default |-> "nothing"][sig.prev]]
  /\ UNCHANGED <<up, glob, globalsLock, lt, thread, files, open, prepared, overlap, missing, ctorFails>>

-----------------------------------------------------------------------------
main_init ==
  /\ up = {"p"}
  /\ flags = [q \in Procs |-> [done |-> FALSE, fork |-> FALSE, exit |-> FALSE]]
  /\ glob = [q \in Procs |-> [g \in Globals |-> NoMaker]]
  /\ globalsLock = [q \in Procs |-> NoMaker]
  /\ lt = [q \in Procs |-> [t \in LifeThreads |-> IF q = "p" THEN IdleThread ELSE [at |-> "gone", k |-> 0]]]
  /\ thread = {} /\ files = {} /\ open = [q \in Procs |-> {}] /\ prepared = open
  /\ overlap = {} /\ missing = {} /\ ctorFails = 0
  /\ sig = [prev |-> "default", kernel |-> "default", did |-> "none"]

LifeNext ==
  \/ \E q \in Procs, t \in LifeThreads :
       \/ do_global_ctors(q, t) \/ do_global_ctors_helper(q, t)
       \/ socket_internal(q, t) \/ free_libvma_resources(q, t)
  \/ \E q \in Procs : main_destroy(q)
  \/ \E t \in LifeThreads : fork(t) \/ daemon(t)
  \/ \E a \in SigActs : sigaction(a)
  \/ handler_intr

LifeSpec == main_init /\ [][LifeNext]_lifeVars

-----------------------------------------------------------------------------
(* The processes, their objects and files are what they are declared.      *)
LifeTypeOK ==
  /\ up \subseteq Procs /\ overlap \subseteq Procs /\ thread \subseteq Procs
  /\ glob \in [Procs -> [Globals -> Procs \cup {NoMaker}]]
  /\ globalsLock \in [Procs -> LifeThreads \cup {NoMaker}]
  /\ files \subseteq Procs \X {"pid", "stats"}
  /\ \A q \in Procs : open[q] \subseteq LifeSockets /\ prepared[q] \subseteq LifeSockets

Ended(q) == lt[q][MainThread].at = "ended"

(* do_global_ctors_helper and free_libvma_resources order the objects so   *)
(* that no constructor and no destructor uses one that is not there,       *)
(* whichever constructor throws; a process that ended has freed all it     *)
(* made, stopped its internal thread and told its sockets to close.  The   *)
(* exception: another thread in the library meanwhile.                     *)
OrderIsSound == \A q \in Procs \ overlap :
  /\ \A g \in Globals : <<q, g>> \notin missing
  /\ Ended(q) => q \notin thread /\ open[q] \subseteq prepared[q] /\ \A g \in Globals : ~Has(q, g)

(* The statistics file is there as long as its process has it mapped: a    *)
(* forked child unmaps it and leaves it.                                   *)
StatsFileStays == \A q \in Procs : glob[q]["shm"] = q => <<q, "stats">> \in files

=============================================================================
