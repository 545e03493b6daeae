------------------------------ MODULE MCQueues ------------------------------
(***************************************************************************)
(* Instances for TLC of the queues a ring shares with the adapter, of the  *)
(* memory behind them, and of the library as a whole.  A behaviour         *)
(* explores one of them, the subject:                                      *)
(*   sq      the send queue of mlx5 and the elements written to it;        *)
(*   dm      the memory on the device;                                     *)
(*   cq      the completion queue of mlx5;                                 *)
(*   cyclic  the cyclic buffer ring with its striding receive queue;       *)
(*   pool    a buffer pool and its allocator;                              *)
(*   stats   the statistics in shared memory, the library and a reader;    *)
(*   life    the start, the fork and the end of the library.               *)
(***************************************************************************)
EXTENDS Mlx5Sq, Mlx5Cq, StatsShm, LibraryLife

VARIABLES
  subject,
  poolMem, poolHead, next, count, ref, pref, ring, held, twice, report

poolVars == <<poolMem, poolHead, next, count, ref, pref, ring, held, twice, report>>

MCCaps == [minStride |-> 2, maxStride |-> 4, minWqe |-> 1, maxWqe |-> 2]
RequestOf(num, stride, hdr, mode) == [num |-> num, stride |-> stride, hdr |-> hdr, mode |-> mode]
MCRequests == {RequestOf(4, 3, 0, "padded"), RequestOf(3, 5, 2, "strip"), RequestOf(8, 4, 0, "raw"),
               RequestOf(4, 4, 1, "raw"), RequestOf(13, 5, 2, "separate"), RequestOf(17, 5, 0, "strip")}
MCAsks == {<<1, 1>>, <<1, 3>>, <<2, 3>>, <<3, 2>>}
MCKindOf == [s1 |-> "skt", s2 |-> "skt", r1 |-> "ring", c1 |-> "cq", b1 |-> "bpool", e1 |-> "epoll"]
MCSlots == [skt |-> 1, ring |-> 0, cq |-> 0, bpool |-> 0, epoll |-> 1]
MCOptions == {{"deltas"}, {"dump"}}

Pool == INSTANCE BufferPool WITH Bufs <- 1..4, PoolDevs <- 2, Holders <- {"h1", "h2"},
    AllocTypes <- {"huge", "contig", "anon"}, ContigBuild <- TRUE, MaxTwice <- 1, mem <- poolMem,
    head <- poolHead

(* A part that is not the subject has no state.                            *)
WithoutSq == counter = 0 /\ hot = 0 /\ maxInline = 0 /\ mem = 0 /\ wrid = 0 /\ hwq = 0 /\ cqes = 0 /\
             chain = 0 /\ linked = 0 /\ unsig = 0 /\ credit = 0 /\ wire = 0 /\ lost = 0 /\ downs = 0
WithoutDm == enabled = 0 /\ head = 0 /\ inUse = 0 /\ posts = 0
WithoutCyclic == geo = 0 /\ res = 0 /\ life = 0 /\ posted = 0 /\ hwOff = 0 /\ cb = 0 /\ out = 0 /\
                 arrivals = 0
WithoutStats == proc = 0 /\ file = 0 /\ cell = 0 /\ local = 0 /\ making = 0 /\ dmap = 0 /\ mc = 0 /\
                bits = 0 /\ joined = 0 /\ reader_counter = 0 /\ pub = 0 /\ dump = 0 /\ rd = 0
WithoutLife == up = 0 /\ flags = 0 /\ glob = 0 /\ globalsLock = 0 /\ lt = 0 /\ thread = 0 /\ files = 0 /\
               open = 0 /\ prepared = 0 /\ overlap = 0 /\ missing = 0 /\ sig = 0 /\ ctorFails = 0
WithoutCq == side = 0 /\ slots = 0 /\ prod = 0 /\ rq = 0 /\ m = 0 /\ ups = 0
WithoutPool == poolMem = 0 /\ poolHead = 0 /\ next = 0 /\ count = 0 /\ ref = 0 /\ pref = 0 /\ ring = 0 /\
               held = 0 /\ twice = 0 /\ report = 0

MCInit ==
  /\ subject \in {"sq", "dm", "cyclic", "stats", "life", "cq", "pool"}
  /\ IF subject = "sq" THEN SqInit ELSE WithoutSq
  /\ IF subject = "dm" THEN DmInit ELSE WithoutDm
  /\ IF subject = "cyclic" THEN CyclicInit ELSE WithoutCyclic
  /\ IF subject = "stats" THEN StatsInit ELSE WithoutStats
  /\ IF subject = "life" THEN main_init ELSE WithoutLife
  /\ IF subject = "cq" THEN McqInit ELSE WithoutCq
  /\ IF subject = "pool" THEN Pool!PoolInit ELSE WithoutPool
MCNext ==
  \/ subject = "sq" /\ SqNext /\ UNCHANGED <<subject, dmVars, cyclicVars, statsVars, lifeVars, mcqVars,
          poolVars>>
  \/ subject = "dm" /\ DmNext /\ UNCHANGED <<subject, sqVars, cyclicVars, statsVars, lifeVars, mcqVars,
          poolVars>>
  \/ subject = "cyclic" /\ CyclicNext /\ UNCHANGED <<subject, sqVars, dmVars, statsVars, lifeVars, mcqVars,
          poolVars>>
  \/ subject = "stats" /\ StatsNext /\ UNCHANGED <<subject, sqVars, dmVars, cyclicVars, lifeVars, mcqVars,
          poolVars>>
  \/ subject = "life" /\ LifeNext /\ UNCHANGED <<subject, sqVars, dmVars, cyclicVars, statsVars, mcqVars,
          poolVars>>
  \/ subject = "cq" /\ McqNext /\ UNCHANGED <<subject, sqVars, dmVars, cyclicVars, statsVars, lifeVars,
          poolVars>>
  \/ subject = "pool" /\ Pool!PoolNext /\ UNCHANGED <<subject, sqVars, dmVars, cyclicVars, statsVars,
          lifeVars, mcqVars>>
all == <<subject, sqVars, dmVars, cyclicVars, statsVars, lifeVars, mcqVars, poolVars>>
MCSpec == MCInit /\ [][MCNext]_all

(* The type invariants of the modules.                                     *)
TypesOK ==
  /\ subject = "sq" => SqTypeOK
  /\ subject = "dm" => DmTypeOK
  /\ subject = "cq" => McqTypeOK
  /\ subject = "cyclic" => CyclicTypeOK
  /\ subject = "pool" => Pool!PoolTypeOK
  /\ subject = "stats" => StatsTypeOK
  /\ subject = "life" => LifeTypeOK


=============================================================================
