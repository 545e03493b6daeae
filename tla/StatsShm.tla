------------------------------ MODULE StatsShm ------------------------------
(***************************************************************************)
(* The statistics shared memory: the library publishes its counters in a  *)
(* file (stats_publisher.cpp), vma_stats, another process, maps the file   *)
(* and shows them (stats_reader.cpp).  No lock is shared by the two: the   *)
(* reader asks by incrementing reader_counter, a plain load and store, and *)
(* the library's timer copies every registered counter block while there   *)
(* has lately been a request.                                              *)
(* An object is a socket, ring, completion queue, buffer pool or epoll set *)
(* with one counter; a cell is one instance block of the shared memory.    *)
(***************************************************************************)
EXTENDS Integers, FiniteSets

CONSTANTS
    Objects,       \* objects the library may count for
    KindOf,        \* the kind of each
    Slots,         \* instance blocks of each kind
    MaxAlive,      \* bound: objects with counters at a time
    Groups,        \* multicast groups sockets join
    McTableSize,   \* MC_TABLE_SIZE
    Readers,       \* vma_stats processes
    Options,       \* sets of the options "deltas", "zero", "dump" a reader is started with
    Duration,      \* TIMERS_IN_STATS_PUBLISH_DURATION
    Interval,      \* TIMERS_IN_STATS_PUBLISH_INTERVAL
    MaxCount,      \* bound: value of a counter
    MaxCycles,     \* bound: report cycles of a reader
    MaxRequests,   \* bound: value of reader_counter
    NoObject

VARIABLES
    proc,          \* the process: "none", "up", "closed", "crashed"
    file,          \* vmastat.<pid> exists
    cell,          \* cell -> [enabled, owner, by, n]: whose numbers, and the number
    local,         \* object -> its own counter
    making,        \* the object whose block is enabled but not yet reset
    dmap,          \* m_data_map: object -> cell
    mc,            \* [max, tbl]: mc_info, tbl : index -> [grp, num]
    bits,          \* socket -> mc_grp_map
    joined,        \* socket -> the groups it is a member of
    reader_counter,
    pub,           \* the statics of should_write: [seen, timers]
    dump,          \* fd_dump is set
    rd             \* reader -> its state, see IdleReader

statsVars == <<proc, file, cell, local, making, dmap, mc, bits, joined, reader_counter, pub, dump, rd>>

Cells == UNION {{k} \X (1..Slots[k]) : k \in DOMAIN Slots}
CellsOf(k) == {c \in Cells : c[1] = k}
Sockets == {o \in Objects : KindOf[o] = "skt"}
NoRead == [c \in Cells |-> 0]
IdleReader == [pc |-> "idle", opts |-> {}, load |-> 0, cycles |-> 0, prev |-> NoRead, base |-> NoRead,
         cur |-> NoRead, shown |-> NoRead, asked |-> <<>>, zeroed |-> <<>>, ticked |-> FALSE]
EmptyCell == [enabled |-> FALSE, owner |-> NoObject, by |-> NoObject, n |-> 0]
Numbers == [c \in Cells |-> cell[c].n]

-----------------------------------------------------------------------------
(* The library.                                                             *)

vma_shmem_stats_open ==
    /\ proc = "none"
    /\ proc' = "up" /\ file' = TRUE
    /\ cell' = [c \in Cells |-> EmptyCell]
    /\ reader_counter' = 0 /\ dump' = FALSE
    /\ UNCHANGED <<local, making, dmap, mc, bits, joined, pub, rd>>

vma_shmem_stats_close ==
    /\ proc = "up" /\ DOMAIN dmap = {} /\ making = NoObject
    /\ proc' = "closed" /\ file' = FALSE
    /\ UNCHANGED <<cell, local, making, dmap, mc, bits, joined, reader_counter, pub, dump, rd>>

(* External: the process dies and leaves its file behind.                   *)
Crash ==
    /\ proc = "up"
    /\ proc' = "crashed"
    /\ UNCHANGED <<file, cell, local, making, dmap, mc, bits, joined, reader_counter, pub, dump, rd>>

(* External: the object counts an event.                                    *)
Count(o) ==
    /\ proc = "up" /\ o \in DOMAIN local /\ local[o] < MaxCount
    /\ local' = [local EXCEPT ![o] = @ + 1]
    /\ UNCHANGED <<proc, file, cell, making, dmap, mc, bits, joined, reader_counter, pub, dump, rd>>

(* The search of a free block and its marking; the block's old numbers are  *)
(* still there.  Without a free block the object is just not published.     *)
EnableBlock(o) ==
    /\ proc = "up" /\ making = NoObject /\ o \notin DOMAIN local
    /\ Cardinality(DOMAIN local) < MaxAlive
    /\ local' = [x \in DOMAIN local \cup {o} |-> IF x = o THEN 0 ELSE local[x]]
    /\ LET free == {c \in CellsOf(KindOf[o]) : ~cell[c].enabled}
       IN IF free = {} THEN UNCHANGED <<cell, making>>
          ELSE /\ \E c \in free : /\ \A d \in free : c[2] <= d[2]
                                  /\ cell' = [cell EXCEPT ![c].enabled = TRUE, ![c].owner = o]
               /\ making' = o
    /\ UNCHANGED <<proc, file, dmap, mc, bits, joined, reader_counter, pub, dump, rd>>

vma_stats_instance_create_socket_block(o) == KindOf[o] = "skt" /\ EnableBlock(o)
vma_stats_instance_create_ring_block(o) == KindOf[o] = "ring" /\ EnableBlock(o)
vma_stats_instance_create_cq_block(o) == KindOf[o] = "cq" /\ EnableBlock(o)
vma_stats_instance_create_bpool_block(o) == KindOf[o] = "bpool" /\ EnableBlock(o)
vma_stats_instance_create_epoll_block(o) == KindOf[o] = "epoll" /\ EnableBlock(o)

(* The rest of the create functions: the block is cleared, but for an epoll *)
(* set, and registered with the timer.                                      *)
add_data_reader ==
    /\ proc = "up" /\ making # NoObject
    /\ LET c == CHOOSE x \in Cells : cell[x].enabled /\ cell[x].owner = making
       IN /\ dmap' = [x \in DOMAIN dmap \cup {making} |-> IF x = making THEN c ELSE dmap[x]]
          /\ cell' = IF KindOf[making] = "epoll" THEN cell
                     ELSE [cell EXCEPT ![c].by = NoObject, ![c].n = 0]
    /\ making' = NoObject
    /\ UNCHANGED <<proc, file, local, mc, bits, joined, reader_counter, pub, dump, rd>>

Without(f, o) == [x \in DOMAIN f \ {o} |-> f[x]]


pop_data_reader(o) == Without(dmap, o)

(* The remove functions: nothing is done for an object that had no block.   *)
RemoveBlock(o) ==
    /\ proc = "up" /\ making = NoObject /\ o \in DOMAIN local
    /\ o \in Sockets => joined[o] = {}
    /\ local' = [x \in DOMAIN local \ {o} |-> local[x]]
    /\ IF o \notin DOMAIN dmap THEN UNCHANGED <<dmap, cell>>
       ELSE /\ dmap' = pop_data_reader(o)
            /\ cell' = [cell EXCEPT ![dmap[o]].enabled = FALSE, ![dmap[o]].owner = NoObject]
    /\ UNCHANGED <<proc, file, making, mc, bits, joined, reader_counter, pub, dump>>
    /\ rd' = [r \in Readers |-> [rd[r] EXCEPT !.asked = Without(@, o), !.zeroed = Without(@, o)]]

vma_stats_instance_remove_socket_block(o) == KindOf[o] = "skt" /\ RemoveBlock(o)
vma_stats_instance_remove_ring_block(o) == KindOf[o] = "ring" /\ RemoveBlock(o)
vma_stats_instance_remove_cq_block(o) == KindOf[o] = "cq" /\ RemoveBlock(o)
vma_stats_instance_remove_bpool_block(o) == KindOf[o] = "bpool" /\ RemoveBlock(o)
vma_stats_instance_remove_epoll_block(o) == KindOf[o] = "epoll" /\ RemoveBlock(o)

(* The multicast table: the entry of the group, else the first empty one,   *)
(* whose group is not rewritten, else a new one.                            *)
McEntry(g) ==
    LET used  == {i \in 1..mc.max : mc.tbl[i].num > 0 /\ mc.tbl[i].grp = g}
        empty == {i \in 1..mc.max : mc.tbl[i].num = 0}
        First(S) == CHOOSE i \in S : \A j \in S : i <= j
    IN IF used # {} THEN First(used) ELSE IF empty # {} THEN First(empty)
       ELSE IF mc.max < McTableSize THEN mc.max + 1 ELSE 0

vma_stats_mc_group_add(g, s) ==
    /\ proc = "up" /\ s \in Sockets \cap DOMAIN local /\ g \notin joined[s]
    /\ joined' = [joined EXCEPT ![s] = @ \cup {g}]
    /\ LET i == McEntry(g)
       IN IF i = 0 THEN UNCHANGED <<mc, bits>>
          ELSE /\ mc' = [max |-> IF i > mc.max THEN i ELSE mc.max,
                         tbl |-> [mc.tbl EXCEPT ![i].num = @ + 1,
                                                ![i].grp = IF i > mc.max THEN g ELSE @]]
               /\ bits' = [bits EXCEPT ![s] = @ \cup {i}]
    /\ UNCHANGED <<proc, file, cell, local, making, dmap, reader_counter, pub, dump, rd>>

(* The loop's bound shrinks while it runs when an entry becomes empty.      *)
vma_stats_mc_group_remove(g, s) ==
    /\ proc = "up" /\ s \in Sockets \cap DOMAIN local /\ g \in joined[s]
    /\ joined' = [joined EXCEPT ![s] = @ \ {g}]
    /\ LET hit == {i \in 1..mc.max : mc.tbl[i].num > 0 /\ mc.tbl[i].grp = g}
           one == CHOOSE i \in hit : \A j \in hit : i <= j
       IN IF hit = {} THEN UNCHANGED <<mc, bits>>
          ELSE /\ bits' = [bits EXCEPT ![s] = @ \ {one}]
               /\ mc' = [max |-> IF mc.tbl[one].num = 1 THEN mc.max - 1 ELSE mc.max,
                         tbl |-> [mc.tbl EXCEPT ![one].num = @ - 1]]
    /\ UNCHANGED <<proc, file, cell, local, making, dmap, reader_counter, pub, dump, rd>>

(* [write, seen, timers]: whether this tick publishes, and the new statics. *)
should_write ==
    IF reader_counter # pub.seen THEN [write |-> TRUE, seen |-> reader_counter, timers |-> 0]
    ELSE IF pub.timers > Duration THEN [write |-> FALSE, seen |-> pub.seen, timers |-> pub.timers]
    ELSE [write |-> (pub.timers + 1) % Interval = 0, seen |-> pub.seen, timers |-> pub.timers + 1]

handle_timer_expired ==
    /\ proc = "up"
    /\ LET w == should_write
           Owner(c) == CHOOSE o \in DOMAIN dmap : dmap[o] = c
       IN /\ pub' = [seen |-> w.seen, timers |-> w.timers]
          /\ IF ~w.write THEN UNCHANGED <<cell, dump>>
             ELSE /\ dump' = FALSE
                  /\ cell' = [c \in Cells |-> IF \E o \in DOMAIN dmap : dmap[o] = c
                                              THEN [cell[c] EXCEPT !.by = Owner(c), !.n = local[Owner(c)]]
                                              ELSE cell[c]]
    /\ rd' = [r \in Readers |-> [rd[r] EXCEPT !.ticked = @ \/ rd[r].pc = "wait"]]
    /\ UNCHANGED <<proc, file, local, making, dmap, mc, bits, joined, reader_counter>>

-----------------------------------------------------------------------------
(* The reader.                                                              *)

(* Files of processes that are gone are removed.                            *)
clean_inactive_sh_ibj ==
    /\ file /\ proc = "crashed"
    /\ file' = FALSE
    /\ UNCHANGED <<proc, cell, local, making, dmap, mc, bits, joined, reader_counter, pub, dump, rd>>

zero_counters == [c \in Cells |-> IF c[1] = "skt" /\ ~cell[c].enabled THEN cell[c]
                                  ELSE IF c[1] = "epoll" /\ ~cell[c].enabled THEN cell[c]
                                  ELSE [cell[c] EXCEPT !.n = 0]]

(* Maps the file, applies the options and loads the counter to increment.   *)
init_print_process_stats(r) ==
    /\ file /\ proc = "up" /\ rd[r].pc = "idle" /\ reader_counter < MaxRequests
    /\ \E o \in Options :
         /\ cell' = IF "zero" \in o THEN zero_counters ELSE cell
         /\ dump' = (dump \/ "dump" \in o)
         /\ rd' = [rd EXCEPT ![r] = [IdleReader EXCEPT !.pc = "inc", !.opts = o, !.load = reader_counter,
                                       !.zeroed = IF "zero" \in o THEN [x \in DOMAIN dmap |-> local[x]]
                                                    ELSE <<>>]]
    /\ UNCHANGED <<proc, file, local, making, dmap, mc, bits, joined, reader_counter, pub>>

inc_read_counter(r) ==
    /\ rd[r].pc = "inc"
    /\ reader_counter' = rd[r].load + 1
    /\ rd' = [rd EXCEPT ![r].pc = IF rd[r].cycles = 0 THEN "wait" ELSE "again",
                        ![r].asked = IF rd[r].cycles = 0 THEN [o \in DOMAIN dmap |-> local[o]] ELSE @,
                        ![r].ticked = FALSE]
    /\ UNCHANGED <<proc, file, cell, local, making, dmap, mc, bits, joined, pub, dump>>

(* The sleep, in microseconds, as the compiler sees it: the macro for the   *)
(* milliseconds is a sum without parentheses, and only its last term is     *)
(* multiplied.                                                              *)
TimerPeriod == 10 * 1000
ReaderSleep == 10 + 5 * 1000

(* After the one sleep, which a tick is sure to fall into only if it is as  *)
(* long as the timer's period: a dump leaves at once; deltas start from     *)
(* what the memory holds now.                                               *)
stats_reader_handler(r) ==
    /\ rd[r].pc = "wait"
    /\ ReaderSleep >= TimerPeriod => rd[r].ticked
    /\ rd' = [rd EXCEPT ![r] = IF "dump" \in @.opts THEN [@ EXCEPT !.pc = "done"]
                               ELSE IF "deltas" \in @.opts
                               THEN [@ EXCEPT !.pc = "again", !.prev = Numbers, !.base = Numbers]
                               ELSE [@ EXCEPT !.pc = "again"]]
    /\ UNCHANGED <<proc, file, cell, local, making, dmap, mc, bits, joined, reader_counter, pub, dump>>

update_delta(cur, prev) == [c \in Cells |-> cur[c] - prev[c]]

(* What the next cycle starts from: the deltas were computed in place, and  *)
(* the buffer pools' are not copied over.                                   *)
NextPrev(cur, delta) == [c \in Cells |-> IF c[1] = "bpool" THEN delta[c] ELSE cur[c]]

ReadCycle(r) ==
    /\ rd[r].pc = "again" /\ rd[r].cycles < MaxCycles
    /\ LET x == rd[r]
           delta == update_delta(Numbers, x.prev)
       IN rd' = [rd EXCEPT ![r] =
                   IF "deltas" \in x.opts
                   THEN [x EXCEPT !.pc = "shown", !.cycles = @ + 1, !.cur = Numbers,
                                  !.shown = delta, !.prev = NextPrev(Numbers, delta),
                                  !.base = IF x.cycles = 0 THEN x.base ELSE x.cur]
                   ELSE [x EXCEPT !.pc = "shown", !.cycles = @ + 1, !.shown = Numbers]]
    /\ UNCHANGED <<proc, file, cell, local, making, dmap, mc, bits, joined, reader_counter, pub, dump>>

(* The end of a cycle: sleep, ask again, and leave when the process is gone *)
(* or the cycles are over.                                                  *)
NextCycle(r) ==
    /\ rd[r].pc = "shown"
    /\ rd' = [rd EXCEPT ![r] = IF proc = "up" /\ @.cycles < MaxCycles
                               THEN [@ EXCEPT !.pc = "inc", !.load = reader_counter, !.shown = NoRead, !.base = NoRead,
                                              !.asked = <<>>, !.zeroed = <<>>]
                               ELSE IdleReader]
    /\ UNCHANGED <<proc, file, cell, local, making, dmap, mc, bits, joined, reader_counter, pub, dump>>

cleanup(r) ==
    /\ rd[r].pc = "done"
    /\ rd' = [rd EXCEPT ![r] = IdleReader]
    /\ UNCHANGED <<proc, file, cell, local, making, dmap, mc, bits, joined, reader_counter, pub, dump>>

StatsInit ==
    /\ proc = "none" /\ file = FALSE
    /\ cell = [c \in Cells |-> EmptyCell]
    /\ local = <<>> /\ making = NoObject /\ dmap = <<>>
    /\ mc = [max |-> 0, tbl |-> [i \in 1..McTableSize |-> [grp |-> NoObject, num |-> 0]]]
    /\ bits = [s \in Sockets |-> {}] /\ joined = [s \in Sockets |-> {}]
    /\ reader_counter = 0 /\ pub = [seen |-> 0, timers |-> Duration + 1] /\ dump = FALSE
    /\ rd = [r \in Readers |-> IdleReader]

StatsNext ==
    \/ vma_shmem_stats_open \/ vma_shmem_stats_close \/ Crash \/ add_data_reader
    \/ handle_timer_expired \/ clean_inactive_sh_ibj
    \/ \E o \in Objects : \/ Count(o)
                          \/ vma_stats_instance_create_socket_block(o)
                          \/ vma_stats_instance_create_ring_block(o)
                          \/ vma_stats_instance_create_cq_block(o)
                          \/ vma_stats_instance_create_bpool_block(o)
                          \/ vma_stats_instance_create_epoll_block(o)
                          \/ vma_stats_instance_remove_socket_block(o)
                          \/ vma_stats_instance_remove_ring_block(o)
                          \/ vma_stats_instance_remove_cq_block(o)
                          \/ vma_stats_instance_remove_bpool_block(o)
                          \/ vma_stats_instance_remove_epoll_block(o)
    \/ \E g \in Groups, s \in Sockets : vma_stats_mc_group_add(g, s) \/ vma_stats_mc_group_remove(g, s)
    \/ \E r \in Readers : \/ init_print_process_stats(r) \/ inc_read_counter(r)
                          \/ stats_reader_handler(r) \/ ReadCycle(r) \/ NextCycle(r) \/ cleanup(r)

StatsSpec == StatsInit /\ [][StatsNext]_statsVars

-----------------------------------------------------------------------------
(* The shapes of the shared memory and of the two programs' state.          *)
StatsTypeOK ==
    /\ proc \in {"none", "up", "closed", "crashed"} /\ file \in BOOLEAN
    /\ \A c \in Cells : cell[c].owner \in Objects \cup {NoObject} /\ cell[c].n \in 0..MaxCount
    /\ making \in Objects \cup {NoObject}
    /\ mc.max \in 0..McTableSize
    /\ pub.timers \in 0..(Duration + 1)

(* A block belongs to one object at a time: the enabled blocks are those    *)
(* the timer copies to, one each, and what the timer left in a block is     *)
(* never another object's, but for the moment between enabling a block and  *)
(* clearing it and for epoll sets, whose block is not cleared.              *)
BlocksOwned ==
    proc = "up" =>
    /\ \A o \in DOMAIN dmap : cell[dmap[o]].enabled /\ cell[dmap[o]].owner = o
    /\ \A c \in Cells : cell[c].enabled =>
         /\ cell[c].owner = making \/ \E o \in DOMAIN dmap : dmap[o] = c
         /\ cell[c].owner # making /\ c[1] # "epoll" => cell[c].by \in {cell[c].owner, NoObject}

(* A reader that asked is served once the publisher's timer has run: its    *)
(* first report has at least what each object registered then had counted   *)
(* when it asked, and a dump it asked for has been made.                    *)
Served(r) ==
    /\ (rd[r].pc = "shown" /\ rd[r].cycles = 1 /\ "deltas" \notin rd[r].opts) =>
         \A o \in DOMAIN rd[r].asked : rd[r].shown[dmap[o]] >= rd[r].asked[o]
    /\ rd[r].pc = "done" => ~dump
RequestsServed == \A r \in Readers : rd[r].ticked => Served(r)

(* A report of deltas is the difference of two consecutive readings, but    *)
(* for the buffer pools, whose previous reading is never renewed.           *)
DeltasExact ==
    \A r \in Readers : (rd[r].pc = "shown" /\ "deltas" \in rd[r].opts) =>
        \A c \in Cells : c[1] # "bpool" => rd[r].shown[c] = rd[r].cur[c] - rd[r].base[c]

=============================================================================
