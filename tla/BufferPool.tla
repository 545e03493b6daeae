----------------------------- MODULE BufferPool -----------------------------
(***************************************************************************)
(* The global buffer pool: one block of memory, registered with every      *)
(* device (vma_allocator), cut into buffers that are kept on a list linked *)
(* through p_next_desc.  Rings take buffers in batches; received packets   *)
(* are chains of buffers shared by several holders and come back when the  *)
(* last one gives its reference up.                                        *)
(***************************************************************************)
EXTENDS Integers, Sequences, FiniteSets

CONSTANTS
  Bufs,         \* the buffers of the block: 1..n
  PoolDevs,     \* number of devices
  Holders,      \* sockets that hold received packets
  AllocTypes,   \* VMA_MEM_ALLOC_TYPE: "huge", "contig", "anon"
  ContigBuild,  \* VMA_IBV_ACCESS_ALLOCATE_MR is there
  MaxTwice      \* bound: buffers a caller returns twice

Nil == 0
NoMemory == -1   \* malloc() fails

VARIABLES
  mem,      \* the allocator: [type, block, shm, list, stray, state]
  head,     \* m_p_head
  next,     \* p_next_desc
  count,    \* m_n_buffers
  ref,      \* n_ref_count
  pref,     \* lwip_pbuf.pbuf.ref
  ring,     \* buffers a ring has taken (a descq_t)
  held,     \* holder -> chains it has a reference to
  twice,    \* ghost: buffers returned twice
  report    \* buffersPanic: none, or what it reports

poolVars == <<mem, head, next, count, ref, pref, ring, held, twice, report>>

(* The chain from b, as far as it goes without meeting a buffer again.     *)
RECURSIVE ChainOf(_, _, _)
ChainOf(nx, b, seen) == IF b = Nil \/ b \in seen THEN {} ELSE {b} \cup ChainOf(nx, nx[b], seen \cup {b})
Chain(nx, b) == ChainOf(nx, b, {})

-----------------------------------------------------------------------------
(* vma_allocator.  n is the number of devices that register the block.     *)
(* A failure with a block throws; without one (contiguous mode) the next   *)
(* mode is tried, and the list of regions is overwritten.                  *)
register_memory(m, n, block) ==
  LET over == [m EXCEPT !.list = n, !.stray = @ + m.list]
  IN CASE n = PoolDevs -> [over EXCEPT !.block = block, !.state = "ready"]
       [] n < PoolDevs /\ m.block # "none" -> [over EXCEPT !.state = "thrown"]
       [] n < PoolDevs /\ m.block = "none" -> over

(* Shared memory of huge pages: none left, not attached, not locked, or    *)
(* there.                                                                  *)
hugetlb_alloc(m, how) ==
  CASE how = "none" -> [m EXCEPT !.type = "contig"]
    [] how = "unlocked" -> m
    [] how = "there" -> [m EXCEPT !.block = "huge", !.shm = TRUE]

Contig(m, n) == IF ContigBuild THEN register_memory(m, n, "contig") ELSE m
Anon(m, n) == IF n = NoMemory THEN [m EXCEPT !.state = "thrown"] ELSE register_memory([m EXCEPT !.block = "anon"], n, "anon")

(* alloc_and_reg_mr: huge pages, else contiguous pages, else malloc.       *)
alloc_and_reg_mr(m, how, n1, n2) ==
  LET huge == IF m.type = "huge" THEN hugetlb_alloc(m, how) ELSE m
      contig == IF m.type = "anon" THEN m ELSE Contig(huge, n1)
  IN CASE huge.block = "huge" -> register_memory(huge, n1, "huge")
       [] huge.block # "huge" /\ contig.state = "ready" -> contig
       [] huge.block # "huge" /\ contig.state # "ready" -> Anon(contig, n2)

(* ~vma_allocator: the regions of the list are given back, then the block  *)
(* (in contiguous mode with its region).                                   *)
DestroyAllocator(m) == [m EXCEPT !.list = 0, !.block = "none", !.shm = FALSE, !.state = "destroyed"]

-----------------------------------------------------------------------------
(* The pool as a record: what the operations under m_lock_spin change.     *)
Pool == [head |-> head, next |-> next, count |-> count, ref |-> ref, pref |-> pref]
put_buffer_helper(p, b) ==
  [p EXCEPT !.head = b, !.next = [@ EXCEPT ![b] = p.head], !.count = @ + 1, !.pref = [@ EXCEPT ![b] = 0]]

RECURSIVE Split(_, _)
Split(p, bs) == IF bs = <<>> THEN p ELSE Split(put_buffer_helper(p, Head(bs)), Tail(bs))

(* The constructor: the block is cut into buffers.                         *)
buffer_pool ==
  /\ mem.state = "none"
  /\ \E how \in {"none", "unlocked", "there"}, n1 \in 0..PoolDevs, n2 \in NoMemory..PoolDevs :
       LET m == alloc_and_reg_mr(mem, how, n1, n2)
           p == Split(Pool, [i \in 1..Cardinality(Bufs) |-> i])
       IN IF m.state = "ready"
          THEN mem' = m /\ head' = p.head /\ next' = p.next /\ count' = p.count
          ELSE mem' = DestroyAllocator(m) /\ UNCHANGED <<head, next, count>>
  /\ UNCHANGED <<ref, pref, ring, held, twice, report>>

free_bpool_resources ==
  /\ mem.state = "ready" /\ report = <<>>
  /\ mem' = DestroyAllocator(mem)
  /\ UNCHANGED <<head, next, count, ref, pref, ring, held, twice, report>>

Live == mem.state = "ready" /\ report = <<>>

RECURSIVE Pop(_, _, _)
Pop(p, q, n) == IF n = 0 THEN <<p, q>>
  ELSE Pop([p EXCEPT !.head = p.next[p.head], !.next = [p.next EXCEPT ![p.head] = Nil]], Append(q, p.head), n - 1)

(* No more is taken once a caller has returned a buffer twice: the list    *)
(* may be broken before the next return finds it out.                      *)
get_buffers_thread_safe(n) ==
  /\ Live /\ twice = {} /\ count >= n
  /\ LET r == Pop([Pool EXCEPT !.count = @ - n], ring, n)
     IN head' = r[1].head /\ next' = r[1].next /\ count' = r[1].count /\ ring' = r[2]
  /\ UNCHANGED <<mem, ref, pref, held, twice, report>>

-----------------------------------------------------------------------------
(* isCircle: the hare takes two steps, the tortoise one.                   *)
RECURSIVE Meet(_, _, _)
Meet(nx, p1, p2) ==
  IF nx[p2] = Nil THEN FALSE
  ELSE IF nx[nx[p2]] = Nil THEN FALSE
  ELSE IF nx[p1] = nx[nx[p2]] THEN TRUE
  ELSE Meet(nx, nx[p1], nx[nx[p2]])
isCircle(nx, b) == b # Nil /\ Meet(nx, b, b)

RECURSIVE Meeting(_, _, _), Start(_, _, _, _), Length(_, _, _, _)
Meeting(nx, t, h) == IF t = h THEN t ELSE Meeting(nx, nx[t], nx[nx[h]])
Start(nx, t, h, mu) == IF t = h THEN <<mu, t>> ELSE Start(nx, nx[t], nx[h], mu + 1)
Length(nx, t, h, lambda) == IF t = h THEN lambda ELSE Length(nx, t, nx[h], lambda + 1)

(* The first index on the circle and the length of the circle.             *)
Floyd_LogCircleInfo(nx, x0) ==
  LET meet == Meeting(nx, nx[x0], nx[nx[x0]])
      start == Start(nx, x0, meet, 0)
  IN <<start[1], Length(nx, start[2], nx[start[2]], 1)>>

buffersPanic(p) == IF isCircle(p.next, p.head) THEN Floyd_LogCircleInfo(p.next, p.head) ELSE <<0, 0>>

(* put_buffers: a whole chain goes back, buffer by buffer.                 *)
RECURSIVE put_buffers(_, _)
put_buffers(p, b) == IF b = Nil THEN p ELSE put_buffers(put_buffer_helper(p, b), p.next[b])

Becomes(p) ==
  /\ head' = p.head /\ next' = p.next /\ count' = p.count /\ ref' = p.ref /\ pref' = p.pref
  /\ report' = IF p.count > Cardinality(Bufs) THEN buffersPanic(p) ELSE report

RECURSIVE PutAll(_, _)
PutAll(p, bs) == IF bs = <<>> THEN p ELSE PutAll(put_buffers(p, bs[Len(bs)]), SubSeq(bs, 1, Len(bs) - 1))

(* put_buffers(queue, n): the last n chains of the queue.                  *)
put_buffers_queue(n) ==
  /\ Live /\ n <= Len(ring)
  /\ Becomes(PutAll(Pool, SubSeq(ring, Len(ring) - n + 1, Len(ring))))
  /\ ring' = SubSeq(ring, 1, Len(ring) - n)
  /\ UNCHANGED <<mem, held, twice>>

put_buffers_thread_safe ==
  /\ Live /\ ring # <<>>
  /\ Becomes(put_buffers(Pool, Head(ring))) /\ ring' = Tail(ring)
  /\ UNCHANGED <<mem, held, twice>>

(* A holder gives its reference up.  Both counts are looked at before they *)
(* are decremented, the second only when the first is at its end.          *)
Deref(p, b) ==
  LET q == [p EXCEPT !.ref = [@ EXCEPT ![b] = @ - 1],
                     !.pref = [@ EXCEPT ![b] = IF p.ref[b] <= 1 THEN @ - 1 ELSE @]]
  IN IF p.ref[b] <= 1 /\ p.pref[b] <= 1 THEN put_buffers(q, b) ELSE q

RECURSIVE DerefAll(_, _)
DerefAll(p, bs) == IF bs = <<>> THEN p ELSE DerefAll(Deref(p, Head(bs)), Tail(bs))

put_buffers_after_deref_thread_safe(h) ==
  /\ Live /\ held[h] # <<>>
  /\ Becomes(DerefAll(Pool, held[h])) /\ held' = [held EXCEPT ![h] = <<>>]
  /\ UNCHANGED <<mem, ring, twice>>

-----------------------------------------------------------------------------
(* The users.  A packet of one or two buffers is received by one or more   *)
(* holders.                                                                *)
Receive(hs, n) ==
  /\ Live /\ n <= Len(ring)
  /\ LET b == ring[1]
     IN /\ next' = IF n = 2 THEN [next EXCEPT ![b] = ring[2]] ELSE next
        /\ ref' = [ref EXCEPT ![b] = Cardinality(hs)] /\ pref' = [pref EXCEPT ![b] = 1]
        /\ held' = [h \in Holders |-> IF h \in hs THEN Append(held[h], b) ELSE held[h]]
  /\ ring' = SubSeq(ring, n + 1, Len(ring))
  /\ UNCHANGED <<mem, head, count, twice, report>>

(* A caller returns a buffer that is in the pool.                          *)
ReturnTwice(b) ==
  /\ Live /\ Cardinality(twice) < MaxTwice /\ b \in Chain(next, head)
  /\ Becomes(put_buffers(Pool, b))
  /\ twice' = twice \cup {b}
  /\ UNCHANGED <<mem, ring, held>>

PoolInit ==
  /\ \E type \in AllocTypes :
       mem = [type |-> type, block |-> "none", shm |-> FALSE, list |-> 0, stray |-> 0, state |-> "none"]
  /\ head = Nil /\ next = [b \in Bufs |-> Nil] /\ count = 0 /\ ring = <<>> /\ held = [h \in Holders |-> <<>>]
  /\ ref = [b \in Bufs |-> 0] /\ pref = ref /\ twice = {} /\ report = <<>>

PoolNext ==
  \/ buffer_pool \/ free_bpool_resources \/ put_buffers_thread_safe
  \/ \E n \in 1..Cardinality(Bufs) : get_buffers_thread_safe(n) \/ put_buffers_queue(n)
  \/ \E h \in Holders : put_buffers_after_deref_thread_safe(h)
  \/ \E hs \in SUBSET Holders \ {{}}, n \in 1..2 : Receive(hs, n)
  \/ \E b \in Bufs : ReturnTwice(b)

PoolSpec == PoolInit /\ [][PoolNext]_poolVars

-----------------------------------------------------------------------------
(* The list and the counts are what they are declared.                     *)
PoolTypeOK ==
  /\ head \in Bufs \cup {Nil} /\ next \in [Bufs -> Bufs \cup {Nil}] /\ count \in 0..(2 * Cardinality(Bufs))
  /\ mem.list \in 0..PoolDevs /\ mem.block \in {"none", "huge", "contig", "anon"}
  /\ mem.state = "ready" => mem.list = PoolDevs /\ mem.block # "none"

Out == UNION ({Chain(next, ring[i]) : i \in DOMAIN ring}
       \cup {UNION {Chain(next, held[h][i]) : i \in DOMAIN held[h]} : h \in Holders})

(* As long as no caller returns a buffer twice, the list of the pool has   *)
(* m_n_buffers buffers and no circle, and every buffer is on it or out     *)
(* with a ring or a holder, never both.                                    *)
PoolIsExact == mem.state = "ready" /\ twice = {} =>
  /\ ~isCircle(next, head)
  /\ count = Cardinality(Chain(next, head))
  /\ Chain(next, head) \cap Out = {}
  /\ Chain(next, head) \cup Out = Bufs

RECURSIVE Walk(_, _)
Walk(b, n) == IF n = 0 \/ b = Nil THEN b ELSE Walk(next[b], n - 1)

(* buffersPanic finds the circle that a second return makes: the index of  *)
(* its first buffer and its length are the smallest with which the list    *)
(* repeats itself.                                                         *)
PanicFindsTheCircle == report # <<>> /\ report # <<0, 0>> =>
  LET mu == report[1]
      lambda == report[2]
  IN /\ lambda > 0 /\ Walk(head, mu) # Nil /\ Walk(head, mu) = Walk(head, mu + lambda)
     /\ \A l \in 1..(lambda - 1) : Walk(head, mu) # Walk(head, mu + l)
     /\ mu > 0 => Walk(head, mu - 1) # Walk(head, mu - 1 + lambda)

=============================================================================
