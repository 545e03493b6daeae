------------------------------- MODULE Mlx5Sq -------------------------------
(***************************************************************************)
(* The send queue of qp_mgr_eth_mlx5 and the send side of cq_mgr_mlx5: a   *)
(* packet becomes a work queue element of one to four basic blocks         *)
(* (WQEBB), inlined up to m_max_inline_data bytes and wrapped round the    *)
(* end of the queue, and is handed to the device through the BlueFlame     *)
(* register; a completion carries the block counter of its element, which  *)
(* indexes m_sq_wqe_idx_to_wrid.                                           *)
(*                                                                         *)
(* Lengths count words of four bytes, after the 18 bytes of header that    *)
(* every element inlines.  The device (external) executes elements in      *)
(* order, and gives the queue Blocks blocks for the work requests and the  *)
(* inline size it was asked for.                                           *)
(***************************************************************************)
EXTENDS Naturals, Sequences, FiniteSets, SequencesExt

CONSTANTS Blocks,      \* m_tx_num_wr after init_sq: blocks of the queue, a power of two
          Credits,     \* the ring's m_tx_num_wr
          CtrSpace,    \* size of the 16-bit block counter, a multiple of Blocks
          TxMaxInline, \* VMA_TX_MAX_INLINE, in words
          DataLens,    \* lengths of the packets sent
          SqBufs,      \* transmit buffers
          SignalEvery, \* VMA_TX_NUM_WRE_TO_SIGNAL
          MaxDowns     \* Bound: restarts

VARIABLES counter,   \* m_sq_wqe_counter
          hot,       \* m_sq_wqe_hot_index
          maxInline, \* m_max_inline_data
          mem,       \* the queue's memory: what each block holds
          wrid,      \* m_sq_wqe_idx_to_wrid
          hwq,       \* elements the device has not executed
          cqes,      \* completions not polled
          chain,     \* m_p_last_tx_mem_buf_desc and the buffers linked to it
          linked,    \* the list that hangs on each signaled buffer
          unsig,     \* m_n_unsignaled_count
          credit,    \* m_tx_num_wr_free
          wire,      \* what the device read for the last element it executed
          lost,      \* buffers whose completion will never be asked for
          downs

sqVars == <<counter, hot, maxInline, mem, wrid, hwq, cqes, chain, linked, unsig,
            credit, wire, lost, downs>>

NoBuf == 0
Zero == <<NoBuf, 0>>
UpTo4(n) == (n + 3) \div 4

\* Words of a block, of the control and Ethernet segments, of the largest inline.
BlockWords == 16
CtrlWords == 12
InlineWords == 3 * BlockWords + 3

InFlight == UNION {linked[b] : b \in SqBufs} \cup {chain[i] : i \in DOMAIN chain}
Idle == SqBufs \ (InFlight \cup lost)

---------------------------------------------------------------------------
\* The queue starts over; the inline size is the largest BlueFlame can take.
init_sq == [counter |-> 0, hot |-> 0, maxInline |-> InlineWords,
            mem |-> [i \in 0..(Blocks - 1) |-> Zero]]

SqInit == /\ counter = init_sq.counter /\ hot = init_sq.hot
          /\ maxInline = init_sq.maxInline
          /\ mem = init_sq.mem
          /\ wrid = [i \in 0..(Blocks - 1) |-> NoBuf]
          /\ hwq = <<>> /\ cqes = <<>>
          /\ chain = <<>>
          /\ linked = [b \in SqBufs |-> {}]
          /\ unsig = SignalEvery - 1
          /\ credit = Credits
          /\ wire = TRUE
          /\ lost = {} /\ downs = 0

---------------------------------------------------------------------------

\* The blocks of the element: <<at the end of the queue, at its start>>.
fill_wqe(len) ==
    LET left == (Blocks - hot) * BlockWords - CtrlWords - 1
        rest == IF left < InlineWords THEN left ELSE InlineWords
    IN  IF len > maxInline THEN <<1, 0>>  \* one data pointer segment
        ELSE IF len <= rest THEN <<UpTo4(3 + UpTo4(len + 1)), 0>>
        ELSE <<UpTo4(UpTo4(rest + 1)), UpTo4(UpTo4(len - rest))>>

\* The blocks copied to the BlueFlame register, in order.
send_by_bf(m, n) == [k \in 1..(n[1] + n[2]) |->
                        IF k <= n[1] THEN m[hot + k - 1] ELSE m[k - n[1] - 1]]

\* Where block k of an element that starts at counter c lies.
At(c, k) == (c + k) % Blocks

\* The element of buf is written, posted, and the next one prepared.
send_to_wire(buf, len, comp) ==
    LET n     == fill_wqe(len)
        total == n[1] + n[2]
        m     == [i \in DOMAIN mem |->
                    IF \E k \in 0..(total - 1) : At(hot, k) = i
                    THEN <<buf, CHOOSE k \in 0..(total - 1) : At(hot, k) = i>>
                    ELSE mem[i]]
        next  == (counter + total) % CtrSpace
    IN  [counter |-> next,
         hot |-> next % Blocks,
         mem |-> [m EXCEPT ![next % Blocks] = Zero],
         wrid |-> [wrid EXCEPT ![hot] = buf],
         wqe |-> [start |-> counter, n |-> total, buf |-> buf, comp |-> comp, err |-> FALSE,
                  bf |-> send_by_bf(m, n)]]

\* process_tx_buffer_list: the buffer and the ones sent before it are free,
\* and the model forgets their entries.
Release(q, c, l, w, b) ==
    [cqes |-> q, credit |-> c + Cardinality(l[b]), linked |-> [l EXCEPT ![b] = {}],
     wrid |-> [i \in DOMAIN w |-> IF w[i] \in l[b] THEN NoBuf ELSE w[i]]]

\* One completion, of a send or of an error, if there is one.
poll_and_process_element_tx(q, c, l, w) ==
    IF q = <<>> \/ w[Head(q).start % Blocks] = NoBuf
    THEN [cqes |-> IF q = <<>> THEN q ELSE Tail(q), credit |-> c, linked |-> l, wrid |-> w]
    ELSE Release(Tail(q), c, l, w, w[Head(q).start % Blocks])

\* qp_mgr::send with a buffer and a credit of the ring.
send ==
    \E buf \in Idle, len \in DataLens :
       LET comp == unsig = 0
           s    == send_to_wire(buf, len, comp)
           l    == [linked EXCEPT ![buf] = IF comp THEN {buf} \cup {chain[i] : i \in DOMAIN chain} ELSE {}]
           p    == poll_and_process_element_tx(cqes, credit - 1, l, s.wrid)
       IN  /\ credit > 0
           /\ counter' = s.counter /\ hot' = s.hot /\ mem' = s.mem
           /\ hwq' = Append(hwq, s.wqe)
           /\ IF comp
              THEN /\ chain' = <<>> /\ unsig' = SignalEvery - 1
                   /\ cqes' = p.cqes /\ credit' = p.credit /\ linked' = p.linked /\ wrid' = p.wrid
              ELSE /\ chain' = <<buf>> \o chain /\ unsig' = unsig - 1
                   /\ cqes' = cqes /\ credit' = credit - 1 /\ linked' = l /\ wrid' = s.wrid
           /\ UNCHANGED <<maxInline, wire, lost, downs>>

\* The device executes the oldest element, from BlueFlame or from memory;
\* nobody reads its blocks again, and the model forgets them.
HwExecutes ==
    /\ hwq # <<>>
    /\ LET w    == Head(hwq)
           want == [k \in 1..w.n |-> <<w.buf, k - 1>>]
           read == [k \in 1..w.n |-> mem[At(w.start, k - 1)]]
       IN  /\ wire' = (w.bf = want /\ read = want)
           /\ \E err \in BOOLEAN :
                 cqes' = IF w.comp THEN Append(cqes, [w EXCEPT !.err = err]) ELSE cqes
           /\ mem' = [i \in DOMAIN mem |-> IF mem[i][1] = w.buf THEN Zero ELSE mem[i]]
    /\ hwq' = Tail(hwq)
    /\ UNCHANGED <<counter, hot, maxInline, wrid, chain, linked, unsig, credit, lost, downs>>

\* The ring polls the send completions: a sender out of credit, or request_notification.
PollTx ==
    /\ cqes # <<>>
    /\ LET p == poll_and_process_element_tx(cqes, credit, linked, wrid)
       IN  cqes' = p.cqes /\ credit' = p.credit /\ linked' = p.linked /\ wrid' = p.wrid
    /\ UNCHANGED <<counter, hot, maxInline, mem, hwq, chain, unsig, wire, lost, downs>>

\* down and up: the queue goes to the error state, a dummy signaled element
\* closes the unsignaled list (if there are a buffer and a credit), every
\* element is flushed, the completions are drained and the queue starts over.
trigger_completion_for_all_sent_packets ==
    IF chain = <<>> THEN [lost |-> {}, back |-> 0]
    ELSE IF Idle = {} \/ credit = 0
         THEN [lost |-> {chain[i] : i \in DOMAIN chain} \cup
                        (IF Idle = {} THEN {} ELSE {CHOOSE b \in Idle : TRUE}), back |-> 0]
    ELSE [lost |-> {}, back |-> Len(chain)]

restart ==
    /\ downs < MaxDowns
    /\ LET t == trigger_completion_for_all_sent_packets
           signaled == UNION {linked[b] : b \in SqBufs}
       IN  /\ lost' = lost \cup t.lost
           /\ credit' = credit + t.back + Cardinality(signaled)
    /\ LET q == init_sq
       IN counter' = q.counter /\ hot' = q.hot /\ maxInline' = q.maxInline /\ mem' = q.mem
    /\ hwq' = <<>> /\ cqes' = <<>> /\ chain' = <<>>
    /\ linked' = [b \in SqBufs |-> {}]
    /\ unsig' = SignalEvery - 1
    /\ downs' = downs + 1
    /\ wrid' = [i \in DOMAIN wrid |-> NoBuf]
    /\ UNCHANGED wire

SqNext == send \/ HwExecutes \/ PollTx \/ restart

SqSpec == SqInit /\ [][SqNext]_sqVars

---------------------------------------------------------------------------
(* The block the next element starts at is the counter's, and every credit *)
(* of the ring is free or held by a buffer in flight or lost with one.     *)
SqTypeOK ==
    /\ counter \in 0..(CtrSpace - 1)
    /\ hot = counter % Blocks
    /\ mem \in [0..(Blocks - 1) -> (SqBufs \cup {NoBuf}) \X (0..3)]
    /\ unsig \in 0..(SignalEvery - 1)
    /\ credit \in 0..Credits
    /\ credit + Cardinality(InFlight) <= Credits

(* A completion's counter finds the buffer of its element, and what the    *)
(* device reads, from BlueFlame or from the queue's memory, is what the    *)
(* sender wrote: no element that is not executed is overwritten, by the    *)
(* wrap round the end of the queue, by a later element or by the zeroing   *)
(* of the next one (fill_wqe, send_to_wire, poll_and_process_element_tx).  *)
SqElementsIntact ==
    /\ wire
    /\ \A i \in DOMAIN hwq :
          /\ \A k \in 1..hwq[i].n : hwq[i].bf[k] = <<hwq[i].buf, k - 1>>
                                    /\ mem[At(hwq[i].start, k - 1)] = <<hwq[i].buf, k - 1>>
          /\ wrid[hwq[i].start % Blocks] = hwq[i].buf
    /\ \A i \in DOMAIN cqes : wrid[cqes[i].start % Blocks] = cqes[i].buf

-----------------------------------------------------------------------------
(***************************************************************************)
(* dm_mgr: the on-device memory of a send queue, a cyclic buffer of which  *)
(* only the head and the number of bytes in use are kept.  A packet takes  *)
(* a contiguous piece; one that does not fit before the end skips to the   *)
(* start and owns the skipped bytes too.  Pieces are released by           *)
(* completions, and by put_tx_single_buffer when TCP frees a segment, in   *)
(* any order once the device (external) has read them.                     *)
(***************************************************************************)


CONSTANTS DmSize,  \* m_allocation, a multiple of DmAlign
          DmAlign, \* 8 bytes, as a number of units
          DmLens,  \* lengths of the packets
          MaxPosts \* Bound: packets between the post and the release

VARIABLES enabled, \* m_dm_enabled
          head,    \* m_head
          inUse,   \* m_used
          posts    \* packets in device memory: <<offset, size, dev_mem_length, read by the device>>

dmVars == <<enabled, head, inUse, posts>>

AlignUp(n) == ((n + DmAlign - 1) \div DmAlign) * DmAlign

DmInit == /\ enabled \in BOOLEAN  \* allocate_resources may fail
          /\ head = 0 /\ inUse = 0 /\ posts = <<>>

---------------------------------------------------------------------------
\* The piece that copy_data gives to n bytes: its offset and dev_mem_length,
\* or none (the packet is sent from the registered buffer).
NoPiece == <<0, 0>>

(* Mutant: it is not checked that the piece fits before the oldest one.    *)
PieceUnchecked(n) ==
    LET left == DmSize - head
    IN  IF inUse >= DmSize THEN NoPiece
        ELSE IF head >= inUse
             THEN IF left >= n THEN <<head, n>>
                  ELSE IF head - inUse >= n THEN <<0, left + n>> ELSE NoPiece
        ELSE <<head, n>>

Piece(n) ==
    LET left == DmSize - head
    IN  IF inUse >= DmSize THEN NoPiece
        ELSE IF head >= inUse
             THEN IF left >= n THEN <<head, n>>
                  ELSE IF head - inUse >= n THEN <<0, left + n>> ELSE NoPiece
        ELSE IF DmSize - inUse < n THEN NoPiece ELSE <<head, n>>

\* copy_data of a packet.
copy_data ==
    /\ enabled /\ Len(posts) < MaxPosts
    /\ \E len \in DmLens :
          LET n == AlignUp(len)
              p == Piece(n)
          IN  /\ p # NoPiece
              /\ posts' = Append(posts, <<p[1], n, p[2], FALSE>>)
              /\ head' = (p[1] + n) % DmSize
              /\ inUse' = inUse + p[2]
    /\ UNCHANGED enabled

\* The device reads the packets in the order they were posted.
DmRead ==
    /\ \E i \in DOMAIN posts :
          /\ ~posts[i][4] /\ \A j \in 1..(i - 1) : posts[j][4]
          /\ posts' = [posts EXCEPT ![i][4] = TRUE]
    /\ UNCHANGED <<enabled, head, inUse>>

release_data ==
    /\ \E i \in DOMAIN posts :
          /\ posts[i][4]
          /\ inUse' = inUse - posts[i][3]
          /\ posts' = RemoveAt(posts, i)
    /\ UNCHANGED <<enabled, head>>

\* down and up of the queue: the memory is freed, the flushed packets are
\* released, and memory is allocated again if it can; the head stays.
dm_restart ==
    /\ inUse' = inUse - FoldLeft(LAMBDA a, p : a + p[3], 0, posts)
    /\ posts' = <<>>
    /\ enabled' \in BOOLEAN
    /\ UNCHANGED head

DmNext == copy_data \/ DmRead \/ release_data \/ dm_restart

DmSpec == DmInit /\ [][DmNext]_dmVars

---------------------------------------------------------------------------
(* The head and the bytes in use of the cyclic buffer.                     *)
DmTypeOK == head \in 0..(DmSize - 1) /\ inUse \in 0..DmSize /\ Len(posts) <= MaxPosts

(* The device reads what was copied: the piece of a packet that it has not *)
(* read lies within the memory and meets no later piece, whatever the      *)
(* order of the releases; and the bytes in use are those of the packets    *)
(* not released, so that nothing is leaked.                                *)
DeviceReadsItsData ==
    /\ inUse = FoldLeft(LAMBDA a, p : a + p[3], 0, posts)
    /\ \A i \in DOMAIN posts : ~posts[i][4] =>
          /\ posts[i][1] + posts[i][2] <= DmSize
          /\ \A j \in (i + 1)..Len(posts) :
                \/ posts[j][1] + posts[j][2] <= posts[i][1]
                \/ posts[i][1] + posts[i][2] <= posts[j][1]
=============================================================================
