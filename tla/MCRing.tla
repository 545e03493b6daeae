------------------------------- MODULE MCRing -------------------------------
(***************************************************************************)
(* Instances of the two sides of a ring for TLC.  They share no lock, no   *)
(* queue and no pool, so a behaviour explores one of them, the subject, and*)
(* the other keeps its initial state.  The receive side has one socket     *)
(* with a blocking reader, with and without a bad checksum, or two; the    *)
(* send side has two threads.                                              *)
(***************************************************************************)
EXTENDS RingRx, TLC

CONSTANTS t1, t2, s1, s2, Subjects,
          TxThreads, NTxBufs, NumWr, ToSignal, Compensate, Kinds, MaxSends, MaxUpsets

VARIABLES subject,
  txPool, m_tx_pool, m_tx_num_bufs, p_next_desc, ref,
  m_tx_num_wr_free, m_n_unsignaled_count, m_p_last_tx_mem_buf_desc,
  sq, txCq, txErr, firstFlushed, abandoned, txArmed, hwTxArmed, txEvents,
  ringLock, waitLock, place, held, kind, inSync, unacked, failover,
  sends, txStops, fails, lostWr

txVars == <<txPool, m_tx_pool, m_tx_num_bufs, p_next_desc, ref,
  m_tx_num_wr_free, m_n_unsignaled_count, m_p_last_tx_mem_buf_desc,
  sq, txCq, txErr, firstFlushed, abandoned, txArmed, hwTxArmed, txEvents,
  ringLock, waitLock, place, held, kind, inSync, unacked, failover,
  sends, txStops, fails, lostWr>>

Tx == INSTANCE RingTx

MCTraffic == {<<t1, FALSE>>, <<t1, TRUE>>, <<Tcp, FALSE>>}
MCGoodTraffic == {<<t1, FALSE>>, <<Tcp, FALSE>>}
MCTwoSockets == {<<t1, FALSE>>, <<t2, FALSE>>}
MCConfigs == {<<TRUE, FALSE, 6>>, <<FALSE, TRUE, 6>>, <<FALSE, TRUE, 3>>}
MCOneConfig == {<<TRUE, TRUE, 6>>}
MCKinds == BOOLEAN \X BOOLEAN
MCBlocking == {<<TRUE, TRUE>>, <<FALSE, TRUE>>}
MCPlain == {<<FALSE, TRUE>>}
MCSymmetry == Permutations({s1, s2})

MCInit ==
  /\ subject \in Subjects /\ Init /\ Tx!Init
  /\ subject = "tx" => <<keepFull, swCsum, m_n_buffers_created>> = CHOOSE c \in Configs : TRUE
MCNext ==
  \/ subject = "rx" /\ Next /\ UNCHANGED <<subject, txVars>>
  \/ subject = "tx" /\ Tx!Next /\ UNCHANGED <<subject, vars>>
all == <<subject, vars, txVars>>
MCSpec == MCInit /\ [][MCNext]_all

OfRx(A) == subject = "rx" /\ A /\ UNCHANGED <<subject, txVars>>
OfTx(A) == subject = "tx" /\ A /\ UNCHANGED <<subject, vars>>

(* The fairness of the two modules, each where it is the subject: as the   *)
(* subject never changes, one condition serves an action of each.          *)
MCFairSpec ==
  /\ MCSpec
  /\ WF_all(OfRx(RingStep) \/ OfTx(Tx!Wire)) /\ WF_all(OfRx(DrainStep))
  /\ SF_all(OfRx(DrainStart) \/ OfTx(Tx!HandleFailover))
  /\ SF_all(OfRx(start_active_qp_mgr) \/ OfTx(\E b \in Tx!Bufs : Tx!Ack(b)))
  /\ WF_all(OfRx(Wait(t1)))
  /\ SF_all(OfRx(PollLocked(t1)) \/ OfTx(Tx!Thread(s1)))
  /\ SF_all(OfRx(GetEvent(t1)) \/ OfTx(Tx!Thread(s2)))

(* The type invariants of the two modules.                                 *)
TypesOK == TypeOK /\ Tx!TypeOK

(* RingRx: no receive buffer is lost or in two places; every buffer that   *)
(* the receive queue gave away is replaced, and it never runs dry while    *)
(* the ring has buffers; and each socket gets its packets in order.        *)
ReceiveExact == BuffersConserved /\ QpIsCompensated /\ QpNeverStarves /\ InOrder

(* RingTx, "ref count of %p is already zero, double free??": a buffer has  *)
(* one reference for lwip, one for the thread that is sending it and one   *)
(* for the completion that will return it, is free exactly when it has     *)
(* none, and m_tx_num_bufs counts the buffers of the ring.  Every posted   *)
(* request is one credit of m_tx_num_wr_free less until the completion of  *)
(* its list gives it back, across failovers, so the send queue never       *)
(* overflows.                                                              *)
SendAccounted == Tx!BuffersAccounted /\ Tx!CreditsAccounted

(* RingTx, "Now it is time to release the ring lock (for restart events to *)
(* be handled while this thread block on CQ channel)": a failover never    *)
(* waits for the lock of a thread that waits for the ring's lock.          *)
NoLockCycle == Tx!NoLockCycle

(* RingRx: a reader that sleeps is woken by its packets, and what TCP has  *)
(* to do is done.  RingTx: every send that waits for a buffer or a credit  *)
(* returns and every failover releases the lock of the ring: packets and   *)
(* failovers being finitely many, all come to rest, but for a failover     *)
(* that finds no buffer to close the unsignaled list with.  NumWr -        *)
(* MaxUpsets >= ToSignal, or failing post_sends would take the credits a   *)
(* signaled request needs.                                                 *)
RingAdvances == PacketWakes /\ TcpProgress /\ (subject = "tx" => Tx!EverybodyReturns)
=============================================================================
