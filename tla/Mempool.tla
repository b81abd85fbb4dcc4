------------------------------ MODULE Mempool ------------------------------
(***************************************************************************)
(* The pending transaction pool, crates/meow-nakamoto/src/mempool/mod.rs:  *)
(* a record [pending, seen] of a FIFO queue and the digests in it.         *)
(***************************************************************************)
EXTENDS Ledger

CONSTANT MaxMempool     \* MAX_MEMPOOL_SIZE

ASSUME PoolAssumption == MaxMempool \in Nat

EmptyPool == [pending |-> << >>, seen |-> {}]

\* The checks of Mempool::submit, in the code's order.
Admits(pool, tx, s) ==
    /\ ValidSigned(tx)
    /\ tx.id \notin pool.seen
    /\ Len(pool.pending) < MaxMempool
    /\ ValidAgainst(tx, s)

\* Mempool::submit.
Enqueue(pool, tx) ==
    [pending |-> Append(pool.pending, tx), seen |-> pool.seen \cup {tx.id}]

\* Mempool::retain_valid: the queue and the digests are built anew.
KeepValid(s, kept, tx) == IF ValidAgainst(tx, s) THEN Enqueue(kept, tx) ELSE kept

Retention == INSTANCE Loops WITH Step <- KeepValid

RetainValid(pool, s) == Retention!Run(s, EmptyPool, pool.pending)

\* Mempool::drain_batch: the front of the queue, and what stays behind.
Batch(pool, limit) ==
    SubSeq(pool.pending, 1, IF limit < Len(pool.pending) THEN limit ELSE Len(pool.pending))

\* A slip: the digests of drained transactions stay in the dedup set.
DrainKeepsSeen(pool, limit) ==
    [pending |-> SubSeq(pool.pending, Len(Batch(pool, limit)) + 1, Len(pool.pending)),
     seen    |-> pool.seen]

DrainBatch(pool, limit) ==
    [pending |-> SubSeq(pool.pending, Len(Batch(pool, limit)) + 1, Len(pool.pending)),
     seen    |-> pool.seen \ {tx.id : tx \in Range(Batch(pool, limit))}]
=============================================================================
