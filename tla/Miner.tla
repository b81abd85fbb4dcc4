------------------------------- MODULE Miner -------------------------------
(***************************************************************************)
(* One node's Miner (crates/meow-nakamoto/src/miner): a chain state and a  *)
(* mempool behind one lock, shared by three services.  Each action below   *)
(* is what one of them does while it holds the lock, or, for Grind, while  *)
(* the mining round runs outside it:                                       *)
(*                                                                         *)
(*   RPC and gossip   Submit                                               *)
(*   gossip           ApplyBlock, ReplaceFromSnapshot                      *)
(*   miner service    PrepareRound, Grind, CommitMined                     *)
(*                                                                         *)
(* Everything that happens between PrepareRound and CommitMined happens    *)
(* under the feet of a round that was prepared on an older head.  The      *)
(* other nodes are PeerMines: they run the same code, on any block they    *)
(* know, with a clock that may run ahead.  A mined block is on the network *)
(* from then on, to be received any number of times, in any order, or      *)
(* never.                                                                  *)
(***************************************************************************)
EXTENDS Mempool, Coins

CONSTANTS
    SnapshotDepth,      \* MinerConfig::snapshot_depth
    BatchSize,          \* MinerConfig::batch_size
    PeerBatch,          \* the batches peers may mine
    MaxTime,            \* bound on the clock
    MaxSkew,            \* how far ahead a peer's clock may run
    MaxHeight,          \* bound on the height of mined blocks
    MaxPeerBlocks       \* bound on the number of blocks peers mine

VARIABLES
    chain,      \* Miner::chain
    pool,       \* Miner::mempool
    work,       \* the mining round in progress
    net,        \* the published blocks, and the store after each
    now         \* the local clock

vars == <<chain, pool, work, net, now>>

C == INSTANCE ChainState

HeadStore == C!HeadStore(chain)

\* A node starts with a batch size and a snapshot depth of at least one.
ASSUME ConfigAssumption ==
    /\ SnapshotDepth \in Nat \ {0}
    /\ BatchSize \in 1..MaxTxs
    /\ MaxSkew \in Nat

\* Peers run the same code.
ASSUME PeerAssumption == \A batch \in PeerBatch : Minable(batch)

-----------------------------------------------------------------------------

Init ==
    /\ chain = C!NewChain
    /\ pool = EmptyPool
    /\ work = Idle
    /\ net = [h \in {GenesisBlock.hash} |-> Entry(GenesisBlock, GenesisStore)]
    /\ now = 1

\* submit_transaction; a refused transaction changes nothing.
Submit(tx) ==
    /\ Admits(pool, tx, HeadStore)
    /\ pool' = Enqueue(pool, tx)
    /\ UNCHANGED <<chain, work, net, now>>

\* apply_block: on a reorg, the mempool is filtered against the new head.
ApplyBlock(b) ==
    /\ C!Accepts(chain, b, now)
    /\ chain' = C!Adopt(chain, b)
    /\ pool' = IF chain'.head # chain.head THEN RetainValid(pool, C!HeadStore(chain')) ELSE pool
    /\ UNCHANGED <<work, net, now>>

\* replace_from_snapshot: the mempool is cleared.
ReplaceFromSnapshot(b, s) ==
    /\ C!SnapshotAccepted(chain, b, s, now)
    /\ chain' = C!AnchoredAt(b, s)
    /\ pool' = EmptyPool
    /\ UNCHANGED <<work, net, now>>

\* prepare_round, called by the idle miner service.
PrepareRound ==
    /\ work = Idle
    /\ C!HeadHeight(chain) < MaxHeight
    /\ Len(pool.pending) >= BatchSize
    /\ pool' = DrainBatch(pool, BatchSize)
    /\ work' = Round(chain.head, C!HeadHeight(chain) + 1, HeadStore, Batch(pool, BatchSize), now)
    /\ UNCHANGED <<chain, net, now>>

Grind(luck) ==
    /\ work.stage = "grinding"
    /\ work' = GrindStep(work, luck, "me")
    /\ UNCHANGED <<chain, pool, net, now>>

\* A slip: the head is not compared with the parent of the block.
CommitStale ==
    /\ work.stage = "solved"
    /\ work' = Idle
    /\ chain' = C!Commit(chain, work.block, work.store)
    /\ net' = C!Put(net, work.block.hash, Entry(work.block, work.store))
    /\ UNCHANGED <<pool, now>>

\* commit_mined, and the miner service publishing the block when committed.
CommitMined ==
    /\ work.stage = "solved"
    /\ work' = Idle
    /\ IF work.block.parent = chain.head
       THEN /\ chain' = C!Commit(chain, work.block, work.store)
            /\ net' = C!Put(net, work.block.hash, Entry(work.block, work.store))
       ELSE UNCHANGED <<chain, net>>
    /\ UNCHANGED <<pool, now>>

\* A peer's round, from its prepare_round to its commit_mined, on a block it
\* has; its batch survived its own grind.
PeerMines(h, batch, luck, skew) ==
    LET parent == net[h]
        round  == Round(h, parent.block.height + 1, parent.store, batch, now + skew)
        mined  == GrindStep(round, luck, "peer")
    IN  /\ parent.block.height < MaxHeight
        /\ Cardinality({k \in DOMAIN net : k # << >> /\ k[Len(k)].miner = "peer"}) < MaxPeerBlocks
        /\ mined.stage = "solved"
        /\ net' = C!Put(net, mined.block.hash, Entry(mined.block, mined.store))
        /\ UNCHANGED <<chain, pool, work, now>>

Tick ==
    /\ now < MaxTime
    /\ now' = now + 1
    /\ UNCHANGED <<chain, pool, work, net>>

Next ==
    \/ \E tx \in Tx : Submit(tx)
    \/ \E h \in DOMAIN net : ApplyBlock(net[h].block)
    \/ \E h \in DOMAIN net : ReplaceFromSnapshot(net[h].block, net[h].store)
    \/ PrepareRound
    \/ \E luck \in Luck : Grind(luck)
    \/ CommitMined
    \/ \E h \in DOMAIN net, batch \in PeerBatch, luck \in Luck, skew \in 0..MaxSkew :
          PeerMines(h, batch, luck, skew)
    \/ Tick

Spec == Init /\ [][Next]_vars

\* The miner service is one task, which loops for as long as the node runs:
\* it prepares a round when it can, finds a nonce, and commits.  This is weak
\* fairness of PrepareRound, Grind and CommitMined, the only actions on work;
\* HasWork says when one of them is enabled and changes it.
HasWork ==
    \/ /\ work = Idle
       /\ C!HeadHeight(chain) < MaxHeight
       /\ Len(pool.pending) >= BatchSize
    \/ work.stage = "grinding" /\ \E luck \in Luck : GrindStep(work, luck, "me") # work
    \/ work.stage = "solved"

MinerService == <>[]HasWork => []<><<work' # work>>_work

FairSpec == Spec /\ MinerService

-----------------------------------------------------------------------------
(* Queries.                                                                *)

\* A slip: every known block counts, also those of forks.
AllKnown == C!Known(chain)

\* canonical_chain: the walk from the head by parent hash, over the blocks
\* that are still known.  A parent is one lower, so there are no more steps
\* than the head is high.
CanonicalChain ==
    LET back[n \in 0..C!HeadHeight(chain)] ==
            IF n = 0 THEN {chain.head}
            ELSE back[n - 1] \cup
                   ({chain.blocks[h].parent : h \in back[n - 1]} \cap C!Known(chain))
    IN  back[C!HeadHeight(chain)]

\* get_transaction_result: what the canonical chain says of a digest.
TransactionResult(id) ==
    {r \in UNION {Range(chain.blocks[h].results) : h \in CanonicalChain} : r.tx = id}

-----------------------------------------------------------------------------

\* Draining, filtering, clearing and resubmission in any order leave the
\* dedup set equal to the queue: a transaction is never queued twice, and
\* never refused as a duplicate once it left.
PoolConsistent ==
    /\ pool.seen = {tx.id : tx \in Range(pool.pending)}
    /\ IsInjective(TxRoot(pool.pending))
    /\ Len(pool.pending) <= MaxMempool

\* What a round hands to commit_mined passes validate_block_structure and has
\* its parent's height plus one, and whoever has the parent re-executes it to
\* the same results and the same state, also when transactions were dropped
\* while grinding.  In particular the expect in ChainState::commit never
\* fails.  These are all checks of apply_block on a new block but one: that
\* the timestamp is later than the parent's, which prepare_round does not
\* ensure (see TimestampsAdvance).
MinedBlocksVerify ==
    work.stage = "solved" =>
        LET b      == work.block
            parent == net[b.parent]
        IN  /\ ValidStructure(b, now)
            /\ b.height = parent.block.height + 1
            /\ ReplayOk(b, parent.store)
            /\ StateRoot(ReplayStore(b, parent.store)) = b.stateRoot

\* The node holds for every known block the block its miner published, and
\* after it the very state that miner computed.
AgreesOnState ==
    \A h \in C!Known(chain) :
        /\ chain.blocks[h] = net[h].block
        /\ chain.snapshots[h] = net[h].store

\* A transaction is executed at most once on a chain, although a drained
\* transaction may be submitted again while its block is being mined.  (The
\* hash of a block lists the transactions of its ancestry, block by block.)
NoDoubleExecution ==
    \A h \in C!Known(chain) : \A i, j \in 1..Len(h) :
        \A k \in 1..Len(h[i].txs), l \in 1..Len(h[j].txs) :
            h[i].txs[k] = h[j].txs[l] => i = j /\ k = l

\* The known blocks whose parent is known too, with the stores around them.
Steps == {[block |-> chain.blocks[h], before |-> chain.snapshots[chain.blocks[h].parent],
           after |-> chain.snapshots[h]] :
             h \in {k \in C!Known(chain) : chain.blocks[k].parent \in C!Known(chain)}}

\* The gas taken from the senders of a block is exactly what its reward
\* mints: a block changes the supply of coins only by what its calls do.
SupplyAccounted ==
    \A step \in Steps :
        Supply(step.after) =
            Supply(step.before) + NetOfCalls(step.block.txs, step.block.results, step.block.nonce.luck)

\* The assertions of apply_execution_result hold for every block, the reward
\* included, and the framework modules the reward needs stay in the store.
StoreAssertionsHold ==
    \A step \in Steps :
        LET run == RunBatch(step.block.txs, step.block.nonce.luck, step.before)
        IN  /\ run.fits
            /\ \A r \in step.block.rewardTx : ResultFits(run.store, ExecuteReward(r))
            /\ \A i \in DOMAIN GenesisStore : GenesisStore[i].kind = "module" =>
                  i \in DOMAIN step.after /\ step.after[i] = GenesisStore[i]

\* Versions grow with every write, so on one chain an id and a version name
\* one object.
VersionsIdentifyObjects ==
    \A step \in Steps : \A i \in DOMAIN step.before \cap DOMAIN step.after :
        \/ step.after[i] = step.before[i]
        \/ step.after[i].version > step.before[i].version

\* A block changes or destroys an object only by a transaction of its owner
\* that names it.
OnlyOwnersWrite ==
    \A step \in Steps : \A i \in DOMAIN step.before :
        (i \notin DOMAIN step.after \/ step.after[i] # step.before[i]) =>
            \E tx \in Range(step.block.txs) :
                tx.sender = step.before[i].owner /\ i \in ArgIds(tx) \cup {tx.gas.id}

\* A round prepared on an old head never moves the head: it goes up by one
\* or more, whatever was applied while the nonce was ground.
HeadOnlyAdvances ==
    [][chain'.head # chain.head => C!HeadHeight(chain') > C!HeadHeight(chain)]_vars

\* A lookup never reports a transaction that only an orphaned fork executed,
\* never reports two outcomes, and finds every transaction of the head block.
LookupsAreCanonical ==
    \A tx \in Tx :
        /\ \A r, q \in TransactionResult(tx.id) : r = q
        /\ TransactionResult(tx.id) # {} =>
              \E i \in 1..Len(chain.head) : tx.id \in Range(chain.head[i].txs)
        /\ tx \in Range(C!HeadBlock(chain).txs) => TransactionResult(tx.id) # {}

\* A full batch does not wait forever: rounds end, whether they are
\* committed, found stale or lose every transaction, and the next begins.
PoolDrains ==
    Len(pool.pending) >= BatchSize ~>
        Len(pool.pending) < BatchSize \/ C!HeadHeight(chain) >= MaxHeight

-----------------------------------------------------------------------------
(* What the documentation says of the miner, and the code does not do.     *)

\* docs/consensus.md: the timestamp of a block "must be strictly greater than
\* the parent block's timestamp".
TimestampsAdvance ==
    \A step \in Steps :
        step.block.timestamp > chain.blocks[step.block.parent].timestamp
=============================================================================
