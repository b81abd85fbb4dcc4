-------------------------------- MODULE Chain --------------------------------
(***************************************************************************)
(* One chain state fed by everything that reaches it: blocks applied from  *)
(* peers in any order, blocks committed by the local miner, and state      *)
(* snapshots that replace it.                                              *)
(***************************************************************************)
EXTENDS ChainModel

CONSTANT MaxTime    \* bound on the local clock

VARIABLES
    chain,          \* the ChainState
    anchor,         \* history: the block NewChain or the last snapshot put down
    archive,        \* history: all the chain held since, by hash
    now             \* the local clock, time::current_timestamp

vars == <<chain, anchor, archive, now>>

ASSUME TimeAssumption == MaxTime \in Nat

-----------------------------------------------------------------------------

\* What a chain state holds, and what a history f and it hold together.
Held(c) == [h \in Known(c) |-> [block |-> c.blocks[h], store |-> c.snapshots[h]]]

Remembering(f, c) ==
    [h \in DOMAIN f \cup Known(c) |-> IF h \in Known(c) THEN Held(c)[h] ELSE f[h]]

Init ==
    /\ chain = NewChain
    /\ anchor = GenesisBlock.hash
    /\ archive = Held(NewChain)
    /\ now = 0

\* Miner::apply_block reaching the chain; a rejected block changes nothing.
Apply(b) ==
    /\ chain' = ApplyBlock(chain, b, now)
    /\ archive' = Remembering(archive, chain')
    /\ UNCHANGED <<anchor, now>>

\* Miner::commit_mined reaching the chain: the block was prepared on, and
\* executed against, the block that is still the head.  Neither it nor
\* commit compares the timestamps of the block and its parent.
CommitMined(b) ==
    /\ b.parent = chain.head
    /\ b.height = HeadHeight(chain) + 1
    /\ ValidStructure(b, now)
    /\ ReplayOk(b, HeadStore(chain))
    /\ StateRoot(ReplayStore(b, HeadStore(chain))) = b.stateRoot
    /\ chain' = Commit(chain, b, ReplayStore(b, HeadStore(chain)))
    /\ archive' = Remembering(archive, chain')
    /\ UNCHANGED <<anchor, now>>

\* Miner::replace_from_snapshot reaching the chain.
ReplaceFromSnapshot(b, s) ==
    /\ SnapshotAccepted(chain, b, s, now)
    /\ chain' = AnchoredAt(b, s)
    /\ anchor' = b.hash
    /\ archive' = Held(chain')
    /\ UNCHANGED now

Tick ==
    /\ now < MaxTime
    /\ now' = now + 1
    /\ UNCHANGED <<chain, anchor, archive>>

Next ==
    \/ \E b \in Block : Apply(b)
    \/ \E b \in Block : CommitMined(b)
    \/ \E b \in Block, s \in Store : ReplaceFromSnapshot(b, s)
    \/ Tick

Spec == Init /\ [][Next]_vars

-----------------------------------------------------------------------------

\* Every known block is a block under its own hash, every snapshot a store,
\* and the head is known.
TypeOK == Typed(chain) /\ anchor \in Digest /\ now \in 0..MaxTime

\* In every order of applied blocks, commits and snapshots, blocks and
\* snapshots are kept and pruned together, so the expects "head snapshot
\* always exists" and "parent snapshot always exists when parent block is
\* known" never fail (the comment of prune_finalized_blocks).
SnapshotPerBlock == Paired(chain)

\* Pruning and fork choice agree: no retained block is above the head, and
\* none is more than SnapshotDepth below it.
RetentionWindow == Windowed(chain)

\* Heights count parent links, and the only retained blocks without their
\* parent are the anchor and those at the lower edge of the window.  So a
\* walk from the head by parent hash (canonical_chain, get_transaction) sees
\* SnapshotDepth blocks or ends at the anchor.
NoGaps == Linked(chain, anchor)

\* However a block got in (applied, committed or by snapshot), its snapshot
\* is the one its header commits to, and the one that re-executing it on the
\* snapshot of its parent gives.
SnapshotIntegrity == Replayable(chain, anchor)

\* The inductive invariant of ChainProofs.
ChainInv == TypeOK /\ ChainOK(chain, anchor)

\* The head only ever moves to a strictly taller block: no reorg, commit or
\* snapshot shortens the chain, and a competing block of the same height
\* never displaces the incumbent.
HeadOnlyAdvances ==
    [][chain'.head # chain.head => HeadHeight(chain') > HeadHeight(chain)]_vars

\* A block that stays known keeps the snapshot it was recorded with, across
\* commits, reorgs and snapshots.
SnapshotsAreFinal ==
    [][\A h \in Known(chain) \cap Known(chain') :
          /\ chain'.blocks[h] = chain.blocks[h]
          /\ chain'.snapshots[h] = chain.snapshots[h]]_vars

-----------------------------------------------------------------------------

\* The node that forgets nothing, with the same head.
Ideal == INSTANCE Archive WITH tip <- chain.head

\* Pruning is exactly finality.  The chain holds what the archive holds within
\* SnapshotDepth of the head, and apply_block accepts exactly the blocks that
\* a node without pruning accepts when it refuses to branch below the window:
\* a pruned block never comes back, and no block is lost to pruning.
PruningIsFinality ==
    /\ \A h \in DOMAIN archive :
          IF Ideal!Open(h) THEN h \in Known(chain) /\ archive[h] = Held(chain)[h]
                           ELSE h \notin Known(chain)
    /\ \A b \in Block : Accepts(chain, b, now) <=> Ideal!Admissible(b)

\* The chain state implements the archive: each applied block, commit and
\* snapshot is a step of a node that never prunes, or changes nothing.
ImplementsArchive == Ideal!Spec
=============================================================================
