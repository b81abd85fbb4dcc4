----------------------------- MODULE ChainState -----------------------------
(***************************************************************************)
(* The chain state of one node: crates/meow-nakamoto/src/chain/mod.rs.     *)
(*                                                                         *)
(* A chain state is a record [blocks, snapshots, head]: the known blocks   *)
(* and the object store after each of them, both indexed by block hash,    *)
(* and the hash of the best tip.  The operators below are the methods of   *)
(* ChainState; they take a chain state and return the new one, so that     *)
(* Chain (one chain state on its own), Miner (a chain state behind the     *)
(* node's lock) and GossipSync (one chain state per node) share them.      *)
(*                                                                         *)
(* A block is any record with the header fields hash, parent, height,      *)
(* timestamp and stateRoot.  What the block holds, and what validating and *)
(* re-executing it means, are parameters: Ledger defines them.             *)
(***************************************************************************)
EXTENDS Integers

CONSTANTS
    SnapshotDepth,          \* snapshot_depth: retained blocks behind the head
    GenesisBlock,           \* Block::genesis()
    GenesisStore,           \* the initial store, the state at block 0
    ValidStructure(_, _),   \* (b, now): validate_block_structure returns Ok
    ReplayOk(_, _),         \* (b, s): re-executing b on s gives b's results
    ReplayStore(_, _),      \* (b, s): the store after re-executing b on s
    StateRoot(_)            \* (s): roots::compute_state_root

-----------------------------------------------------------------------------

\* BTreeMap::insert.
Put(f, k, v) == [x \in DOMAIN f \cup {k} |-> IF x = k THEN v ELSE f[x]]

\* A chain state holding a single block, which is its head.
AnchoredAt(b, s) == [blocks    |-> [h \in {b.hash} |-> b],
                     snapshots |-> [h \in {b.hash} |-> s],
                     head      |-> b.hash]

\* ChainState::new.
NewChain == AnchoredAt(GenesisBlock, GenesisStore)

Known(c) == DOMAIN c.blocks

HeadBlock(c) == c.blocks[c.head]

HeadHeight(c) == HeadBlock(c).height

HeadStore(c) == c.snapshots[c.head]

\* A slip: a sync pulls only what is above the head.
SyncFromHead(c) == HeadHeight(c) + 1

\* The height a block sync pulls from: head_height saturating_sub depth.
SyncFromHeight(c) ==
    IF HeadHeight(c) < SnapshotDepth THEN 0 ELSE HeadHeight(c) - SnapshotDepth

\* Every known block, on any fork, at or above a height.
BlocksSince(c, height) == {c.blocks[h] : h \in {g \in Known(c) : c.blocks[g].height >= height}}

-----------------------------------------------------------------------------

\* A slip: the cutoff taken one block too high.
FinalizedEdge(c) == {h \in Known(c) : c.blocks[h].height + SnapshotDepth <= HeadHeight(c)}

\* The hashes prune_finalized_blocks removes: nothing until the head is more
\* than SnapshotDepth above genesis, then every block below the cutoff.
Finalized(c) == {h \in Known(c) : c.blocks[h].height + SnapshotDepth < HeadHeight(c)}

\* prune_finalized_blocks.
Prune(c) == [blocks    |-> [h \in Known(c) \ Finalized(c) |-> c.blocks[h]],
             snapshots |-> [h \in DOMAIN c.snapshots \ Finalized(c) |-> c.snapshots[h]],
             head      |-> c.head]

Insert(c, b, s) == [blocks    |-> Put(c.blocks, b.hash, b),
                    snapshots |-> Put(c.snapshots, b.hash, s),
                    head      |-> c.head]

SwitchHead(c, h) == [blocks    |-> c.blocks,
                     snapshots |-> c.snapshots,
                     head      |-> h]

\* ChainState::commit, for a locally mined block.  Only the structure of the
\* block is checked, by an expect: see CommitMined in Chain and Miner.
Commit(c, b, s) == Prune(SwitchHead(Insert(c, b, s), b.hash))

\* Slips: a check of apply_block left out.
AcceptsKnown(c, b, now) ==
    /\ b.parent \in Known(c)
    /\ ValidStructure(b, now)
    /\ b.height = c.blocks[b.parent].height + 1
    /\ b.timestamp > c.blocks[b.parent].timestamp
    /\ ReplayOk(b, c.snapshots[b.parent])
    /\ StateRoot(ReplayStore(b, c.snapshots[b.parent])) = b.stateRoot

AcceptsAnyHeight(c, b, now) ==
    /\ b.hash \notin Known(c)
    /\ b.parent \in Known(c)
    /\ ValidStructure(b, now)
    /\ b.timestamp > c.blocks[b.parent].timestamp
    /\ ReplayOk(b, c.snapshots[b.parent])
    /\ StateRoot(ReplayStore(b, c.snapshots[b.parent])) = b.stateRoot

\* The checks of apply_block, in the code's order; they only read the chain.
Accepts(c, b, now) ==
    /\ b.hash \notin Known(c)
    /\ b.parent \in Known(c)
    /\ ValidStructure(b, now)
    /\ b.height = c.blocks[b.parent].height + 1
    /\ b.timestamp > c.blocks[b.parent].timestamp
    /\ ReplayOk(b, c.snapshots[b.parent])
    /\ StateRoot(ReplayStore(b, c.snapshots[b.parent])) = b.stateRoot

\* Slips: a tie displaces the incumbent head; the block is executed on the
\* head's store, not its parent's.
AdoptOnTie(c, b) ==
    LET stored == Insert(c, b, ReplayStore(b, c.snapshots[b.parent]))
    IN  IF b.height >= HeadHeight(stored)
        THEN Prune(SwitchHead(stored, b.hash))
        ELSE stored

AdoptOnHeadStore(c, b) ==
    LET stored == Insert(c, b, ReplayStore(b, HeadStore(c)))
    IN  IF b.height > HeadHeight(stored)
        THEN Prune(SwitchHead(stored, b.hash))
        ELSE stored

\* The tail of apply_block: record the block with its snapshot, and switch
\* the head to it only when it is strictly taller than the head.
Adopt(c, b) ==
    LET stored == Insert(c, b, ReplayStore(b, c.snapshots[b.parent]))
    IN  IF b.height > HeadHeight(stored)
        THEN Prune(SwitchHead(stored, b.hash))
        ELSE stored

\* ChainState::apply_block.
ApplyBlock(c, b, now) == IF Accepts(c, b, now) THEN Adopt(c, b) ELSE c

\* The checks of ChainState::from_snapshot.  A snapshot that passes replaces
\* the chain by AnchoredAt(b, s).
SnapshotAccepted(c, b, s, now) ==
    /\ b.height > HeadHeight(c)
    /\ ValidStructure(b, now)
    /\ StateRoot(s) = b.stateRoot

-----------------------------------------------------------------------------
(* What a chain state promises.  a is the block that NewChain or the last  *)
(* accepted snapshot put down, whose ancestors the node never had.         *)

\* Blocks and snapshots are kept and pruned together, so the expects "head
\* snapshot always exists" and "parent snapshot always exists when parent
\* block is known" never fail (the comment of prune_finalized_blocks).
Paired(c) == DOMAIN c.snapshots = Known(c)

\* Pruning and fork choice agree: no retained block is above the head, and
\* none is more than SnapshotDepth below it.
Windowed(c) ==
    \A h \in Known(c) : /\ c.blocks[h].height <= HeadHeight(c)
                        /\ c.blocks[h].height + SnapshotDepth >= HeadHeight(c)

\* Heights count parent links, and the only retained blocks without their
\* parent are the anchor and those at the lower edge of the window.
Linked(c, a) ==
    \A h \in Known(c) \ {a} :
        IF c.blocks[h].parent \in Known(c)
        THEN c.blocks[h].height = c.blocks[c.blocks[h].parent].height + 1
        ELSE c.blocks[h].height + SnapshotDepth <= HeadHeight(c)

\* The snapshot of a block is the one its header commits to, and the one that
\* re-executing the block on its parent's snapshot gives.
Replayable(c, a) ==
    \A h \in Known(c) :
        /\ h # GenesisBlock.hash => StateRoot(c.snapshots[h]) = c.blocks[h].stateRoot
        /\ (h # a /\ c.blocks[h].parent \in Known(c)) =>
              c.snapshots[h] = ReplayStore(c.blocks[h], c.snapshots[c.blocks[h].parent])
=============================================================================
