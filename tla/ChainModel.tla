----------------------------- MODULE ChainModel -----------------------------
(***************************************************************************)
(* The universe a chain state is built from, the assumptions about it, and *)
(* the invariant that every operation of ChainState keeps.                 *)
(***************************************************************************)
EXTENDS ChainState

CONSTANTS
    Digest,         \* block hashes
    Block,          \* the blocks peers and the miner may offer, valid or not
    Store           \* object stores

\* Node start-up refuses a depth of 0 (crates/meow-node/src/commands.rs).
ASSUME DepthAssumption == SnapshotDepth \in Nat \ {0}

\* Header fields have their types, and genesis is a block.
ASSUME BlockAssumption ==
    /\ \A b \in Block : /\ b.hash \in Digest
                        /\ b.height \in Nat
                        /\ b.timestamp \in Nat
    /\ GenesisBlock \in Block
    /\ GenesisBlock.height = 0
    /\ GenesisStore \in Store

\* A block hash is a collision-free digest of the header, and of the header
\* only: blocks that differ in their results may share it.
ASSUME HashBindsHeader ==
    \A a, b \in Block : a.hash = b.hash =>
        /\ a.parent = b.parent
        /\ a.height = b.height
        /\ a.timestamp = b.timestamp
        /\ a.stateRoot = b.stateRoot

\* Re-execution is a function from stores to stores.
ASSUME ReplayAssumption ==
    \A b \in Block, s \in Store : ReplayOk(b, s) => ReplayStore(b, s) \in Store

-----------------------------------------------------------------------------

\* Every known block is a block under its own hash, every snapshot a store,
\* and the head is known.
Typed(c) ==
    /\ \A h \in Known(c) : c.blocks[h] \in Block /\ c.blocks[h].hash = h
    /\ \A h \in DOMAIN c.snapshots : c.snapshots[h] \in Store
    /\ c.head \in Known(c)

\* The inductive form of Linked: heights count parent links also where the
\* parent was pruned, whichever block that was.
Rooted(c, a) ==
    \A h \in Known(c) \ {a} :
        /\ \A p \in Block : p.hash = c.blocks[h].parent =>
                              c.blocks[h].height = p.height + 1
        /\ \/ c.blocks[h].parent \in Known(c)
           \/ c.blocks[h].height + SnapshotDepth <= HeadHeight(c)

\* The inductive invariant of a chain state.
ChainOK(c, a) ==
    /\ Typed(c)
    /\ Paired(c)
    /\ Windowed(c)
    /\ Rooted(c, a)
    /\ Replayable(c, a)
=============================================================================
