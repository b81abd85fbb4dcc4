------------------------------- MODULE Archive -------------------------------
(***************************************************************************)
(* What a chain state promises: a node that never forgets a block.         *)
(*                                                                         *)
(* The archive holds every block recorded since genesis or since the last  *)
(* accepted snapshot, each with the store after it.  A block is refused    *)
(* when it branches off more than SnapshotDepth below the tip: that is the *)
(* only trace of pruning.  The tip is the block of greatest height that    *)
(* was recorded first.  Chain implements this with maps that are pruned.   *)
(***************************************************************************)
EXTENDS ChainState

CONSTANTS Block, Store

VARIABLES
    archive,        \* by hash: a recorded block and the store after it
    tip,            \* the hash of the best block
    now             \* the local clock

vars == <<archive, tip, now>>

-----------------------------------------------------------------------------

Entry(b, s) == [block |-> b, store |-> s]

TipHeight == archive[tip].block.height

\* Branching off at the hash p does not undo a finalised block.
Open(p) == archive[p].block.height + SnapshotDepth >= TipHeight

\* Block b follows the block p of the archive: its height, and the results
\* and the state root that its header and body claim.
Follows(b, p) ==
    /\ b.parent = p
    /\ b.height = archive[p].block.height + 1
    /\ ReplayOk(b, archive[p].store)
    /\ StateRoot(ReplayStore(b, archive[p].store)) = b.stateRoot

\* The blocks of others that the archive takes.
Admissible(b) ==
    /\ b.hash \notin DOMAIN archive
    /\ b.parent \in DOMAIN archive
    /\ Open(b.parent)
    /\ ValidStructure(b, now)
    /\ Follows(b, b.parent)
    /\ b.timestamp > archive[b.parent].block.timestamp

Init ==
    /\ archive = [h \in {GenesisBlock.hash} |-> Entry(GenesisBlock, GenesisStore)]
    /\ tip = GenesisBlock.hash
    /\ now = 0

Remember(b) == archive' = Put(archive, b.hash, Entry(b, ReplayStore(b, archive[b.parent].store)))

\* A block of another node: it becomes the tip when it is the tallest.
Receive(b) ==
    /\ Admissible(b)
    /\ Remember(b)
    /\ tip' = IF b.height > TipHeight THEN b.hash ELSE tip
    /\ UNCHANGED now

\* A block of this node's own miner: always on the tip.
Mine(b) ==
    /\ b.hash \notin DOMAIN archive
    /\ ValidStructure(b, now)
    /\ Follows(b, tip)
    /\ Remember(b)
    /\ tip' = b.hash
    /\ UNCHANGED now

\* A state snapshot above the tip: a new archive.
StartOver(b, s) ==
    /\ b.height > TipHeight
    /\ ValidStructure(b, now)
    /\ StateRoot(s) = b.stateRoot
    /\ archive' = [h \in {b.hash} |-> Entry(b, s)]
    /\ tip' = b.hash
    /\ UNCHANGED now

Tick == now' > now /\ UNCHANGED <<archive, tip>>

Next ==
    \/ \E b \in Block : Receive(b)
    \/ \E b \in Block : Mine(b)
    \/ \E b \in Block, s \in Store : StartOver(b, s)
    \/ Tick

Spec == Init /\ [][Next]_vars
=============================================================================
