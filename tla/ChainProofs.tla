----------------------------- MODULE ChainProofs -----------------------------
(***************************************************************************)
(* The safety properties of Chain, and that Chain implements Archive, for  *)
(* every universe of blocks and every snapshot depth.                      *)
(***************************************************************************)
EXTENDS Chain, TLAPS

-----------------------------------------------------------------------------
(* The operations of ChainState keep ChainOK, for every universe of blocks *)
(* and every validation that satisfies the assumptions of ChainModel.      *)

\* Insert adds one entry to both maps and leaves the others and the head.
LEMMA InsertShape ==
    ASSUME NEW c, NEW b, NEW s
    PROVE  LET d == Insert(c, b, s) IN
           /\ Known(d) = Known(c) \cup {b.hash}
           /\ DOMAIN d.snapshots = DOMAIN c.snapshots \cup {b.hash}
           /\ \A h \in Known(c) \ {b.hash} : d.blocks[h] = c.blocks[h]
           /\ \A h \in DOMAIN c.snapshots \ {b.hash} : d.snapshots[h] = c.snapshots[h]
           /\ d.blocks[b.hash] = b
           /\ d.snapshots[b.hash] = s
           /\ d.head = c.head
  BY DEF Known, Insert, Put

\* SwitchHead changes the head only.
LEMMA SwitchHeadShape ==
    ASSUME NEW c, NEW h
    PROVE  LET d == SwitchHead(c, h) IN
           /\ d.blocks = c.blocks
           /\ d.snapshots = c.snapshots
           /\ d.head = h
  BY DEF SwitchHead

\* Prune takes the same hashes out of both maps and leaves the head.
LEMMA PruneShape ==
    ASSUME NEW c
    PROVE  LET d == Prune(c) IN
           /\ Known(d) = Known(c) \ Finalized(c)
           /\ DOMAIN d.snapshots = DOMAIN c.snapshots \ Finalized(c)
           /\ \A h \in Known(d) : d.blocks[h] = c.blocks[h]
           /\ \A h \in DOMAIN d.snapshots : d.snapshots[h] = c.snapshots[h]
           /\ d.head = c.head
  BY DEF Known, Prune

\* Linked is the part of Rooted that does not speak of pruned blocks.
LEMMA OKImpliesLinked ==
    ASSUME NEW c, NEW a, ChainOK(c, a)
    PROVE  Linked(c, a)
  BY DEF ChainOK, Typed, Rooted, Linked, Known

\* A block taller than the head is new: known heights do not exceed the
\* head's, and the hash fixes the height.
LEMMA TallerIsNew ==
    ASSUME NEW c, NEW a, ChainOK(c, a), NEW b \in Block, b.height > HeadHeight(c)
    PROVE  b.hash \notin Known(c)
  BY BlockAssumption, HashBindsHeader
     DEF ChainOK, Typed, Windowed, HeadHeight, HeadBlock, Known

LEMMA NextIsTaller ==
    ASSUME NEW n \in Nat
    PROVE  n + 1 > n
  OBVIOUS

\* A chain state with a single block is one.
LEMMA AnchoredOK ==
    ASSUME NEW b \in Block, NEW s \in Store,
           b.hash = GenesisBlock.hash \/ StateRoot(s) = b.stateRoot
    PROVE  ChainOK(AnchoredAt(b, s), b.hash)
  BY BlockAssumption, DepthAssumption
     DEF AnchoredAt, ChainOK, Typed, Paired, Windowed, Rooted, Replayable, Known,
         HeadHeight, HeadBlock

\* Recording a new block d on top of c: the maps gain the block and its
\* snapshot, the head may move up, and what falls out of the window goes.
Records(c, d, b, s) ==
    /\ DOMAIN d.snapshots = Known(d)
    /\ b.hash \in Known(d)
    /\ \A h \in Known(d) :
          \/ h = b.hash /\ d.blocks[h] = b /\ d.snapshots[h] = s
          \/ h \in Known(c) \ {b.hash} /\ d.blocks[h] = c.blocks[h]
                                       /\ d.snapshots[h] = c.snapshots[h]
    /\ \A h \in Known(c) : h \notin Known(d) =>
          c.blocks[h].height + SnapshotDepth < HeadHeight(d)
    /\ \A h \in Known(d) : d.blocks[h].height + SnapshotDepth >= HeadHeight(d)
    /\ d.head \in Known(d)
    /\ HeadHeight(d) >= HeadHeight(c)
    /\ HeadHeight(d) >= b.height

\* What both apply_block and commit know of a block when they record it.
Extends(c, b) ==
    /\ b.hash \notin Known(c)
    /\ b.parent \in Known(c)
    /\ b.height = c.blocks[b.parent].height + 1
    /\ ReplayOk(b, c.snapshots[b.parent])
    /\ StateRoot(ReplayStore(b, c.snapshots[b.parent])) = b.stateRoot

\* Recording a block that extends a known one keeps the chain state sound,
\* with or without a head switch: the argument behind apply_block and commit.
LEMMA RecordsKeepsOK ==
    ASSUME NEW c, NEW a, ChainOK(c, a), NEW b \in Block, Extends(c, b),
           NEW d, Records(c, d, b, ReplayStore(b, c.snapshots[b.parent]))
    PROVE  ChainOK(d, a)
  <1> DEFINE s == ReplayStore(b, c.snapshots[b.parent])
             K == Known(c)
             L == Known(d)
  <1> USE DepthAssumption
  <1>1. /\ \A h \in K : c.blocks[h] \in Block /\ c.blocks[h].hash = h
        /\ \A h \in K : c.snapshots[h] \in Store
        /\ c.head \in K
        /\ HeadHeight(c) \in Nat
        /\ \A h \in K : c.blocks[h].height \in Nat
        /\ b.height \in Nat
        /\ s \in Store
    BY BlockAssumption, ReplayAssumption
       DEF ChainOK, Typed, Paired, Extends, HeadHeight, HeadBlock
  <1>2. /\ \A h \in L : d.blocks[h] \in Block /\ d.blocks[h].hash = h
        /\ \A h \in L : d.snapshots[h] \in Store
        /\ HeadHeight(d) \in Nat
    BY <1>1, BlockAssumption DEF Records, HeadHeight, HeadBlock
  <1>3. Typed(d)
    BY <1>1, <1>2 DEF Typed, Records
  <1>4. Paired(d)
    BY DEF Paired, Records
  <1>5. Windowed(d)
    BY <1>1, <1>2 DEF Windowed, Records, ChainOK
  \* A known block whose parent is missing is too low to be the new block's child.
  <1>6. ASSUME NEW h \in K \ {a}, c.blocks[h].parent \notin K
        PROVE  c.blocks[h].parent # b.hash
    BY <1>1, <1>6 DEF ChainOK, Rooted, Windowed, Extends
  <1>7. Rooted(d, a)
    <2> SUFFICES ASSUME NEW h \in L \ {a}
                 PROVE  /\ \A p \in Block : p.hash = d.blocks[h].parent =>
                                              d.blocks[h].height = p.height + 1
                        /\ \/ d.blocks[h].parent \in L
                           \/ d.blocks[h].height + SnapshotDepth <= HeadHeight(d)
      BY DEF Rooted
    <2>1. CASE h = b.hash
      <3>1. d.blocks[h] = b
        BY <2>1 DEF Records
      <3>2. \A p \in Block : p.hash = b.parent => b.height = p.height + 1
        BY <1>1, HashBindsHeader DEF Extends
      <3>3. b.parent \in L \/ b.height + SnapshotDepth <= HeadHeight(d)
        BY <1>1, <1>2 DEF Extends, Records
      <3>4. QED
        BY <3>1, <3>2, <3>3
    <2>2. CASE h # b.hash
      <3>1. h \in K \ {a} /\ d.blocks[h] = c.blocks[h]
        BY <2>2 DEF Records
      <3>2. \A p \in Block : p.hash = c.blocks[h].parent => c.blocks[h].height = p.height + 1
        BY <3>1 DEF ChainOK, Rooted
      <3>3. CASE c.blocks[h].parent \in K
        <4>1. c.blocks[h].height = c.blocks[c.blocks[h].parent].height + 1
          BY <1>1, <3>2, <3>3
        <4>2. c.blocks[h].parent \in L \/ c.blocks[h].height + SnapshotDepth <= HeadHeight(d)
          BY <1>1, <1>2, <3>1, <3>3, <4>1 DEF Records
        <4>3. QED
          BY <3>1, <3>2, <4>2
      <3>4. CASE c.blocks[h].parent \notin K
        <4>1. c.blocks[h].height + SnapshotDepth <= HeadHeight(c)
          BY <3>1, <3>4 DEF ChainOK, Rooted
        <4>2. c.blocks[h].height + SnapshotDepth <= HeadHeight(d)
          BY <1>1, <1>2, <3>1, <4>1 DEF Records
        <4>3. QED
          BY <3>1, <3>2, <4>2
      <3>5. QED
        BY <3>3, <3>4
    <2>3. QED
      BY <2>1, <2>2
  <1>8. Replayable(d, a)
    <2> SUFFICES ASSUME NEW h \in L
                 PROVE  /\ h # GenesisBlock.hash => StateRoot(d.snapshots[h]) = d.blocks[h].stateRoot
                        /\ (h # a /\ d.blocks[h].parent \in L) =>
                              d.snapshots[h] = ReplayStore(d.blocks[h], d.snapshots[d.blocks[h].parent])
      BY DEF Replayable
    <2>1. CASE h = b.hash
      <3>1. d.blocks[h] = b /\ d.snapshots[h] = s
        BY <2>1 DEF Records
      <3>2. b.parent \in L => d.snapshots[b.parent] = c.snapshots[b.parent]
        BY DEF Records, Extends
      <3>3. QED
        BY <3>1, <3>2 DEF Extends
    <2>2. CASE h # b.hash
      <3>1. h \in K /\ d.blocks[h] = c.blocks[h] /\ d.snapshots[h] = c.snapshots[h]
        BY <2>2 DEF Records
      <3>2. h # GenesisBlock.hash => StateRoot(d.snapshots[h]) = d.blocks[h].stateRoot
        BY <3>1 DEF ChainOK, Replayable
      <3>3. ASSUME h # a, d.blocks[h].parent \in L
            PROVE  d.snapshots[h] = ReplayStore(d.blocks[h], d.snapshots[d.blocks[h].parent])
        <4>1. c.blocks[h].parent \in K /\ c.blocks[h].parent # b.hash
          BY <1>6, <3>1, <3>3 DEF Records, Extends
        <4>2. d.snapshots[c.blocks[h].parent] = c.snapshots[c.blocks[h].parent]
          BY <3>1, <3>3, <4>1 DEF Records
        <4>3. QED
          BY <3>1, <3>3, <4>1, <4>2 DEF ChainOK, Replayable
      <3>4. QED
        BY <3>2, <3>3
    <2>3. QED
      BY <2>1, <2>2
  <1>9. QED
    BY <1>3, <1>4, <1>5, <1>7, <1>8 DEF ChainOK

\* Insert without a head switch records the block.
LEMMA InsertRecords ==
    ASSUME NEW c, NEW a, ChainOK(c, a), NEW b \in Block, Extends(c, b),
           b.height <= HeadHeight(c), NEW s
    PROVE  Records(c, Insert(c, b, s), b, s)
  <1> DEFINE d == Insert(c, b, s)
  <1>1. /\ Known(d) = Known(c) \cup {b.hash}
        /\ DOMAIN d.snapshots = DOMAIN c.snapshots \cup {b.hash}
        /\ \A h \in Known(c) \ {b.hash} : d.blocks[h] = c.blocks[h]
        /\ \A h \in DOMAIN c.snapshots \ {b.hash} : d.snapshots[h] = c.snapshots[h]
        /\ d.blocks[b.hash] = b
        /\ d.snapshots[b.hash] = s
        /\ d.head = c.head
    BY InsertShape
  <1>2. /\ \A h \in Known(c) : c.blocks[h].height \in Nat
        /\ b.height \in Nat
        /\ c.head \in Known(c) /\ c.head # b.hash
    BY BlockAssumption DEF ChainOK, Typed, Extends
  <1> HIDE DEF d
  <1>3. HeadHeight(d) = HeadHeight(c)
    BY <1>1, <1>2 DEF HeadHeight, HeadBlock
  <1>4. ASSUME NEW h \in Known(d)
        PROVE  d.blocks[h].height + SnapshotDepth >= HeadHeight(d)
    <2>1. CASE h = b.hash
      <3>1. /\ c.blocks[b.parent].height \in Nat
            /\ c.blocks[b.parent].height + SnapshotDepth >= HeadHeight(c)
            /\ b.height = c.blocks[b.parent].height + 1
        BY <1>2 DEF ChainOK, Windowed, Extends
      <3>2. HeadHeight(c) \in Nat
        BY <1>2 DEF HeadHeight, HeadBlock
      <3>3. b.height + SnapshotDepth >= HeadHeight(c)
        BY <3>1, <3>2, DepthAssumption
      <3>4. QED
        BY <1>1, <1>3, <2>1, <3>3
    <2>2. CASE h # b.hash
      <3>1. h \in Known(c) /\ d.blocks[h] = c.blocks[h]
        BY <1>1, <2>2
      <3>2. c.blocks[h].height + SnapshotDepth >= HeadHeight(c)
        BY <3>1 DEF ChainOK, Windowed
      <3>3. QED
        BY <1>3, <3>1, <3>2
    <2>3. QED
      BY <2>1, <2>2
  <1>5. QED
    BY <1>1, <1>2, <1>3, <1>4 DEF Records, ChainOK, Paired, HeadHeight, HeadBlock, d

\* Commit, and apply_block when the block is taller, record it, move the head
\* to it and prune.
Committed(c, d, b, s) ==
    Records(c, d, b, s) /\ d.head = b.hash /\ HeadHeight(d) = b.height

LEMMA CommitRecords ==
    ASSUME NEW c, NEW a, ChainOK(c, a), NEW b \in Block, Extends(c, b),
           b.height > HeadHeight(c), NEW s
    PROVE  Committed(c, Commit(c, b, s), b, s)
  <1> DEFINE i == Insert(c, b, s)
             w == SwitchHead(i, b.hash)
             d == Prune(w)
  <1>1. /\ Known(w) = Known(c) \cup {b.hash}
        /\ DOMAIN w.snapshots = DOMAIN c.snapshots \cup {b.hash}
        /\ \A h \in Known(c) \ {b.hash} : w.blocks[h] = c.blocks[h]
        /\ \A h \in DOMAIN c.snapshots \ {b.hash} : w.snapshots[h] = c.snapshots[h]
        /\ w.blocks[b.hash] = b
        /\ w.snapshots[b.hash] = s
        /\ w.head = b.hash
    <2>1. /\ Known(i) = Known(c) \cup {b.hash}
          /\ DOMAIN i.snapshots = DOMAIN c.snapshots \cup {b.hash}
          /\ \A h \in Known(c) \ {b.hash} : i.blocks[h] = c.blocks[h]
          /\ \A h \in DOMAIN c.snapshots \ {b.hash} : i.snapshots[h] = c.snapshots[h]
          /\ i.blocks[b.hash] = b
          /\ i.snapshots[b.hash] = s
      BY InsertShape
    <2> HIDE DEF i
    <2>2. w.blocks = i.blocks /\ w.snapshots = i.snapshots /\ w.head = b.hash
      BY SwitchHeadShape
    <2> HIDE DEF w
    <2>3. Known(w) = Known(i)
      BY <2>2 DEF Known
    <2>4. QED
      BY <2>1, <2>2, <2>3
  <1>2. /\ Known(d) = Known(w) \ Finalized(w)
        /\ DOMAIN d.snapshots = DOMAIN w.snapshots \ Finalized(w)
        /\ \A h \in Known(d) : d.blocks[h] = w.blocks[h]
        /\ \A h \in DOMAIN d.snapshots : d.snapshots[h] = w.snapshots[h]
        /\ d.head = b.hash
    BY <1>1, PruneShape
  <1>3. d = Commit(c, b, s)
    BY DEF Commit
  <1>4. /\ \A h \in Known(c) : c.blocks[h].height \in Nat
        /\ b.height \in Nat
        /\ HeadHeight(c) \in Nat
        /\ SnapshotDepth \in Nat
        /\ b.hash \notin Known(c)
        /\ DOMAIN c.snapshots = Known(c)
    BY BlockAssumption, DepthAssumption
       DEF ChainOK, Typed, Paired, Extends, HeadHeight, HeadBlock
  <1> HIDE DEF i, w, d
  <1>5. HeadHeight(w) = b.height
    BY <1>1 DEF HeadHeight, HeadBlock
  <1>6. Finalized(w) = {h \in Known(c) : c.blocks[h].height + SnapshotDepth < b.height}
    BY <1>1, <1>4, <1>5 DEF Finalized
  <1>7. b.hash \in Known(d) /\ HeadHeight(d) = b.height
    BY <1>1, <1>2, <1>4, <1>6 DEF HeadHeight, HeadBlock
  <1>8. Records(c, d, b, s)
    BY <1>1, <1>2, <1>4, <1>6, <1>7 DEF Records
  <1>9. QED
    BY <1>2, <1>3, <1>7, <1>8, Zenon DEF Committed

\* Insert leaves the head, also when it records a new block.
LEMMA InsertKeepsHead ==
    ASSUME NEW c, NEW a, ChainOK(c, a), NEW b \in Block, Extends(c, b), NEW s
    PROVE  HeadHeight(Insert(c, b, s)) = HeadHeight(c) /\ Insert(c, b, s).head = c.head
  <1> DEFINE d == Insert(c, b, s)
  <1>1. /\ \A h \in Known(c) \ {b.hash} : d.blocks[h] = c.blocks[h]
        /\ d.head = c.head
    BY InsertShape
  <1>2. c.head \in Known(c) /\ c.head # b.hash
    BY Zenon DEF ChainOK, Typed, Extends
  <1> HIDE DEF d
  <1>3. HeadHeight(d) = HeadHeight(c) /\ d.head = c.head
    BY <1>1, <1>2, Zenon DEF HeadHeight, HeadBlock
  <1>4. QED
    BY <1>3, Zenon DEF d

\* What apply_block makes of c when it accepts the block b: b is recorded,
\* and is the head if it is taller.
Applied(c, d, b, s) ==
    /\ Extends(c, b)
    /\ Records(c, d, b, s)
    /\ d.head = IF b.height > HeadHeight(c) THEN b.hash ELSE c.head
    /\ b.height > HeadHeight(c) => HeadHeight(d) = b.height

LEMMA ApplyRecords ==
    ASSUME NEW c, NEW a, ChainOK(c, a), NEW b \in Block, NEW time, Accepts(c, b, time)
    PROVE  Applied(c, ApplyBlock(c, b, time), b, ReplayStore(b, c.snapshots[b.parent]))
  <1> DEFINE d == ApplyBlock(c, b, time)
             s == ReplayStore(b, c.snapshots[b.parent])
             i == Insert(c, b, s)
  <1>1. Extends(c, b)
    BY Zenon DEF Accepts, Extends
  <1>2. HeadHeight(i) = HeadHeight(c) /\ i.head = c.head
    BY <1>1, InsertKeepsHead, Zenon
  <1>3. d = IF b.height > HeadHeight(c) THEN Commit(c, b, s) ELSE i
    BY <1>2, Zenon DEF ApplyBlock, Adopt, Commit
  <1>4. b.height \in Nat /\ HeadHeight(c) \in Nat
    BY BlockAssumption DEF ChainOK, Typed, HeadHeight, HeadBlock
  <1>5. CASE b.height > HeadHeight(c)
    <2>1. Committed(c, Commit(c, b, s), b, s)
      BY <1>1, <1>5, CommitRecords, Zenon
    <2>2. d = Commit(c, b, s)
      BY <1>3, <1>5, Zenon
    <2> HIDE DEF d, s
    <2>3. Applied(c, d, b, s)
      BY <1>1, <1>5, <2>1, <2>2, Zenon DEF Applied, Committed
    <2>4. QED
      BY <2>3, Zenon DEF d, s
  <1>6. CASE ~(b.height > HeadHeight(c))
    <2>1. b.height <= HeadHeight(c)
      BY <1>4, <1>6
    <2>2. Records(c, i, b, s)
      BY <1>1, <2>1, InsertRecords, Zenon
    <2>3. d = i
      BY <1>3, <1>6, Zenon
    <2> HIDE DEF d, s, i
    <2>4. Applied(c, d, b, s)
      BY <1>1, <1>2, <1>6, <2>2, <2>3, Zenon DEF Applied
    <2>5. QED
      BY <2>4, Zenon DEF d, s
  <1>7. QED
    BY <1>5, <1>6, Zenon

\* apply_block keeps the chain state sound, whatever the block.
LEMMA ApplyBlockOK ==
    ASSUME NEW c, NEW a, ChainOK(c, a), NEW b \in Block, NEW time
    PROVE  /\ ChainOK(ApplyBlock(c, b, time), a)
           /\ \/ ApplyBlock(c, b, time).head = c.head
              \/ HeadHeight(ApplyBlock(c, b, time)) > HeadHeight(c)
           /\ \A h \in Known(c) \cap Known(ApplyBlock(c, b, time)) :
                 /\ ApplyBlock(c, b, time).blocks[h] = c.blocks[h]
                 /\ ApplyBlock(c, b, time).snapshots[h] = c.snapshots[h]
  <1> DEFINE d == ApplyBlock(c, b, time)
             s == ReplayStore(b, c.snapshots[b.parent])
  <1>1. CASE ~Accepts(c, b, time)
    BY <1>1, Zenon DEF ApplyBlock
  <1>2. CASE Accepts(c, b, time)
    <2>0. Applied(c, d, b, s)
      BY <1>2, ApplyRecords, Zenon
    <2>1. Extends(c, b) /\ Records(c, d, b, s)
      BY <2>0, Zenon DEF Applied
    <2>2. ChainOK(d, a)
      BY <2>1, RecordsKeepsOK, Zenon
    <2> HIDE DEF d, s
    <2>3. d.head = c.head \/ HeadHeight(d) > HeadHeight(c)
      BY <2>0, Zenon DEF Applied
    <2>4. \A h \in Known(c) \cap Known(d) :
             d.blocks[h] = c.blocks[h] /\ d.snapshots[h] = c.snapshots[h]
      BY <2>1, Zenon DEF Records, Extends
    <2>5. QED
      BY <2>2, <2>3, <2>4, Zenon DEF d
  <1>3. QED
    BY <1>1, <1>2, Zenon

-----------------------------------------------------------------------------
(* The actions of Chain.                                                   *)

\* The effect of one step on the chain: sound afterwards, a head that only
\* moves up, and retained blocks that keep their snapshot.
GoodStep ==
    /\ ChainInv'
    /\ chain'.head # chain.head => HeadHeight(chain') > HeadHeight(chain)
    /\ \A h \in Known(chain) \cap Known(chain') :
          /\ chain'.blocks[h] = chain.blocks[h]
          /\ chain'.snapshots[h] = chain.snapshots[h]

\* Every action takes a sound chain state to a sound one.
LEMMA StepIsGood ==
    ASSUME ChainInv, [Next]_vars
    PROVE  GoodStep
  <1> USE DEF ChainInv, GoodStep
  <1>1. ASSUME NEW b \in Block, Apply(b)
        PROVE  GoodStep
    BY <1>1, ApplyBlockOK DEF Apply, TypeOK, ChainOK
  <1>2. ASSUME NEW b \in Block, CommitMined(b)
        PROVE  GoodStep
    <2> DEFINE s == ReplayStore(b, HeadStore(chain))
    <2>1. /\ b.height > HeadHeight(chain)
          /\ chain.head \in Known(chain)
      BY <1>2, BlockAssumption
         DEF CommitMined, ChainOK, Typed, HeadHeight, HeadBlock
    <2>2. Extends(chain, b)
      BY <1>2, <2>1, TallerIsNew
         DEF CommitMined, Extends, HeadStore, HeadHeight, HeadBlock
    <2>3. /\ Records(chain, chain', b, s)
          /\ HeadHeight(chain') > HeadHeight(chain)
      <3>1. Committed(chain, Commit(chain, b, s), b, s)
        BY <2>1, <2>2, CommitRecords, Zenon
      <3>2. chain' = Commit(chain, b, s)
        BY <1>2, Zenon DEF CommitMined
      <3> HIDE DEF s
      <3>3. QED
        BY <2>1, <3>1, <3>2, Zenon DEF Committed
    <2>4. ChainOK(chain', anchor)
      BY <1>2, <2>2, <2>3, RecordsKeepsOK DEF CommitMined, HeadStore
    <2>5. QED
      BY <1>2, <2>2, <2>3, <2>4 DEF CommitMined, Records, Extends, TypeOK, ChainOK
  <1>3. ASSUME NEW b \in Block, NEW s \in Store, ReplaceFromSnapshot(b, s)
        PROVE  GoodStep
    <2>1. b.hash \notin Known(chain) /\ b.height > HeadHeight(chain)
      BY <1>3, TallerIsNew DEF ReplaceFromSnapshot, SnapshotAccepted
    <2>2. ChainOK(chain', anchor')
      BY <1>3, AnchoredOK DEF ReplaceFromSnapshot, SnapshotAccepted
    <2>3. Known(chain') = {b.hash} /\ HeadHeight(chain') = b.height
      BY <1>3 DEF ReplaceFromSnapshot, AnchoredAt, Known, HeadHeight, HeadBlock
    <2>4. anchor' \in Digest /\ now' \in 0..MaxTime
      BY <1>3, BlockAssumption DEF ReplaceFromSnapshot, TypeOK
    <2>5. QED
      BY <2>1, <2>2, <2>3, <2>4 DEF TypeOK, ChainOK
  <1>4. CASE Tick
    BY <1>4, TimeAssumption DEF Tick, TypeOK
  <1>5. CASE UNCHANGED vars
    BY <1>5 DEF vars, TypeOK
  <1>6. QED
    BY <1>1, <1>2, <1>3, <1>4, <1>5 DEF Next

\* The inductive invariant holds in every reachable chain state.
THEOREM ChainInvariant == Spec => []ChainInv
  <1>1. Init => ChainInv
    BY AnchoredOK, BlockAssumption, TimeAssumption
       DEF Init, ChainInv, NewChain, TypeOK, ChainOK
  <1>2. ChainInv /\ [Next]_vars => ChainInv'
    BY StepIsGood DEF GoodStep
  <1>3. QED
    BY <1>1, <1>2, PTL DEF Spec

\* The type invariant.
THEOREM TypeCorrect == Spec => []TypeOK
  BY ChainInvariant, PTL DEF ChainInv

\* Blocks and snapshots are kept and pruned together.
THEOREM SnapshotPerBlockHolds == Spec => []SnapshotPerBlock
  <1>1. ChainInv => SnapshotPerBlock
    BY DEF ChainInv, ChainOK, SnapshotPerBlock
  <1>2. QED
    BY <1>1, ChainInvariant, PTL

\* The retained blocks are within SnapshotDepth of the head.
THEOREM RetentionWindowHolds == Spec => []RetentionWindow
  <1>1. ChainInv => RetentionWindow
    BY DEF ChainInv, ChainOK, RetentionWindow
  <1>2. QED
    BY <1>1, ChainInvariant, PTL

\* The retained chain has no gaps above the lower edge of the window.
THEOREM NoGapsHolds == Spec => []NoGaps
  <1>1. ChainInv => NoGaps
    BY OKImpliesLinked DEF ChainInv, NoGaps
  <1>2. QED
    BY <1>1, ChainInvariant, PTL

\* Every snapshot is the re-execution of its block.
THEOREM SnapshotIntegrityHolds == Spec => []SnapshotIntegrity
  <1>1. ChainInv => SnapshotIntegrity
    BY DEF ChainInv, ChainOK, SnapshotIntegrity
  <1>2. QED
    BY <1>1, ChainInvariant, PTL

\* The head only moves to a taller block.
THEOREM HeadAdvances == Spec => HeadOnlyAdvances
  <1>1. ChainInv /\ [Next]_vars =>
          [chain'.head # chain.head => HeadHeight(chain') > HeadHeight(chain)]_vars
    BY StepIsGood DEF GoodStep
  <1>2. QED
    BY <1>1, ChainInvariant, PTL DEF Spec, HeadOnlyAdvances

\* A block that stays known keeps its snapshot.
THEOREM SnapshotsFinal == Spec => SnapshotsAreFinal
  <1>1. ChainInv /\ [Next]_vars =>
          [\A h \in Known(chain) \cap Known(chain') :
              /\ chain'.blocks[h] = chain.blocks[h]
              /\ chain'.snapshots[h] = chain.snapshots[h]]_vars
    BY StepIsGood DEF GoodStep
  <1>2. QED
    BY <1>1, ChainInvariant, PTL DEF Spec, SnapshotsAreFinal

-----------------------------------------------------------------------------
(* Chain implements Archive.  The refinement invariant is Covers: a chain  *)
(* state is the part of the archive within SnapshotDepth of the head.      *)

\* What a chain state holds under one hash.
HeldAt(c, h) == [block |-> c.blocks[h], store |-> c.snapshots[h]]

IsFcn(f) == f = [h \in DOMAIN f |-> f[h]]

\* f is all that the chain state c ever held: what c holds, and blocks that
\* have dropped below its window.
Covers(c, f) ==
    /\ IsFcn(f)
    /\ Known(c) \subseteq DOMAIN f
    /\ \A h \in DOMAIN f : f[h].block \in Block /\ f[h].block.hash = h
    /\ \A h \in Known(c) : f[h] = HeldAt(c, h)
    /\ \A h \in DOMAIN f : h \notin Known(c) =>
          f[h].block.height + SnapshotDepth < HeadHeight(c)

\* The refinement invariant.
ArchiveInv == ChainInv /\ Covers(chain, archive)

\* g is the history f together with what c holds.
Joined(g, f, c) ==
    /\ IsFcn(g)
    /\ DOMAIN g = DOMAIN f \cup Known(c)
    /\ \A h \in Known(c) : g[h] = HeldAt(c, h)
    /\ \A h \in DOMAIN f : h \notin Known(c) => g[h] = f[h]

\* What Remembering returns.
LEMMA RememberingShape ==
    ASSUME NEW c, NEW f
    PROVE  Joined(Remembering(f, c), f, c)
  BY DEF Joined, Remembering, Held, HeldAt, IsFcn

\* The fields of what is held.
LEMMA HeldAtFields ==
    ASSUME NEW c, NEW h
    PROVE  HeldAt(c, h).block = c.blocks[h] /\ HeldAt(c, h).store = c.snapshots[h]
  BY DEF HeldAt

\* A block that extends a retained one was never held before: one that was
\* pruned is below the window, and its hash fixes its height.
LEMMA ExtensionIsNew ==
    ASSUME NEW c, NEW a, ChainOK(c, a), NEW f, Covers(c, f),
           NEW b \in Block, Extends(c, b)
    PROVE  b.hash \notin DOMAIN f
  <1>1. /\ b.parent \in Known(c)
        /\ b.hash \notin Known(c)
        /\ b.height = c.blocks[b.parent].height + 1
        /\ c.blocks[b.parent].height + SnapshotDepth >= HeadHeight(c)
        /\ c.blocks[b.parent].height \in Nat
        /\ HeadHeight(c) \in Nat
    BY BlockAssumption DEF Extends, ChainOK, Typed, Windowed, HeadHeight, HeadBlock
  <1>2. ASSUME b.hash \in DOMAIN f
        PROVE  FALSE
    <2>1. f[b.hash].block \in Block /\ f[b.hash].block.hash = b.hash
      BY <1>2 DEF Covers
    <2>2. f[b.hash].block.height = b.height
      BY <2>1, HashBindsHeader
    <2>3. b.height + SnapshotDepth < HeadHeight(c)
      BY <1>1, <1>2, <2>2 DEF Covers
    <2>4. QED
      BY <1>1, <2>3, DepthAssumption
  <1>3. QED
    BY <1>2

\* g is the history f, of which d is the newest part, with b recorded in it.
Remembers(f, g, d, b, s) ==
    Covers(d, g) /\ g = Put(f, b.hash, [block |-> b, store |-> s])

\* Recording a block adds exactly that block to the history, and the chain
\* stays the part of the history within the window.
LEMMA RecordsCovers ==
    ASSUME NEW c, NEW a, ChainOK(c, a), NEW f, Covers(c, f),
           NEW b \in Block, Extends(c, b), NEW s, NEW d, Records(c, d, b, s)
    PROVE  Remembers(f, Remembering(f, d), d, b, s)
  <1>1. b.hash \notin DOMAIN f
    BY ExtensionIsNew
  <1>0. PICK g : g = Remembering(f, d)
    OBVIOUS
  <1>2. /\ IsFcn(g)
        /\ DOMAIN g = DOMAIN f \cup Known(d)
        /\ \A h \in Known(d) : g[h] = HeldAt(d, h)
        /\ \A h \in DOMAIN f : h \notin Known(d) => g[h] = f[h]
    BY <1>0, RememberingShape, Zenon DEF Joined
  <1>a. /\ b.hash \in Known(d) /\ d.blocks[b.hash] = b /\ d.snapshots[b.hash] = s
        /\ \A h \in Known(d) : \/ h = b.hash
                              \/ /\ h \in Known(c) /\ d.blocks[h] = c.blocks[h]
                                 /\ d.snapshots[h] = c.snapshots[h]
    BY Zenon DEF Records
  <1>b. /\ Known(c) \subseteq DOMAIN f
        /\ \A h \in DOMAIN f : f[h].block \in Block /\ f[h].block.hash = h
        /\ \A h \in Known(c) : f[h] = HeldAt(c, h)
    BY Zenon DEF Covers
  <1>3. DOMAIN g = DOMAIN f \cup {b.hash}
    <2>1. Known(d) \subseteq DOMAIN f \cup {b.hash}
      BY <1>a, <1>b, Zenon
    <2>2. QED
      BY <1>2, <1>a, <2>1, Zenon
  <1>4. g[b.hash] = [block |-> b, store |-> s]
    BY <1>2, <1>a, Zenon DEF HeldAt
  <1>5. ASSUME NEW h \in DOMAIN f PROVE g[h] = f[h]
    <2>1. h # b.hash
      BY <1>1, Zenon
    <2>2. CASE h \in Known(d)
      <3>1. HeldAt(d, h) = HeldAt(c, h) /\ h \in Known(c)
        BY <1>a, <2>1, <2>2, Zenon DEF HeldAt
      <3>2. QED
        BY <1>2, <1>b, <2>2, <3>1, Zenon
    <2>3. QED
      BY <1>2, <2>2, Zenon
  <1>6. g = Put(f, b.hash, [block |-> b, store |-> s])
    BY <1>1, <1>2, <1>3, <1>4, <1>5 DEF Put, IsFcn
  <1>7. \A h \in DOMAIN g : g[h].block \in Block /\ g[h].block.hash = h
    <2>1. g[b.hash].block = b /\ b.hash \in DOMAIN g
      <3>1. g[b.hash] = HeldAt(d, b.hash) /\ b.hash \in DOMAIN g
        BY <1>2, <1>3, <1>a, Zenon
      <3>2. HeldAt(d, b.hash).block = d.blocks[b.hash]
        BY HeldAtFields
      <3>3. QED
        BY <1>a, <3>1, <3>2, Zenon
    <2>2. b.hash = g[b.hash].block.hash /\ g[b.hash].block \in Block
      BY <2>1, Zenon
    <2>3. QED
      BY <1>3, <1>5, <1>b, <2>2, Zenon
  <1>8. HeadHeight(c) \in Nat /\ HeadHeight(d) \in Nat /\ HeadHeight(d) >= HeadHeight(c)
    BY BlockAssumption DEF Records, ChainOK, Typed, HeadHeight, HeadBlock
  <1>9. ASSUME NEW h \in DOMAIN g, h \notin Known(d)
        PROVE  g[h].block.height + SnapshotDepth < HeadHeight(d)
    <2>1. h \in DOMAIN f /\ g[h] = f[h]
      BY <1>2, <1>9
    <2>2. CASE h \in Known(c)
      <3>1. g[h].block = c.blocks[h]
        <4>1. g[h] = HeldAt(c, h)
          BY <1>b, <2>1, <2>2, Zenon
        <4>2. QED
          BY <4>1, HeldAtFields, Zenon
      <3>2. QED
        BY <1>9, <2>2, <3>1 DEF Records
    <2>3. CASE h \notin Known(c)
      <3>1. f[h].block.height + SnapshotDepth < HeadHeight(c)
        BY <2>1, <2>3 DEF Covers
      <3>2. f[h].block.height \in Nat
        BY <2>1, BlockAssumption DEF Covers
      <3>3. QED
        BY <1>8, <2>1, <3>1, <3>2, DepthAssumption
    <2>4. QED
      BY <2>2, <2>3
  <1>10. Covers(d, g)
    BY <1>2, <1>7, <1>9 DEF Covers
  <1>11. QED
    BY <1>0, <1>6, <1>10, Zenon DEF Remembers

\* What the refinement invariant says of the head and of what is held.
LEMMA ArchiveView ==
    ASSUME ArchiveInv
    PROVE  /\ chain.head \in Known(chain)
           /\ ChainOK(chain, anchor)
           /\ \A h \in Known(chain) : /\ archive[h].block = chain.blocks[h]
                                      /\ archive[h].store = chain.snapshots[h]
           /\ HeadHeight(chain) \in Nat
  <1>1. ChainInv /\ Covers(chain, archive)
    BY Zenon DEF ArchiveInv
  <1>2. ChainOK(chain, anchor) /\ chain.head \in Known(chain)
    BY <1>1, Zenon DEF ChainInv, ChainOK, Typed
  <1>3. ASSUME NEW h \in Known(chain)
        PROVE  archive[h].block = chain.blocks[h] /\ archive[h].store = chain.snapshots[h]
    <2>1. archive[h] = HeldAt(chain, h)
      BY <1>1, Zenon DEF Covers
    <2>2. QED
      BY <2>1, HeldAtFields, Zenon
  <1>4. HeadHeight(chain) \in Nat
    BY <1>2, BlockAssumption DEF ChainOK, Typed, HeadHeight, HeadBlock
  <1>5. QED
    BY <1>2, <1>3, <1>4, Zenon

\* apply_block accepts what the archive admits.
LEMMA AcceptsAsArchive ==
    ASSUME ArchiveInv, NEW b \in Block
    PROVE  Accepts(chain, b, now) <=> Ideal!Admissible(b)
  <1> USE DEF ArchiveInv, ChainInv
  <1>1. /\ chain.head \in Known(chain)
        /\ \A h \in Known(chain) : /\ archive[h].block = chain.blocks[h]
                                   /\ archive[h].store = chain.snapshots[h]
        /\ Known(chain) \subseteq DOMAIN archive
    BY HeldAtFields DEF Covers, ChainOK, Typed
  <1>2. Ideal!TipHeight = HeadHeight(chain)
    BY <1>1 DEF Ideal!TipHeight, HeadHeight, HeadBlock
  <1>3. \A h \in Known(chain) : Ideal!Open(h)
    BY <1>1, <1>2 DEF Ideal!Open, ChainOK, Windowed
  <1>4. ASSUME NEW h \in DOMAIN archive, Ideal!Open(h)
        PROVE  h \in Known(chain)
    <2>1. /\ archive[h].block.height \in Nat
          /\ HeadHeight(chain) \in Nat
          /\ archive[h].block.height + SnapshotDepth >= HeadHeight(chain)
      BY <1>1, <1>2, <1>4, BlockAssumption
         DEF Covers, Ideal!Open, ChainOK, Typed, HeadHeight, HeadBlock
    <2>2. QED
      BY <2>1, DepthAssumption DEF Covers
  <1>5. ASSUME Accepts(chain, b, now)
        PROVE  Ideal!Admissible(b)
    <2>1. Extends(chain, b)
      BY <1>5 DEF Accepts, Extends
    <2>2. b.hash \notin DOMAIN archive
      BY <2>1, ExtensionIsNew
    <2>3. QED
      BY <1>1, <1>3, <1>5, <2>2 DEF Accepts, Ideal!Admissible, Ideal!Follows
  <1>6. ASSUME Ideal!Admissible(b)
        PROVE  Accepts(chain, b, now)
    <2>1. b.parent \in Known(chain)
      BY <1>4, <1>6 DEF Ideal!Admissible
    <2>2. b.hash \notin Known(chain)
      BY <1>1, <1>6 DEF Ideal!Admissible
    <2>3. QED
      BY <1>1, <1>6, <2>1, <2>2 DEF Accepts, Ideal!Admissible, Ideal!Follows
  <1>7. QED
    BY <1>5, <1>6

\* A chain state that records nothing adds nothing to the history.
LEMMA NothingNew ==
    ASSUME NEW c, NEW f, Covers(c, f)
    PROVE  Remembering(f, c) = f
  <1>0. PICK g : g = Remembering(f, c)
    OBVIOUS
  <1>1. Joined(g, f, c)
    BY <1>0, RememberingShape
  <1>2. IsFcn(g) /\ DOMAIN g = DOMAIN f
    BY <1>1, Zenon DEF Joined, Covers
  <1>3. \A h \in DOMAIN f : g[h] = f[h]
    BY <1>1 DEF Joined, Covers
  <1>4. QED
    BY <1>0, <1>2, <1>3 DEF Covers, IsFcn

\* One step of the chain: the refinement invariant is kept, and the archive
\* takes a step or nothing changes in it.
ArchiveStep == ArchiveInv' /\ [Ideal!Next]_(Ideal!vars)

\* A step of Chain is a step of the archive.
LEMMA StepIsArchiveStep ==
    ASSUME ArchiveInv, [Next]_vars
    PROVE  ArchiveStep
  <1>0. ChainInv /\ Covers(chain, archive)
    BY Zenon DEF ArchiveInv
  <1>1. ChainInv'
    BY <1>0, StepIsGood, Zenon DEF GoodStep
  <1>2. /\ chain.head \in Known(chain)
        /\ ChainOK(chain, anchor)
        /\ \A h \in Known(chain) : /\ archive[h].block = chain.blocks[h]
                                   /\ archive[h].store = chain.snapshots[h]
        /\ HeadHeight(chain) \in Nat
    BY ArchiveView, Zenon
  <1>3. Ideal!TipHeight = HeadHeight(chain)
    BY <1>2, Zenon DEF Ideal!TipHeight, HeadHeight, HeadBlock
  <1>4. ASSUME NEW b \in Block, Apply(b), Accepts(chain, b, now)
        PROVE  ArchiveStep
    <2> DEFINE s == ReplayStore(b, chain.snapshots[b.parent])
    <2>1. chain' = ApplyBlock(chain, b, now) /\ archive' = Remembering(archive, chain') /\ now' = now
      BY <1>4, Zenon DEF Apply
    <2>2. Applied(chain, ApplyBlock(chain, b, now), b, s)
      BY <1>2, <1>4, ApplyRecords, Zenon
    <2> HIDE DEF s
    <2>3. /\ Extends(chain, b) /\ Records(chain, chain', b, s)
          /\ chain'.head = IF b.height > HeadHeight(chain) THEN b.hash ELSE chain.head
      BY <2>1, <2>2, Zenon DEF Applied
    <2>4. Remembers(archive, archive', chain', b, s)
      BY <1>0, <1>2, <2>1, <2>3, RecordsCovers, Zenon
    <2>5. archive[b.parent].store = chain.snapshots[b.parent]
      BY <1>2, <2>3, Zenon DEF Extends
    <2>6. Ideal!Remember(b)
      BY <2>4, <2>5, Zenon DEF Remembers, Ideal!Remember, Ideal!Entry, Ideal!Put, Put, s
    <2>7. Ideal!Receive(b)
      BY <1>3, <1>4, <2>1, <2>3, <2>6, AcceptsAsArchive, Zenon DEF Ideal!Receive
    <2>8. ArchiveInv'
      BY <1>1, <2>4, Zenon DEF Remembers, ArchiveInv
    <2>9. QED
      BY <2>7, <2>8, Zenon DEF ArchiveStep, Ideal!Next
  <1>5. ASSUME NEW b \in Block, Apply(b), ~Accepts(chain, b, now)
        PROVE  ArchiveStep
    <2>1. chain' = chain /\ now' = now /\ archive' = Remembering(archive, chain)
      BY <1>5, Zenon DEF Apply, ApplyBlock
    <2>2. archive' = archive
      BY <1>0, <2>1, NothingNew, Zenon
    <2>3. ArchiveInv'
      BY <1>0, <1>1, <2>1, <2>2, Zenon DEF ArchiveInv
    <2>4. QED
      BY <2>1, <2>2, <2>3, Zenon DEF ArchiveStep, Ideal!vars
  <1>6. ASSUME NEW b \in Block, CommitMined(b)
        PROVE  ArchiveStep
    <2> DEFINE s == ReplayStore(b, HeadStore(chain))
    <2>0. /\ b.parent = chain.head /\ b.height = HeadHeight(chain) + 1
          /\ ValidStructure(b, now) /\ ReplayOk(b, HeadStore(chain))
          /\ StateRoot(s) = b.stateRoot
          /\ chain' = Commit(chain, b, s)
          /\ archive' = Remembering(archive, chain') /\ now' = now
      BY <1>6, Zenon DEF CommitMined
    <2>1. b.height > HeadHeight(chain)
      BY <1>2, <2>0, NextIsTaller, Zenon
    <2>2. Extends(chain, b)
      <3>1. b.hash \notin Known(chain)
        BY <1>2, <2>1, TallerIsNew, Zenon
      <3>2. HeadStore(chain) = chain.snapshots[b.parent]
        BY <2>0, Zenon DEF HeadStore
      <3>3. HeadHeight(chain) = chain.blocks[b.parent].height
        BY <2>0, Zenon DEF HeadHeight, HeadBlock
      <3>4. QED
        BY <1>2, <2>0, <3>1, <3>2, <3>3, Zenon DEF Extends
    <2> HIDE DEF s
    <2>3. Records(chain, chain', b, s) /\ chain'.head = b.hash
      <3>1. Committed(chain, Commit(chain, b, s), b, s)
        BY <1>2, <2>1, <2>2, CommitRecords, Zenon
      <3>2. QED
        BY <2>0, <3>1, Zenon DEF Committed
    <2>4. Remembers(archive, archive', chain', b, s)
      BY <1>0, <1>2, <2>0, <2>2, <2>3, RecordsCovers, Zenon
    <2>5. b.hash \notin DOMAIN archive
      BY <1>0, <1>2, <2>2, ExtensionIsNew, Zenon
    <2>6. archive[chain.head].store = HeadStore(chain)
      BY <1>2, Zenon DEF HeadStore
    <2>7. Ideal!Remember(b)
      BY <2>0, <2>4, <2>6, Zenon
         DEF Remembers, Ideal!Remember, Ideal!Entry, Ideal!Put, Put, s
    <2>8. Ideal!Follows(b, chain.head)
      BY <1>2, <2>0, <2>6, Zenon DEF Ideal!Follows, HeadHeight, HeadBlock, s
    <2>9. Ideal!Mine(b)
      BY <2>0, <2>3, <2>5, <2>7, <2>8, Zenon DEF Ideal!Mine
    <2>10. ArchiveInv'
      BY <1>1, <2>4, Zenon DEF Remembers, ArchiveInv
    <2>11. QED
      BY <2>9, <2>10, Zenon DEF ArchiveStep, Ideal!Next
  <1>7. ASSUME NEW b \in Block, NEW s \in Store, ReplaceFromSnapshot(b, s)
        PROVE  ArchiveStep
    <2>1. /\ chain' = AnchoredAt(b, s)
          /\ archive' = Held(chain')
      BY <1>7 DEF ReplaceFromSnapshot
    <2>2. /\ Known(chain') = {b.hash}
          /\ chain'.head = b.hash
          /\ archive' = [h \in {b.hash} |-> [block |-> b, store |-> s]]
          /\ HeldAt(chain', b.hash) = [block |-> b, store |-> s]
      BY <2>1 DEF AnchoredAt, Held, HeldAt, Known
    <2>3. Covers(chain', archive')
      BY <2>2 DEF Covers, IsFcn
    <2>4. Ideal!StartOver(b, s)
      BY <1>3, <1>7, <2>2, Zenon
         DEF ReplaceFromSnapshot, SnapshotAccepted, Ideal!StartOver, Ideal!Entry
    <2>5. ArchiveInv'
      BY <1>1, <2>3, Zenon DEF ArchiveInv
    <2>6. QED
      BY <2>4, <2>5, Zenon DEF ArchiveStep, Ideal!Next
  <1>8. CASE Tick
    <2>1. Ideal!Tick
      BY <1>0, <1>8 DEF Tick, Ideal!Tick, ChainInv, TypeOK
    <2>2. ArchiveInv'
      BY <1>0, <1>1, <1>8, Zenon DEF Tick, ArchiveInv
    <2>3. QED
      BY <2>1, <2>2, Zenon DEF ArchiveStep, Ideal!Next
  <1>9. CASE UNCHANGED vars
    <2>1. ArchiveInv'
      BY <1>0, <1>1, <1>9, Zenon DEF vars, ArchiveInv
    <2>2. QED
      BY <1>9, <2>1, Zenon DEF ArchiveStep, vars, Ideal!vars
  <1>10. QED
    BY <1>4, <1>5, <1>6, <1>7, <1>8, <1>9 DEF Next

\* The refinement invariant holds in every reachable state.
THEOREM ArchiveInvariant == Spec => []ArchiveInv
  <1>1. Init => ArchiveInv
    <2> SUFFICES ASSUME Init
                 PROVE  ArchiveInv
      OBVIOUS
    <2>1. ChainInv
      BY AnchoredOK, BlockAssumption, TimeAssumption
         DEF Init, ChainInv, NewChain, TypeOK, ChainOK
    <2>2. /\ Known(chain) = {GenesisBlock.hash}
          /\ archive = [h \in {GenesisBlock.hash} |->
                          [block |-> GenesisBlock, store |-> GenesisStore]]
          /\ HeldAt(chain, GenesisBlock.hash) =
                [block |-> GenesisBlock, store |-> GenesisStore]
      BY DEF Init, NewChain, AnchoredAt, Held, HeldAt, Known
    <2>3. Covers(chain, archive)
      BY <2>2, BlockAssumption DEF Covers, IsFcn
    <2>4. QED
      BY <2>1, <2>3 DEF ArchiveInv
  <1>2. ArchiveInv /\ [Next]_vars => ArchiveInv'
    BY StepIsArchiveStep DEF ArchiveStep
  <1>3. QED
    BY <1>1, <1>2, PTL DEF Spec

\* Pruning is exactly finality: the chain is the archive within the window,
\* and apply_block accepts what a node without pruning does.
THEOREM PruningIsFinalityHolds == Spec => []PruningIsFinality
  <1>1. ASSUME ArchiveInv
        PROVE  PruningIsFinality
    <2>1. /\ ChainOK(chain, anchor)
          /\ chain.head \in Known(chain)
          /\ \A h \in Known(chain) : archive[h].block = chain.blocks[h]
      BY <1>1, ArchiveView, Zenon
    <2>2. HeadHeight(chain) \in Nat /\ Ideal!TipHeight = HeadHeight(chain)
      BY <1>1, <2>1, ArchiveView, Zenon DEF Ideal!TipHeight, HeadHeight, HeadBlock
    <2>3. ASSUME NEW h \in DOMAIN archive, h \in Known(chain)
          PROVE  Ideal!Open(h) /\ archive[h] = Held(chain)[h]
      BY <1>1, <2>1, <2>2, <2>3, Zenon
         DEF ArchiveInv, Covers, ChainOK, Windowed, Ideal!Open, Held, HeldAt
    <2>4. ASSUME NEW h \in DOMAIN archive, h \notin Known(chain)
          PROVE  ~Ideal!Open(h)
      <3> DEFINE k == archive[h].block.height
      <3>1. /\ archive[h].block \in Block
            /\ k + SnapshotDepth < HeadHeight(chain)
        BY <1>1, <2>4, Zenon DEF ArchiveInv, Covers
      <3>2. k \in Nat
        BY <3>1, BlockAssumption
      <3>3. Ideal!Open(h) => k + SnapshotDepth >= HeadHeight(chain)
        BY <2>2, Zenon DEF Ideal!Open
      <3> HIDE DEF k
      <3>4. QED
        BY <2>2, <3>1, <3>2, <3>3, DepthAssumption
    <2>5. QED
      BY <1>1, <2>3, <2>4, AcceptsAsArchive DEF PruningIsFinality
  <1>2. QED
    BY <1>1, ArchiveInvariant, PTL

\* Chain implements Archive: a chain state with pruned maps is a node that
\* never forgets and refuses to branch below the finality window.
THEOREM ChainImplementsArchive == Spec => ImplementsArchive
  <1>1. Init => Ideal!Init
    BY DEF Init, NewChain, AnchoredAt, Held, Known, Ideal!Init, Ideal!Entry
  <1>2. ArchiveInv /\ [Next]_vars => [Ideal!Next]_(Ideal!vars)
    BY StepIsArchiveStep DEF ArchiveStep
  <1>3. QED
    BY <1>1, <1>2, ArchiveInvariant, PTL DEF Spec, ImplementsArchive, Ideal!Spec
=============================================================================
