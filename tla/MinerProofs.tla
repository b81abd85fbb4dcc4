---------------------------- MODULE MinerProofs -----------------------------
(***************************************************************************)
(* One node's Miner is safe, for every set of transactions, every batch    *)
(* peers may mine, every depth, batch size and clock: the pool is          *)
(* consistent, the node agrees with the network on every state it holds,   *)
(* what it mines verifies, and along every chain transactions execute once *)
(* and objects are written by their owners only.                           *)
(***************************************************************************)
EXTENDS Miner, LedgerProofs

-----------------------------------------------------------------------------
(* The chain state.                                                        *)

\* d is what c becomes when b is recorded with the snapshot s, except for what
\* is pruned.
Records(c, d, b, s) ==
    /\ C!Known(d) \subseteq C!Known(c) \cup {b.hash}
    /\ DOMAIN d.snapshots = C!Known(d)
    /\ \A h \in C!Known(d) : /\ d.blocks[h] = IF h = b.hash THEN b ELSE c.blocks[h]
                             /\ d.snapshots[h] = IF h = b.hash THEN s ELSE c.snapshots[h]
    /\ d.head \in C!Known(d)

LEMMA InsertRecords ==
    ASSUME NEW c, DOMAIN c.snapshots = C!Known(c), c.head \in C!Known(c), NEW b, NEW s
    PROVE  LET d == C!Insert(c, b, s)
           IN  Records(c, d, b, s) /\ C!Known(d) = C!Known(c) \cup {b.hash} /\ d.head = c.head
  <1> DEFINE d == C!Insert(c, b, s)
  <1>1. /\ d.blocks = [x \in DOMAIN c.blocks \cup {b.hash} |-> IF x = b.hash THEN b ELSE c.blocks[x]]
        /\ d.snapshots = [x \in DOMAIN c.snapshots \cup {b.hash} |->
                            IF x = b.hash THEN s ELSE c.snapshots[x]]
        /\ d.head = c.head
    BY Zenon DEF C!Insert, C!Put
  <1> HIDE DEF d
  <1>2. QED
    BY <1>1 DEF Records, C!Known, d

\* A commit makes the block the head.
LEMMA CommitRecords ==
    ASSUME NEW c, DOMAIN c.snapshots = C!Known(c), c.head \in C!Known(c),
           NEW b, b.height \in Nat, NEW s
    PROVE  LET d == C!Commit(c, b, s)
           IN  Records(c, d, b, s) /\ d.head = b.hash /\ C!HeadHeight(d) = b.height
  <1> DEFINE i == C!Insert(c, b, s)
             t == C!SwitchHead(i, b.hash)
             d == C!Prune(t)
             K == C!Known(c) \cup {b.hash}
  <1>1. d = C!Commit(c, b, s)
    BY DEF C!Commit
  <1>2. Records(c, i, b, s) /\ C!Known(i) = K
    BY InsertRecords
  <1> HIDE DEF i
  <1>3. t.blocks = i.blocks /\ t.snapshots = i.snapshots /\ t.head = b.hash
    BY Zenon DEF C!SwitchHead
  <1> HIDE DEF t
  <1>4. C!Known(t) = K /\ DOMAIN t.snapshots = K
    BY <1>2, <1>3 DEF C!Known, Records
  <1>5. t.blocks[b.hash] = b /\ b.hash \in K
    BY <1>2, <1>3 DEF Records
  <1>6. C!HeadHeight(t) = b.height
    BY <1>3, <1>5 DEF C!HeadHeight, C!HeadBlock
  <1>7. b.hash \notin C!Finalized(t)
    <2>1. ~(b.height + SnapshotDepth < b.height)
      BY ConfigAssumption
    <2>2. QED
      BY <1>5, <1>6, <2>1 DEF C!Finalized
  <1>8. /\ d.blocks = [x \in K \ C!Finalized(t) |-> i.blocks[x]]
        /\ d.snapshots = [x \in K \ C!Finalized(t) |-> i.snapshots[x]]
        /\ d.head = b.hash
    <2>1. /\ d.blocks = [x \in C!Known(t) \ C!Finalized(t) |-> t.blocks[x]]
          /\ d.snapshots = [x \in DOMAIN t.snapshots \ C!Finalized(t) |-> t.snapshots[x]]
          /\ d.head = t.head
      BY Zenon DEF C!Prune
    <2> HIDE DEF d, K
    <2>2. QED
      BY <1>3, <1>4, <2>1
  <1> HIDE DEF d
  <1>9. C!Known(d) = K \ C!Finalized(t)
    BY <1>8 DEF C!Known
  <1>10. Records(c, d, b, s)
    <2>1. \A h \in C!Known(d) : d.blocks[h] = i.blocks[h] /\ d.snapshots[h] = i.snapshots[h]
      BY <1>8, <1>9
    <2>2. \A h \in C!Known(d) : h \in C!Known(i)
      BY <1>2, <1>9
    <2>3. DOMAIN d.snapshots = C!Known(d) /\ d.head \in C!Known(d)
      BY <1>5, <1>7, <1>8, <1>9
    <2>4. QED
      BY <1>2, <1>9, <2>1, <2>2, <2>3 DEF Records
  <1>11. C!HeadHeight(d) = b.height
    BY <1>8, <1>10, Zenon DEF C!HeadHeight, C!HeadBlock, Records
  <1>12. QED
    BY <1>1, <1>8, <1>10, <1>11

\* An accepted block becomes the head only when it is taller.
LEMMA AdoptRecords ==
    ASSUME NEW c, DOMAIN c.snapshots = C!Known(c), c.head \in C!Known(c),
           NEW b, b.hash \notin C!Known(c), b.height \in Nat
    PROVE  LET d == C!Adopt(c, b)
               s == ReplayStore(b, c.snapshots[b.parent])
           IN  /\ Records(c, d, b, s)
               /\ \/ d.head = c.head
                  \/ b.height > C!HeadHeight(c) /\ C!HeadHeight(d) = b.height
  <1> DEFINE s == ReplayStore(b, c.snapshots[b.parent])
             i == C!Insert(c, b, s)
  <1> HIDE DEF s
  <1>1. Records(c, i, b, s) /\ i.head = c.head
    BY InsertRecords
  <1>2. C!HeadHeight(i) = C!HeadHeight(c)
    BY <1>1 DEF C!HeadHeight, C!HeadBlock, Records
  <1>3. CASE b.height > C!HeadHeight(c)
    <2>1. C!Adopt(c, b) = C!Commit(c, b, s)
      BY <1>2, <1>3 DEF C!Adopt, C!Commit, s
    <2>2. QED
      BY <1>3, <2>1, CommitRecords DEF s
  <1>4. CASE ~(b.height > C!HeadHeight(c))
    <2>1. C!Adopt(c, b) = i
      BY <1>2, <1>4 DEF C!Adopt, s
    <2>2. QED
      BY <1>1, <2>1 DEF s
  <1>5. QED
    BY <1>3, <1>4

-----------------------------------------------------------------------------
(* The inductive invariant.                                                *)

\* The chain holds published entries.
ChainOK(c, f) ==
    /\ c.head \in C!Known(c)
    /\ DOMAIN c.snapshots = C!Known(c)
    /\ \A h \in C!Known(c) :
          h \in DOMAIN f /\ c.blocks[h] = f[h].block /\ c.snapshots[h] = f[h].store

MinerInv ==
    /\ now \in Nat
    /\ NetOK(net)
    /\ ChainOK(chain, net)
    /\ PoolOK(pool)
    /\ WorkOK(work, net, now)

\* Genesis alone.
LEMMA MinerInvInit == Init => MinerInv
  <1> SUFFICES ASSUME Init PROVE MinerInv
    OBVIOUS
  <1> DEFINE e == Entry(GenesisBlock, GenesisStore)
  <1>1. /\ chain = C!NewChain /\ pool = EmptyPool /\ work = Idle /\ now = 1
        /\ net = [h \in {GenesisBlock.hash} |-> e]
    BY Zenon DEF Init
  <1>2. GenesisBlock.hash = << >> /\ GenesisBlock.height = 0
    BY GenesisShape, Zenon
  <1>a. e.block = GenesisBlock /\ e.store = GenesisStore
    BY EntryShape, Zenon
  <1> HIDE DEF e
  <1>3. DOMAIN net = {<< >>} /\ net[<< >>] = e
    BY <1>1, <1>2
  <1>4. << >> \in Seq(Header) /\ Len(<< >>) = 0 /\ Once(<< >>) /\ Executed(<< >>) = {}
    BY EmptySeq DEF Once, Executed
  <1>5. Sane(GenesisStore, {}, 0)
    BY GenesisAssumption DEF Sane, Origin
  <1>6. EntryOK(net, << >>)
    BY <1>2, <1>a, <1>3, <1>4, <1>5, Zenon DEF EntryOK
  <1>7. NetOK(net)
    BY <1>3, <1>6 DEF NetOK, e
  <1>8. ChainOK(chain, net)
    <2>1. /\ chain.blocks = [h \in {<< >>} |-> GenesisBlock]
          /\ chain.snapshots = [h \in {<< >>} |-> GenesisStore]
          /\ chain.head = << >>
      BY <1>1, <1>2, Zenon DEF C!NewChain, C!AnchoredAt
    <2>2. C!Known(chain) = {<< >>}
      BY <2>1 DEF C!Known
    <2>3. QED
      BY <1>a, <1>3, <2>1, <2>2 DEF ChainOK
  <1>9. QED
    BY <1>1, <1>7, <1>8, EmptyPoolOK DEF MinerInv, WorkOK

\* The chain still holds published entries when more are published.
LEMMA ChainKept ==
    ASSUME NEW c, NEW f, NEW g, ChainOK(c, f), \A h \in DOMAIN f : h \in DOMAIN g /\ g[h] = f[h]
    PROVE  ChainOK(c, g)
  BY DEF ChainOK

\* Recording a published block.
LEMMA ChainRecords ==
    ASSUME NEW c, NEW d, NEW b, NEW s, NEW f, ChainOK(c, f), Records(c, d, b, s),
           b.hash \in DOMAIN f, f[b.hash].block = b, f[b.hash].store = s
    PROVE  ChainOK(d, f)
  BY DEF ChainOK, Records

\* The head stays or moves to a taller block.
Advances == chain'.head # chain.head => C!HeadHeight(chain') > C!HeadHeight(chain)

\* apply_block reaching the chain with a published block.
LEMMA ApplyStep ==
    ASSUME MinerInv, NEW h \in DOMAIN net, ApplyBlock(net[h].block)
    PROVE  MinerInv' /\ Advances
  <1> DEFINE b == net[h].block
             s == ReplayStore(b, chain.snapshots[b.parent])
  <1>1. /\ b.hash \notin C!Known(chain) /\ b.parent \in C!Known(chain)
        /\ chain' = C!Adopt(chain, b)
        /\ pool' = IF chain'.head # chain.head THEN RetainValid(pool, C!HeadStore(chain')) ELSE pool
        /\ work' = work /\ net' = net /\ now' = now
    BY DEF ApplyBlock, C!Accepts
  <1>2. NetOK(net) /\ ChainOK(chain, net) /\ PoolOK(pool)
    BY DEF MinerInv
  <1>3. h # << >>
    <2>1. b.parent \in DOMAIN net
      BY <1>1, <1>2 DEF ChainOK
    <2>2. QED
      BY <1>2, <2>1, GenesisHasNoParent
  <1>4. Built(net, b.parent, b, net[h].store) /\ b.hash = h
    BY <1>2, <1>3, EntryIsBuilt
  <1>5. b.height \in Nat
    BY <1>4, LenProperties DEF Built
  <1>6. s = net[h].store
    <2>1. chain.snapshots[b.parent] = net[b.parent].store
      BY <1>1, <1>2 DEF ChainOK
    <2>2. QED
      BY <1>4, <2>1 DEF Built
  <1>7. DOMAIN chain.snapshots = C!Known(chain) /\ chain.head \in C!Known(chain)
    BY <1>2 DEF ChainOK
  <1> HIDE DEF b, s
  <1>8. /\ Records(chain, chain', b, s)
        /\ \/ chain'.head = chain.head
           \/ b.height > C!HeadHeight(chain) /\ C!HeadHeight(chain') = b.height
    BY <1>1, <1>5, <1>7, AdoptRecords DEF s
  <1>9. ChainOK(chain', net)
    BY <1>2, <1>4, <1>6, <1>8, ChainRecords DEF b
  <1>10. PoolOK(pool')
    BY <1>1, <1>2, RetainOK
  <1>11. Advances
    BY <1>8 DEF Advances
  <1>12. MinerInv'
    BY <1>1, <1>9, <1>10 DEF MinerInv
  <1>13. QED
    BY <1>11, <1>12

\* replace_from_snapshot with a published block and its store.
LEMMA SnapshotStep ==
    ASSUME MinerInv, NEW h \in DOMAIN net, ReplaceFromSnapshot(net[h].block, net[h].store)
    PROVE  MinerInv' /\ Advances
  <1> DEFINE b == net[h].block
             s == net[h].store
  <1>1. /\ b.height > C!HeadHeight(chain)
        /\ chain' = C!AnchoredAt(b, s) /\ pool' = EmptyPool
        /\ work' = work /\ net' = net /\ now' = now
    BY DEF ReplaceFromSnapshot, C!SnapshotAccepted
  <1>2. b.hash = h
    BY DEF MinerInv, NetOK, EntryOK
  <1> HIDE DEF b, s
  <1>3. /\ chain'.blocks = [x \in {h} |-> b] /\ chain'.snapshots = [x \in {h} |-> s]
        /\ chain'.head = h
    BY <1>1, <1>2, Zenon DEF C!AnchoredAt
  <1>4. ChainOK(chain', net)
    <2>1. C!Known(chain') = {h}
      BY <1>3 DEF C!Known
    <2>2. QED
      BY <1>3, <2>1 DEF ChainOK, b, s
  <1>5. Advances
    BY <1>1, <1>3 DEF Advances, C!HeadHeight, C!HeadBlock
  <1>6. MinerInv'
    BY <1>1, <1>4, EmptyPoolOK DEF MinerInv
  <1>7. QED
    BY <1>5, <1>6

\* A round that found a block is one that completed.
LEMMA SolvedWork ==
    ASSUME NEW w, NEW f, NEW t, WorkOK(w, f, t), w.stage = "solved"
    PROVE  Solved(w, f, t)
  <1>1. Idle.stage = "idle"
    BY Zenon DEF Idle
  <1>2. \A q, some, time : RoundOn(f, q, some, time).stage = "grinding"
    <2> TAKE q, some, time
    <2>1. IsRound(RoundOn(f, q, some, time), f, q, some, time)
      BY RoundShape, Zenon
    <2>2. QED
      BY <2>1, Zenon DEF IsRound
  <1>3. ~Grinding(w, f, t) /\ w # Idle
    BY <1>1, <1>2 DEF Grinding
  <1>4. QED
    BY <1>3, Zenon DEF WorkOK

\* Publishing is one more entry.
LEMMA PutAdds ==
    ASSUME NEW f, NEW b, NEW s
    PROVE  Adds(f, C!Put(f, b.hash, Entry(b, s)), b, s)
  BY DEF C!Put, Adds

\* commit_mined: a round whose parent is still the head.
LEMMA CommitStep ==
    ASSUME MinerInv, CommitMined
    PROVE  MinerInv' /\ Advances
  <1> DEFINE b == work.block
             s == work.store
             g == C!Put(net, b.hash, Entry(b, s))
  <1>1. /\ work.stage = "solved" /\ work' = Idle /\ pool' = pool /\ now' = now
        /\ \/ b.parent = chain.head /\ chain' = C!Commit(chain, b, s) /\ net' = g
           \/ chain' = chain /\ net' = net
    BY DEF CommitMined
  <1>2. NetOK(net) /\ ChainOK(chain, net) /\ PoolOK(pool) /\ now \in Nat
    BY DEF MinerInv
  <1>3. WorkOK(Idle, net', now')
    BY DEF WorkOK
  <1>4. CASE chain' = chain /\ net' = net
    BY <1>1, <1>2, <1>3, <1>4 DEF MinerInv, Advances
  <1>5. CASE b.parent = chain.head /\ chain' = C!Commit(chain, b, s) /\ net' = g
    <2>1. Solved(work, net, now)
      BY <1>1, SolvedWork, Zenon DEF MinerInv
    <2>2. PICK p \in DOMAIN net, batch \in Seq(Tx), time \in 0..now, luck \in Luck :
              /\ Completes(net, p, batch, time, luck, "me")
              /\ work = Mined(net, p, batch, time, luck, "me")
      BY <2>1 DEF Solved
    <2> DEFINE w == Mined(net, p, batch, time, luck, "me")
    <2>3. Built(net, p, b, s)
      <3>1. Built(net, p, w.block, w.store)
        BY <1>2, <2>2, MinedIsBuilt, Zenon DEF Builds
      <3> HIDE DEF w
      <3>2. QED
        BY <2>2, <3>1, Zenon DEF w
    <2>4. /\ NetOK(g) /\ DOMAIN g = DOMAIN net \cup {b.hash}
          /\ g[b.hash].block = b /\ g[b.hash].store = s
          /\ \A k \in DOMAIN net : g[k] = net[k]
      <3>1. Publishes(net, g, b, s)
        <4>1. Adds(net, g, b, s)
          BY PutAdds, Zenon
        <4> HIDE DEF g
        <4>2. Adds(net, g, w.block, w.store)
          BY <2>2, <4>1, Zenon
        <4>3. Publishes(net, g, w.block, w.store)
          BY <1>2, <2>2, <4>2, NetGrows, Zenon
        <4>4. QED
          BY <2>2, <4>3, Zenon
      <3> HIDE DEF g, b, s
      <3>2. QED
        BY <3>1 DEF Publishes
    <2> HIDE DEF b, s, g
    <2>5. /\ b.height = Len(b.hash) /\ b.height \in Nat /\ b.parent = p
          /\ Len(b.hash) = Len(p) + 1
      BY <2>3, LenProperties, Zenon DEF Built
    <2>6. DOMAIN chain.snapshots = C!Known(chain) /\ chain.head \in C!Known(chain)
      BY <1>2 DEF ChainOK
    <2>7. Records(chain, chain', b, s) /\ C!HeadHeight(chain') = b.height
      BY <1>5, <2>5, <2>6, CommitRecords, Zenon
    <2>8. ChainOK(chain, g)
      BY <1>2, <2>4, ChainKept
    <2>9. ChainOK(chain', g)
      BY <2>4, <2>7, <2>8, ChainRecords
    <2>10. C!HeadHeight(chain) = Len(p)
      BY <1>2, <1>5, <2>5, <2>6, Zenon DEF ChainOK, NetOK, EntryOK, C!HeadHeight, C!HeadBlock
    <2>11. Advances
      <3>1. Len(p) \in Nat
        BY <1>2, LenProperties DEF NetOK, EntryOK
      <3>2. QED
        BY <2>5, <2>7, <2>10, <3>1 DEF Advances
    <2>12. MinerInv'
      BY <1>1, <1>2, <1>3, <1>5, <2>4, <2>9 DEF MinerInv
    <2>13. QED
      BY <2>11, <2>12
  <1>6. QED
    BY <1>1, <1>4, <1>5

\* A peer publishes a block.
LEMMA PeerStep ==
    ASSUME MinerInv, NEW p \in DOMAIN net, NEW batch \in PeerBatch, NEW luck \in Luck,
           NEW skew \in 0..MaxSkew, PeerMines(p, batch, luck, skew)
    PROVE  MinerInv'
  <1> DEFINE time == now + skew
             w == GrindStep(RoundOn(net, p, batch, time), luck, "peer")
             g == C!Put(net, w.block.hash, Entry(w.block, w.store))
  <1>1. /\ w.stage = "solved" /\ net' = g
        /\ chain' = chain /\ pool' = pool /\ work' = work /\ now' = now
    BY Zenon DEF PeerMines, RoundOn
  <1>2. NetOK(net) /\ ChainOK(chain, net) /\ PoolOK(pool) /\ now \in Nat /\ WorkOK(work, net, now)
    BY DEF MinerInv
  <1>3. time \in Nat /\ Minable(batch) /\ "peer" \in Who
    BY <1>2, PeerAssumption, ConfigAssumption DEF Who
  <1> HIDE DEF time
  <1>4. /\ Completes(net, p, batch, time, luck, "peer")
        /\ w = Mined(net, p, batch, time, luck, "peer")
    <2>1. \/ w = Idle
          \/ \E some \in Seq(Tx) : Minable(some) /\ w = RoundOn(net, p, some, time)
          \/ /\ Completes(net, p, batch, time, luck, "peer")
             /\ w = Mined(net, p, batch, time, luck, "peer")
      BY <1>3, GrindOutcome
    <2> HIDE DEF w
    <2>2. \A some : RoundOn(net, p, some, time).stage = "grinding"
      <3> TAKE some
      <3>1. IsRound(RoundOn(net, p, some, time), net, p, some, time)
        BY RoundShape, Zenon
      <3>2. QED
        BY <3>1, Zenon DEF IsRound
    <2>3. Idle.stage = "idle"
      BY Zenon DEF Idle
    <2>4. QED
      BY <1>1, <2>1, <2>2, <2>3
  <1> HIDE DEF w
  <1>5. NetOK(g) /\ \A k \in DOMAIN net : k \in DOMAIN g /\ g[k] = net[k]
    <2>1. Adds(net, g, w.block, w.store)
      BY PutAdds, Zenon
    <2> DEFINE m == Mined(net, p, batch, time, luck, "peer")
    <2> HIDE DEF g
    <2>2. Adds(net, g, m.block, m.store)
      BY <1>4, <2>1, Zenon
    <2>3. Publishes(net, g, m.block, m.store)
      BY <1>2, <1>4, <2>2, NetGrows, Zenon
    <2> HIDE DEF m
    <2>4. QED
      BY <2>3, Zenon DEF Publishes
  <1> HIDE DEF g
  <1>6. ChainOK(chain, g)
    BY <1>2, <1>5, ChainKept
  <1>7. WorkOK(work, g, now)
    BY <1>2, <1>5, WorkKept
  <1>8. QED
    BY <1>1, <1>2, <1>5, <1>6, <1>7 DEF MinerInv

\* What the miner service does between two commits.
LEMMA RoundStep ==
    ASSUME MinerInv, PrepareRound \/ \E luck \in Luck : Grind(luck)
    PROVE  MinerInv'
  <1>0. NetOK(net) /\ ChainOK(chain, net) /\ PoolOK(pool) /\ now \in Nat /\ WorkOK(work, net, now)
    BY DEF MinerInv
  <1>1. CASE PrepareRound
    <2> DEFINE batch == Batch(pool, BatchSize)
    <2>1. /\ Len(pool.pending) >= BatchSize /\ pool' = DrainBatch(pool, BatchSize)
          /\ work' = Round(chain.head, C!HeadHeight(chain) + 1, HeadStore, batch, now)
          /\ chain' = chain /\ net' = net /\ now' = now
      BY <1>1 DEF PrepareRound
    <2>2. Minable(batch) /\ PoolOK(pool')
      BY <1>0, <2>1, DrainOK, ConfigAssumption
    <2> HIDE DEF batch
    <2>3. /\ chain.head \in DOMAIN net
          /\ C!HeadHeight(chain) = net[chain.head].block.height
          /\ HeadStore = net[chain.head].store
      BY <1>0 DEF ChainOK, C!HeadHeight, C!HeadBlock, HeadStore, C!HeadStore
    <2>4. work' = RoundOn(net, chain.head, batch, now)
      BY <2>1, <2>3 DEF RoundOn
    <2>5. batch \in Seq(Tx) /\ now \in 0..now
      BY <1>0, <2>2 DEF Minable
    <2>6. Grinding(work', net, now)
      BY <2>2, <2>3, <2>4, <2>5 DEF Grinding
    <2>7. WorkOK(work', net, now)
      BY <2>6 DEF WorkOK
    <2>8. QED
      BY <1>0, <2>1, <2>2, <2>7 DEF MinerInv
  <1>2. ASSUME NEW luck \in Luck, Grind(luck) PROVE MinerInv'
    <2>1. /\ work.stage = "grinding" /\ work' = GrindStep(work, luck, "me")
          /\ chain' = chain /\ pool' = pool /\ net' = net /\ now' = now
      BY <1>2 DEF Grind
    <2>2. Grinding(work, net, now)
      <3>1. Idle.stage = "idle"
        BY Zenon DEF Idle
      <3>2. ASSUME Solved(work, net, now) PROVE FALSE
        <4>1. PICK p \in DOMAIN net, batch \in Seq(Tx), time \in 0..now, lot \in Luck :
                  /\ Completes(net, p, batch, time, lot, "me")
                  /\ work = Mined(net, p, batch, time, lot, "me")
          BY <3>2 DEF Solved
        <4>2. Builds(net, p, time, BlockHash(p, TxRoot(batch), time, lot, "me"),
                     Mined(net, p, batch, time, lot, "me"))
          BY <1>0, <4>1, MinedIsBuilt
        <4>3. work.stage = "solved"
          BY <4>1, <4>2, Zenon DEF Builds
        <4>4. QED
          BY <2>1, <4>3
      <3>3. QED
        BY <1>0, <2>1, <3>1, <3>2, Zenon DEF WorkOK
    <2>3. PICK p \in DOMAIN net, batch \in Seq(Tx), time \in 0..now :
              Minable(batch) /\ work = RoundOn(net, p, batch, time)
      BY <2>2 DEF Grinding
    <2>4. time \in Nat /\ "me" \in Who
      BY <1>0 DEF Who
    <2>5. \/ work' = Idle
          \/ \E some \in Seq(Tx) : Minable(some) /\ work' = RoundOn(net, p, some, time)
          \/ /\ Completes(net, p, batch, time, luck, "me")
             /\ work' = Mined(net, p, batch, time, luck, "me")
      BY <2>1, <2>3, <2>4, GrindOutcome
    <2>6. WorkOK(work', net, now)
      BY <2>5 DEF WorkOK, Grinding, Solved
    <2>7. QED
      BY <1>0, <2>1, <2>6 DEF MinerInv
  <1>3. QED
    BY <1>1, <1>2

\* Every step keeps the invariant and lets the head only advance.
LEMMA MinerInvStep ==
    ASSUME MinerInv, [Next]_vars
    PROVE  MinerInv' /\ (Advances \/ UNCHANGED vars)
  <1>0. NetOK(net) /\ ChainOK(chain, net) /\ PoolOK(pool) /\ now \in Nat /\ WorkOK(work, net, now)
    BY DEF MinerInv
  <1>1. ASSUME NEW tx \in Tx, Submit(tx) PROVE MinerInv' /\ Advances
    <2>1. /\ ValidSigned(tx) /\ tx.id \notin pool.seen /\ Len(pool.pending) < MaxMempool
          /\ pool' = Enqueue(pool, tx)
          /\ chain' = chain /\ work' = work /\ net' = net /\ now' = now
      BY <1>1 DEF Submit, Admits
    <2>2. PoolOK(pool')
      BY <1>0, <2>1, EnqueueOK
    <2>3. QED
      BY <1>0, <2>1, <2>2 DEF MinerInv, Advances
  <1>2. ASSUME NEW h \in DOMAIN net, ApplyBlock(net[h].block) PROVE MinerInv' /\ Advances
    BY <1>2, ApplyStep
  <1>3. ASSUME NEW h \in DOMAIN net, ReplaceFromSnapshot(net[h].block, net[h].store)
        PROVE  MinerInv' /\ Advances
    BY <1>3, SnapshotStep
  <1>4. CASE PrepareRound
    <2>1. chain' = chain
      BY <1>4 DEF PrepareRound
    <2>2. QED
      BY <1>4, <2>1, RoundStep DEF Advances
  <1>5. ASSUME NEW luck \in Luck, Grind(luck) PROVE MinerInv' /\ Advances
    <2>1. chain' = chain
      BY <1>5 DEF Grind
    <2>2. QED
      BY <1>5, <2>1, RoundStep DEF Advances
  <1>6. CASE CommitMined
    BY <1>6, CommitStep
  <1>7. ASSUME NEW p \in DOMAIN net, NEW batch \in PeerBatch, NEW luck \in Luck,
               NEW skew \in 0..MaxSkew, PeerMines(p, batch, luck, skew)
        PROVE  MinerInv' /\ Advances
    <2>1. chain' = chain
      BY <1>7 DEF PeerMines
    <2>2. QED
      BY <1>7, <2>1, PeerStep DEF Advances
  <1>8. CASE Tick
    <2>1. now' = now + 1 /\ chain' = chain /\ pool' = pool /\ work' = work /\ net' = net
      BY <1>8 DEF Tick
    <2>2. WorkOK(work, net, now + 1)
      BY <1>0, WorkKept
    <2>3. QED
      BY <1>0, <2>1, <2>2 DEF MinerInv, Advances
  <1>9. CASE UNCHANGED vars
    BY <1>0, <1>9 DEF MinerInv, vars
  <1>10. QED
    BY <1>1, <1>2, <1>3, <1>4, <1>5, <1>6, <1>7, <1>8, <1>9 DEF Next

THEOREM MinerInvariant == Spec => []MinerInv
  BY MinerInvInit, MinerInvStep, PTL DEF Spec

-----------------------------------------------------------------------------
(* What follows.                                                           *)

\* The dedup set of the mempool is the queue, for every interleaving of
\* submissions, rounds, reorgs and snapshots.
THEOREM PoolIsConsistent == Spec => []PoolConsistent
  <1>1. MinerInv => PoolConsistent
    BY DEF MinerInv, PoolOK, PoolConsistent, Ids
  <1>2. QED
    BY <1>1, MinerInvariant, PTL

\* The node holds exactly the blocks and the states that were published.
THEOREM NodesAgreeOnState == Spec => []AgreesOnState
  <1>1. MinerInv => AgreesOnState
    BY DEF MinerInv, ChainOK, AgreesOnState
  <1>2. QED
    BY <1>1, MinerInvariant, PTL

\* Whatever was applied while a nonce was ground, the head only advances.
THEOREM MinerHeadAdvances == Spec => HeadOnlyAdvances
  <1>1. MinerInv /\ [Next]_vars =>
            [chain'.head # chain.head => C!HeadHeight(chain') > C!HeadHeight(chain)]_vars
    BY MinerInvStep DEF Advances
  <1>2. QED
    BY <1>1, MinerInvariant, PTL DEF Spec, HeadOnlyAdvances

\* A block that a round hands to commit_mined passes the structural checks and
\* the check of its height, and re-executes on its parent to its own results
\* and state root, so the expect in ChainState::commit never fails.  Of the
\* checks of apply_block it may fail one: nothing makes its timestamp later
\* than its parent's.
THEOREM MinedVerifies == Spec => []MinedBlocksVerify
  <1>1. ASSUME MinerInv PROVE MinedBlocksVerify
    <2> SUFFICES ASSUME work.stage = "solved"
                 PROVE  LET b      == work.block
                            parent == net[b.parent]
                        IN  /\ ValidStructure(b, now)
                            /\ b.height = parent.block.height + 1
                            /\ ReplayOk(b, parent.store)
                            /\ StateRoot(ReplayStore(b, parent.store)) = b.stateRoot
      BY DEF MinedBlocksVerify
    <2>0. NetOK(net) /\ now \in Nat /\ WorkOK(work, net, now)
      BY <1>1 DEF MinerInv
    <2>1. Solved(work, net, now)
      BY <2>0, SolvedWork, Zenon
    <2>2. PICK p \in DOMAIN net, batch \in Seq(Tx), time \in 0..now, luck \in Luck :
              /\ Completes(net, p, batch, time, luck, "me")
              /\ work = Mined(net, p, batch, time, luck, "me")
      BY <2>1 DEF Solved
    <2> DEFINE b == work.block
               w == Mined(net, p, batch, time, luck, "me")
    <2>a. Builds(net, p, time, BlockHash(p, TxRoot(batch), time, luck, "me"), w)
      BY <2>0, <2>2, MinedIsBuilt
    <2> HIDE DEF w
    <2>3. Built(net, p, b, work.store) /\ b.timestamp = time
      BY <2>2, <2>a, Zenon DEF w, Builds
    <2> HIDE DEF b
    <2>4. ValidStructure(b, now)
      <3>1. time <= now
        BY <2>0
      <3>2. QED
        BY <2>0, <2>3, <3>1, Zenon DEF Built
    <2>5. b.height = net[p].block.height + 1 /\ b.parent = p
      BY <2>0, <2>3, Zenon DEF Built, NetOK, EntryOK
    <2>6. ReplayOk(b, net[p].store) /\ StateRoot(ReplayStore(b, net[p].store)) = b.stateRoot
      BY <2>3, Zenon DEF Built, StateRoot
    <2>7. QED
      BY <2>4, <2>5, <2>6 DEF b
  <1>2. QED
    BY <1>1, MinerInvariant, PTL

\* A transaction is executed at most once on a chain.
THEOREM NothingExecutesTwice == Spec => []NoDoubleExecution
  <1>1. MinerInv => NoDoubleExecution
    BY Zenon DEF MinerInv, ChainOK, NetOK, EntryOK, Once, NoDoubleExecution
  <1>2. QED
    BY <1>1, MinerInvariant, PTL

\* The known blocks whose parent is known are published blocks, executed on
\* the published store of their parent.
LEMMA StepsAreBuilt ==
    ASSUME MinerInv, NEW step \in Steps
    PROVE  \E f, p : /\ NetOK(f) /\ Built(f, p, step.block, step.after)
                     /\ step.before = f[p].store
  <1>1. PICK h \in C!Known(chain) :
            /\ chain.blocks[h].parent \in C!Known(chain)
            /\ step = [block |-> chain.blocks[h],
                       before |-> chain.snapshots[chain.blocks[h].parent],
                       after |-> chain.snapshots[h]]
    BY Zenon DEF Steps
  <1>2. NetOK(net) /\ ChainOK(chain, net)
    BY DEF MinerInv
  <1> DEFINE p == net[h].block.parent
  <1>3. /\ h \in DOMAIN net /\ p \in DOMAIN net
        /\ step.block = net[h].block /\ step.before = net[p].store /\ step.after = net[h].store
    <2>1. /\ step.block = chain.blocks[h] /\ step.after = chain.snapshots[h]
          /\ step.before = chain.snapshots[chain.blocks[h].parent]
      BY <1>1, Zenon
    <2>2. QED
      BY <1>1, <1>2, <2>1, Zenon DEF ChainOK
  <1>4. h # << >>
    BY <1>2, <1>3, GenesisHasNoParent
  <1>5. Built(net, p, net[h].block, net[h].store)
    BY <1>2, <1>3, <1>4, EntryIsBuilt
  <1>6. QED
    BY <1>2, <1>3, <1>5

\* The assertions of apply_execution_result hold for every transaction and
\* every reward, and the framework modules stay.
THEOREM StoreAssertionsAlwaysHold == Spec => []StoreAssertionsHold
  <1>1. ASSUME MinerInv PROVE StoreAssertionsHold
    <2> SUFFICES ASSUME NEW step \in Steps
                 PROVE  LET run == RunBatch(step.block.txs, step.block.nonce.luck, step.before)
                        IN  /\ run.fits
                            /\ \A r \in step.block.rewardTx : ResultFits(run.store, ExecuteReward(r))
                            /\ \A i \in DOMAIN GenesisStore : GenesisStore[i].kind = "module" =>
                                  i \in DOMAIN step.after /\ step.after[i] = GenesisStore[i]
      BY DEF StoreAssertionsHold
    <2>1. PICK f, p : Built(f, p, step.block, step.after) /\ step.before = f[p].store
      BY <1>1, StepsAreBuilt
    <2>2. QED
      BY <2>1, Zenon DEF Built, Sane
  <1>2. QED
    BY <1>1, MinerInvariant, PTL

\* Along a chain an object is rewritten only with a later version.
THEOREM VersionsAlwaysGrow == Spec => []VersionsIdentifyObjects
  <1>1. ASSUME MinerInv PROVE VersionsIdentifyObjects
    <2> SUFFICES ASSUME NEW step \in Steps, NEW i \in DOMAIN step.before \cap DOMAIN step.after
                 PROVE  \/ step.after[i] = step.before[i]
                        \/ step.after[i].version > step.before[i].version
      BY DEF VersionsIdentifyObjects
    <2>1. PICK f, p : Built(f, p, step.block, step.after) /\ step.before = f[p].store
      BY <1>1, StepsAreBuilt
    <2>2. QED
      BY <2>1, Zenon DEF Built, Follows
  <1>2. QED
    BY <1>1, MinerInvariant, PTL

\* Only a transaction of the owner that names an object changes or destroys it.
THEOREM OwnersOnlyWrite == Spec => []OnlyOwnersWrite
  <1>1. ASSUME MinerInv PROVE OnlyOwnersWrite
    <2> SUFFICES ASSUME NEW step \in Steps, NEW i \in DOMAIN step.before,
                        i \notin DOMAIN step.after \/ step.after[i] # step.before[i]
                 PROVE  \E tx \in Range(step.block.txs) :
                            /\ tx.sender = step.before[i].owner
                            /\ i \in ArgIds(tx) \cup {tx.gas.id}
      BY DEF OnlyOwnersWrite
    <2>1. PICK f, p : Built(f, p, step.block, step.after) /\ step.before = f[p].store
      BY <1>1, StepsAreBuilt
    <2>2. QED
      BY <2>1, ZenonT(60) DEF Built, Follows
  <1>2. QED
    BY <1>1, MinerInvariant, PTL
=============================================================================
