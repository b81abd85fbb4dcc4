--------------------------- MODULE HistoryProofs ----------------------------
(***************************************************************************)
(* What a node's chain says of the past, for every chain it may hold: what *)
(* it answers when it is asked for the result of a transaction, and where  *)
(* the money in its stores came from.                                      *)
(***************************************************************************)
EXTENDS MinerProofs, SupplyProofs

-----------------------------------------------------------------------------
(* Lookups.                                                                *)

Reached(seen) == seen \cup ({chain.blocks[h].parent : h \in seen} \cap C!Known(chain))

\* g[i] is what canonical_chain has seen after i steps back from the head.
Walk(g, n) == g = [i \in 0..n |-> IF i = 0 THEN {chain.head} ELSE Reached(g[i - 1])]

LEMMA WalkExists ==
    ASSUME NEW N \in Nat
    PROVE  \E g : Walk(g, N)
  <1> DEFINE S == {n \in 0..N : \E g : Walk(g, n)}
  <1>1. 0 \in S
    <2> DEFINE g == [i \in 0..0 |-> {chain.head}]
    <2>1. Walk(g, 0)
      BY DEF Walk
    <2>2. QED
      BY <2>1
  <1>2. ASSUME NEW n \in 0..(N - 1), n \in S PROVE n + 1 \in S
    <2>1. PICK g : Walk(g, n)
      BY <1>2
    <2> DEFINE k == [i \in 0..(n + 1) |-> IF i = n + 1 THEN Reached(g[n]) ELSE g[i]]
    <2>2. ASSUME NEW i \in 0..(n + 1)
          PROVE  k[i] = IF i = 0 THEN {chain.head} ELSE Reached(k[i - 1])
      <3>1. CASE i = 0
        <4>1. k[i] = g[0] /\ 0 \in 0..n
          BY <3>1
        <4>2. QED
          BY <2>1, <3>1, <4>1 DEF Walk
      <3>2. CASE i = n + 1
        <4>1. k[i] = Reached(g[n]) /\ k[i - 1] = g[n] /\ i # 0
          BY <3>2
        <4>2. QED
          BY <4>1
      <3>3. CASE i # 0 /\ i # n + 1
        <4>1. i \in 0..n /\ i - 1 \in 0..n /\ i - 1 # n + 1 /\ i - 1 \in 0..(n + 1)
          BY <3>3
        <4>2. k[i] = g[i] /\ k[i - 1] = g[i - 1]
          BY <3>3, <4>1
        <4>3. g[i] = Reached(g[i - 1])
          BY <2>1, <3>3, <4>1, Zenon DEF Walk
        <4>4. QED
          BY <3>3, <4>2, <4>3
      <3>4. QED
        BY <3>1, <3>2, <3>3
    <2>3. Walk(k, n + 1)
      BY <2>2, Zenon DEF Walk
    <2> HIDE DEF k
    <2>4. QED
      BY <2>3
  <1>3. 0..N \subseteq S
    <2> HIDE DEF S
    <2>1. QED
      BY <1>1, <1>2, Induction
  <1>4. QED
    BY <1>3

\* h is the head or an ancestor of it: a hash lists the chain up to it.
Ancestor(h) == Len(h) <= Len(chain.head) /\ \A i \in 1..Len(h) : h[i] = chain.head[i]

\* The walk from the head meets known ancestors only.
LEMMA CanonicalAncestors ==
    ASSUME MinerInv
    PROVE  /\ chain.head \in CanonicalChain
           /\ \A h \in CanonicalChain : h \in C!Known(chain) /\ Ancestor(h)
  <1> DEFINE N == C!HeadHeight(chain)
  <1>0. NetOK(net) /\ ChainOK(chain, net)
    BY DEF MinerInv
  <1>1. N \in Nat
    <2>1. chain.head \in DOMAIN net /\ C!HeadBlock(chain) = net[chain.head].block
      BY <1>0 DEF ChainOK, C!HeadBlock
    <2>2. N = Len(chain.head) /\ chain.head \in Seq(Header)
      BY <1>0, <2>1 DEF NetOK, EntryOK, C!HeadHeight
    <2>3. QED
      BY <2>2, LenProperties
  <1>2. CanonicalChain = (CHOOSE g : Walk(g, N))[N]
    BY DEF CanonicalChain, Walk, Reached
  <1> HIDE DEF N
  <1>3. PICK g : Walk(g, N) /\ CanonicalChain = g[N]
    BY <1>1, <1>2, WalkExists, Zenon
  <1>4. g[0] = {chain.head} /\ \A i \in 1..N : g[i] = Reached(g[i - 1])
    <2>1. 0 \in 0..N /\ \A i \in 1..N : i \in 0..N /\ i # 0
      BY <1>1
    <2>2. QED
      BY <1>3, <2>1, Zenon DEF Walk
  <1> DEFINE Good(X) == chain.head \in X /\ \A h \in X : h \in C!Known(chain) /\ Ancestor(h)
             S == {i \in 0..N : Good(g[i])}
  <1>5. 0 \in S
    <2>1. chain.head \in C!Known(chain) /\ chain.head \in Seq(Header)
      BY <1>0 DEF ChainOK, NetOK, EntryOK
    <2>2. Ancestor(chain.head)
      BY <2>1, LenProperties DEF Ancestor
    <2>3. QED
      BY <1>1, <1>4, <2>1, <2>2
  <1>6. ASSUME NEW i \in 0..(N - 1), i \in S PROVE i + 1 \in S
    <2>1. i + 1 \in 1..N /\ i + 1 \in 0..N /\ (i + 1) - 1 = i
      BY <1>1
    <2>2. g[i + 1] = Reached(g[i]) /\ Good(g[i])
      BY <1>4, <1>6, <2>1
    <2>3. ASSUME NEW h \in g[i], chain.blocks[h].parent \in C!Known(chain)
          PROVE  Ancestor(chain.blocks[h].parent)
      <3> DEFINE b == net[h].block
                 p == b.parent
      <3>1. h \in DOMAIN net /\ chain.blocks[h] = b /\ p \in DOMAIN net /\ Ancestor(h)
        BY <1>0, <2>2, <2>3 DEF ChainOK
      <3>2. h # << >>
        BY <1>0, <3>1, GenesisHasNoParent
      <3>3. Built(net, p, b, net[h].store) /\ b.hash = h
        BY <1>0, <3>1, <3>2, EntryIsBuilt, Zenon
      <3>4. ExtendsBy(h, p, b.txs)
        BY <3>3, Zenon DEF Built
      <3>5. Len(chain.head) \in Nat
        BY <1>0, LenProperties, Zenon DEF ChainOK, NetOK, EntryOK
      <3> HIDE DEF p
      <3>6. Ancestor(p)
        BY <3>1, <3>4, <3>5 DEF Ancestor, ExtendsBy
      <3>7. QED
        BY <3>1, <3>6 DEF p
    <2>4. Good(g[i + 1])
      BY <2>2, <2>3 DEF Reached
    <2> HIDE DEF Good
    <2>5. QED
      BY <2>1, <2>4
  <1>7. N \in S
    <2> HIDE DEF S
    <2>1. 0..N \subseteq S
      BY <1>1, <1>5, <1>6, Induction
    <2>2. QED
      BY <1>1, <2>1
  <1>8. QED
    BY <1>3, <1>7

\* A result that the walk finds is that of one transaction of the chain.
LEMMA ResultsAreListed ==
    ASSUME MinerInv, NEW id, NEW r \in TransactionResult(id)
    PROVE  \E h \in CanonicalChain, k \in Nat :
              /\ Len(h) \in 1..Len(chain.head) /\ k \in 1..Len(chain.head[Len(h)].txs)
              /\ k \in DOMAIN chain.head[Len(h)].txs
              /\ chain.head[Len(h)].txs[k] = id
              /\ r = net[h].block.results[k]
  <1>0. NetOK(net) /\ ChainOK(chain, net)
    BY DEF MinerInv
  <1>1. PICK h \in CanonicalChain : r \in Range(chain.blocks[h].results) /\ r.tx = id
    BY DEF TransactionResult
  <1> DEFINE b == net[h].block
  <1>2. h \in DOMAIN net /\ chain.blocks[h] = b /\ Ancestor(h)
    BY <1>0, CanonicalAncestors DEF ChainOK
  <1>3. h # << >>
    <2> SUFFICES ASSUME h = << >> PROVE FALSE
      OBVIOUS
    <2>1. b.results = << >>
      BY <1>0, GenesisEntry, GenesisShape
    <2>2. QED
      BY <1>1, <1>2, <2>1 DEF Range
  <1>4. Built(net, b.parent, b, net[h].store) /\ b.hash = h
    BY <1>0, <1>2, <1>3, EntryIsBuilt
  <1>5. ExtendsBy(h, b.parent, b.txs) /\ Reported(b) /\ b.txs \in Seq(Tx)
    BY <1>4, Zenon DEF Built
  <1> HIDE DEF b
  <1>6. PICK k \in 1..Len(b.txs) : r = b.results[k]
    BY <1>1, <1>2, <1>5 DEF Range, Reported
  <1>7. b.txs[k].id = id
    BY <1>1, <1>5, <1>6 DEF Reported
  <1>8. /\ Len(TxRoot(b.txs)) = Len(b.txs) /\ Len(b.txs) \in Nat
        /\ DOMAIN TxRoot(b.txs) = 1..Len(b.txs) /\ TxRoot(b.txs)[k] = id
    BY <1>5, <1>6, <1>7, RootShape, LenProperties, Zenon
  <1>9. Len(h) \in 1..Len(chain.head) /\ chain.head[Len(h)].txs = TxRoot(b.txs)
    <2>1. Len(chain.head) \in Nat
      BY <1>0, LenProperties DEF ChainOK, NetOK, EntryOK
    <2>2. Len(h) \in 1..Len(chain.head)
      BY <1>2, <1>5, <2>1 DEF Ancestor, ExtendsBy
    <2>3. h[Len(h)] = chain.head[Len(h)]
      BY <1>2, <2>2 DEF Ancestor
    <2>4. QED
      BY <1>5, <2>2, <2>3 DEF ExtendsBy
  <1>10. r = net[h].block.results[k]
    BY <1>6, Zenon DEF b
  <1>11. /\ k \in Nat /\ k \in 1..Len(chain.head[Len(h)].txs)
         /\ k \in DOMAIN chain.head[Len(h)].txs
         /\ chain.head[Len(h)].txs[k] = id
    BY <1>6, <1>8, <1>9
  <1>12. QED
    BY <1>1, <1>9, <1>10, <1>11, Zenon

\* get_transaction_result never reports what only a fork executed, never two
\* outcomes, and finds every transaction of the head.
THEOREM LookupsAlwaysCanonical == Spec => []LookupsAreCanonical
  <1>1. ASSUME MinerInv PROVE LookupsAreCanonical
    <2> SUFFICES ASSUME NEW tx \in Tx
                 PROVE  /\ \A r, q \in TransactionResult(tx.id) : r = q
                        /\ TransactionResult(tx.id) # {} =>
                              \E i \in 1..Len(chain.head) : tx.id \in Range(chain.head[i].txs)
                        /\ tx \in Range(C!HeadBlock(chain).txs) => TransactionResult(tx.id) # {}
      BY Zenon DEF LookupsAreCanonical
    <2> DEFINE R == TransactionResult(tx.id)
    <2>0. NetOK(net) /\ ChainOK(chain, net)
      BY <1>1 DEF MinerInv
    <2>a. chain.head \in DOMAIN net /\ Once(chain.head) /\ C!HeadBlock(chain) = net[chain.head].block
      BY <2>0 DEF ChainOK, NetOK, EntryOK, C!HeadBlock
    <2>1. ASSUME NEW r \in R, NEW q \in R PROVE r = q
      <3>1. PICK h \in CanonicalChain, k \in Nat :
                /\ Len(h) \in 1..Len(chain.head) /\ k \in 1..Len(chain.head[Len(h)].txs)
                /\ chain.head[Len(h)].txs[k] = tx.id
                /\ r = net[h].block.results[k]
        BY <1>1, ResultsAreListed
      <3>2. PICK j \in CanonicalChain, l \in Nat :
                /\ Len(j) \in 1..Len(chain.head) /\ l \in 1..Len(chain.head[Len(j)].txs)
                /\ chain.head[Len(j)].txs[l] = tx.id
                /\ q = net[j].block.results[l]
        BY <1>1, ResultsAreListed
      <3>3. Len(h) = Len(j) /\ k = l
        BY <2>a, <3>1, <3>2 DEF Once
      <3>4. h \in Seq(Header) /\ j \in Seq(Header) /\ Ancestor(h) /\ Ancestor(j)
        BY <1>1, <2>0, CanonicalAncestors DEF ChainOK, NetOK, EntryOK
      <3>5. h = j
        BY <3>3, <3>4, SeqEqual DEF Ancestor
      <3>6. QED
        BY <3>1, <3>2, <3>3, <3>5
    <2>3. ASSUME NEW r \in R
          PROVE  \E i \in 1..Len(chain.head) : tx.id \in Range(chain.head[i].txs)
      <3>1. PICK h \in CanonicalChain, k \in Nat :
                /\ Len(h) \in 1..Len(chain.head)
                /\ k \in DOMAIN chain.head[Len(h)].txs
                /\ chain.head[Len(h)].txs[k] = tx.id
        BY <1>1, ResultsAreListed
      <3>2. tx.id \in Range(chain.head[Len(h)].txs)
        BY <3>1 DEF Range
      <3>3. QED
        BY <3>1, <3>2
    <2>4. ASSUME tx \in Range(C!HeadBlock(chain).txs) PROVE R # {}
      <3> DEFINE b == net[chain.head].block
      <3>1. chain.head # << >>
        <4> SUFFICES ASSUME chain.head = << >> PROVE FALSE
          OBVIOUS
        <4>1. b.txs = << >>
          BY <2>0, GenesisEntry, GenesisShape
        <4>2. QED
          BY <2>4, <2>a, <4>1 DEF Range
      <3>2. Built(net, b.parent, b, net[chain.head].store)
        BY <2>0, <2>a, <3>1, EntryIsBuilt
      <3>3. Reported(b)
        BY <3>2, Zenon DEF Built
      <3> HIDE DEF b
      <3>4. b = chain.blocks[chain.head] /\ tx \in Range(b.txs)
        BY <2>4, <2>a DEF b, C!HeadBlock
      <3>5. PICK k \in 1..Len(b.txs) : b.txs[k] = tx
        BY <3>3, <3>4 DEF Range, Reported
      <3>6. b.results[k] \in Range(b.results) /\ b.results[k].tx = tx.id
        BY <3>3, <3>5 DEF Range, Reported
      <3>7. chain.head \in CanonicalChain
        BY <1>1, CanonicalAncestors
      <3>8. b.results[k] \in R
        BY <3>4, <3>6, <3>7 DEF TransactionResult
      <3>9. QED
        BY <3>8
    <2> HIDE DEF R
    <2>5. QED
      BY <2>1, <2>3, <2>4 DEF R
  <1>2. QED
    BY <1>1, MinerInvariant, PTL

-----------------------------------------------------------------------------
(* Money.                                                                  *)

\* A block changes the supply only by what its calls mint and destroy: what
\* the senders pay for gas is what the reward mints, for every block a node
\* holds, mined by it or by a peer.
THEOREM SupplyAlwaysAccounted == Spec => []SupplyAccounted
  <1>1. ASSUME MinerInv PROVE SupplyAccounted
    <2> SUFFICES ASSUME NEW step \in Steps
                 PROVE  Supply(step.after) =
                            Supply(step.before) +
                              NetOfCalls(step.block.txs, step.block.results, step.block.nonce.luck)
      BY DEF SupplyAccounted
    <2>1. PICK f, p : NetOK(f) /\ Built(f, p, step.block, step.after) /\ step.before = f[p].store
      BY <1>1, StepsAreBuilt
    <2>2. p \in DOMAIN f
      BY <2>1, Zenon DEF Built
    <2>3. Counted(f[p].store)
      BY <2>1, <2>2, EntriesCounted
    <2>4. QED
      BY <2>1, <2>3, BuiltMoney
  <1>2. QED
    BY <1>1, MinerInvariant, PTL
=============================================================================
