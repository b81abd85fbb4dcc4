---------------------------- MODULE GossipProofs ----------------------------
(***************************************************************************)
(* The event loop of the gossip service, its two futures and the chains    *)
(* behind it, for every set of nodes, depth, buffer size, height bound and *)
(* pattern of loss and duplication.                                        *)
(***************************************************************************)
EXTENDS GossipSync, FiniteSetTheorems, WellFoundedInduction, TLAPS

\* One listener's part of SyncFutureHasState.
FutureFits(s, h, p) ==
    /\ p.kind = "blocks" => s = "Syncing"
    /\ p.kind = "snapshot" => s = "StateSyncing"
    /\ h # None => s = "Working"

\* The inductive invariant: the variables of the event loop are indexed by
\* the listeners, and every listener's future is that of its state.
LoopInv ==
    /\ state = [n \in Listeners |-> state[n]]
    /\ hand = [n \in Listeners |-> hand[n]]
    /\ pull = [n \in Listeners |-> pull[n]]
    /\ \A n \in Listeners : FutureFits(state[n], hand[n], pull[n])

\* Only listener n's entries change, and they still fit.
Moves(n) ==
    \E s, h, p :
        /\ FutureFits(s, h, p)
        /\ state' = [state EXCEPT ![n] = s]
        /\ hand' = [hand EXCEPT ![n] = h]
        /\ pull' = [pull EXCEPT ![n] = p]

\* A function is not changed by writing back what it holds.
LEMMA SameEntry ==
    ASSUME NEW S, NEW f, f = [x \in S |-> f[x]], NEW n \in S
    PROVE  [f EXCEPT ![n] = f[n]] = f
  BY Zenon

\* A step of one listener that fits keeps the invariant.
LEMMA MovesKeepsInv ==
    ASSUME LoopInv, NEW n \in Listeners, Moves(n)
    PROVE  LoopInv'
  <1>1. PICK s, h, p : /\ FutureFits(s, h, p)
                       /\ state' = [state EXCEPT ![n] = s]
                       /\ hand' = [hand EXCEPT ![n] = h]
                       /\ pull' = [pull EXCEPT ![n] = p]
    BY Zenon DEF Moves
  <1>2. /\ state' = [m \in Listeners |-> state'[m]]
        /\ hand' = [m \in Listeners |-> hand'[m]]
        /\ pull' = [m \in Listeners |-> pull'[m]]
    BY <1>1, Zenon DEF LoopInv
  <1>3. ASSUME NEW m \in Listeners
        PROVE  FutureFits(state'[m], hand'[m], pull'[m])
    <2>1. CASE m = n
      BY <1>1, <2>1 DEF LoopInv
    <2>2. CASE m # n
      <3>1. state'[m] = state[m] /\ hand'[m] = hand[m] /\ pull'[m] = pull[m]
        BY <1>1, <2>2, Zenon DEF LoopInv
      <3>2. QED
        BY <3>1 DEF LoopInv
    <2>3. QED
      BY <2>1, <2>2
  <1>4. QED
    BY <1>2, <1>3 DEF LoopInv

\* Starting a sync arms the future of the new state, or none.
LEMMA StartSyncMoves ==
    ASSUME LoopInv, NEW n \in Listeners, FinishMessage(n),
           NEW s, NEW kind, StartSync(n, s, kind),
           <<s, kind>> \in {<<"Syncing", "blocks">>, <<"StateSyncing", "snapshot">>}
    PROVE  Moves(n)
  <1>1. PICK r \in Request(n, hand[n].hash, kind, hand[n].syncStart) :
            pull' = [pull EXCEPT ![n] = r]
    BY Zenon DEF StartSync
  <1>2. r.kind \in {"none", kind}
    BY <1>1 DEF Request, None
  <1>3. FutureFits(s, None, r)
    BY <1>2 DEF FutureFits
  <1>4. QED
    BY <1>1, <1>3, Zenon DEF Moves, StartSync, FinishMessage

\* Every step of the event loop, of a peer and of a miner keeps the invariant.
LEMMA LoopStep ==
    ASSUME LoopInv, [Next]_vars
    PROVE  LoopInv'
  <1>1. ASSUME UNCHANGED <<state, hand, pull>>
        PROVE  LoopInv'
    BY <1>1 DEF LoopInv
  <1>2. ASSUME NEW n \in Node, Mine(n)
        PROVE  LoopInv'
    BY <1>1, <1>2 DEF Mine
  <1>3. ASSUME NEW n \in Listeners, NEW q, LearnUrl(n, q)
        PROVE  LoopInv'
    BY <1>1, <1>3 DEF LearnUrl
  <1>4. ASSUME NEW n \in Listeners, NEW h, NEW again, ReceiveBlock(n, h, again)
        PROVE  LoopInv'
    <2>1. CASE state[n] # "Working"
      BY <1>1, <1>4, <2>1 DEF ReceiveBlock
    <2>2. CASE state[n] = "Working"
      <3>1. PICK m : hand' = [hand EXCEPT ![n] = m]
        BY <1>4, <2>2 DEF ReceiveBlock
      <3>2. /\ state' = [state EXCEPT ![n] = state[n]]
            /\ pull' = [pull EXCEPT ![n] = pull[n]]
        BY <1>4, SameEntry, Zenon DEF ReceiveBlock, LoopInv
      <3>3. FutureFits(state[n], m, pull[n])
        BY <2>2 DEF LoopInv, FutureFits
      <3>4. QED
        BY <3>1, <3>2, <3>3, MovesKeepsInv, Zenon DEF Moves
    <2>3. QED
      BY <2>1, <2>2
  <1>5. ASSUME NEW n \in Listeners, HandleBlock(n)
        PROVE  LoopInv'
    <2>1. FinishMessage(n)
      BY <1>5 DEF HandleBlock
    <2>2. CASE UNCHANGED <<state, pull>>
      <3>1. /\ state' = [state EXCEPT ![n] = state[n]]
            /\ pull' = [pull EXCEPT ![n] = pull[n]]
        BY <2>2, SameEntry, Zenon DEF LoopInv
      <3>2. FutureFits(state[n], None, pull[n])
        BY DEF LoopInv, FutureFits
      <3>3. QED
        BY <2>1, <3>1, <3>2, MovesKeepsInv, Zenon DEF Moves, FinishMessage
    <2>3. CASE StartSync(n, "Syncing", "blocks")
      BY <2>1, <2>3, StartSyncMoves, MovesKeepsInv
    <2>4. CASE StartSync(n, "StateSyncing", "snapshot")
      BY <2>1, <2>4, StartSyncMoves, MovesKeepsInv
    <2>5. QED
      BY <1>5, <2>2, <2>3, <2>4 DEF HandleBlock
  \* An answer or a failure leaves the kind of the future.
  <1>6. ASSUME NEW n \in Listeners, Answer(n) \/ Fail(n)
        PROVE  LoopInv'
    <2>1. PICK p : pull' = [pull EXCEPT ![n] = p] /\ p.kind = pull[n].kind
      BY <1>6 DEF Answer, Fail
    <2>2. /\ state' = [state EXCEPT ![n] = state[n]]
          /\ hand' = [hand EXCEPT ![n] = hand[n]]
      BY <1>6, SameEntry DEF Answer, Fail, LoopInv
    <2>3. FutureFits(state[n], hand[n], p)
      BY <2>1 DEF LoopInv, FutureFits
    <2>4. QED
      BY <2>1, <2>2, <2>3, MovesKeepsInv, Zenon DEF Moves
  <1>7. ASSUME NEW n \in Listeners, CompleteSync(n) \/ CompleteStateSync(n)
        PROVE  LoopInv'
    <2>1. /\ pull' = [pull EXCEPT ![n] = None]
          /\ state' = [state EXCEPT ![n] = "Working"]
          /\ hand' = hand
      BY <1>7 DEF CompleteSync, CompleteStateSync, TakeAnswer, EndSync
    <2>2. hand' = [hand EXCEPT ![n] = hand[n]]
      BY <2>1, SameEntry, Zenon DEF LoopInv
    <2>3. FutureFits("Working", hand[n], None)
      BY DEF FutureFits, None
    <2>4. QED
      BY <2>1, <2>2, <2>3, MovesKeepsInv, Zenon DEF Moves
  <1>8. CASE UNCHANGED vars
    BY <1>1, <1>8 DEF vars
  <1>9. QED
    BY <1>2, <1>3, <1>4, <1>5, <1>6, <1>7, <1>8, Zenon DEF Next

\* Whatever is delivered, duplicated, lost or mined, at most one future is
\* armed, and it is the one of the state of the event loop.
THEOREM SyncFutureAlwaysHasState == Spec => []SyncFutureHasState
  <1>1. Init => LoopInv
    BY DEF Init, LoopInv, FutureFits, None
  <1>2. LoopInv /\ [Next]_vars => LoopInv'
    BY LoopStep
  <1>3. LoopInv => SyncFutureHasState
    BY DEF LoopInv, FutureFits, SyncFutureHasState
  <1>4. QED
    BY <1>1, <1>2, <1>3, PTL DEF Spec

-----------------------------------------------------------------------------
(* Numbers and sequences.                                                  *)

\* Every set of naturals that is not empty has a least element.
LEMMA LeastNatural ==
    ASSUME NEW T, T \subseteq Nat, T # {}
    PROVE  \E x \in T : \A y \in T : x <= y
  <1> DEFINE R == OpToRel(<, Nat)
  <1>1. IsWellFoundedOn(R, Nat)
    BY NatLessThanWellFounded, Zenon
  <1>2. \A x, y \in Nat : <<x, y>> \in R <=> x < y
    BY DEF OpToRel
  <1> HIDE DEF R
  <1>3. PICK x \in T : \A y \in T : ~(<<y, x>> \in R)
    BY <1>1, WFMin, Zenon
  <1>4. ASSUME NEW y \in T PROVE x <= y
    <2>1. x \in Nat /\ y \in Nat
      OBVIOUS
    <2>2. ~(y < x)
      BY <1>2, <1>3, <2>1, Zenon
    <2>3. QED
      BY <2>1, <2>2
  <1>5. QED
    BY <1>4

\* Induction up to N: a set that holds 0, and n + 1 whenever it holds n,
\* holds every number up to N.
LEMMA Induction ==
    ASSUME NEW N \in Nat, NEW S, 0 \in S, \A n \in 0..(N - 1) : n \in S => n + 1 \in S
    PROVE  0..N \subseteq S
  <1> DEFINE T == (0..N) \ S
  <1> SUFFICES ASSUME T # {} PROVE FALSE
    OBVIOUS
  <1>1. PICK x \in T : \A y \in T : x <= y
    <2>1. T \subseteq Nat
      OBVIOUS
    <2> HIDE DEF T
    <2>2. QED
      BY <2>1, LeastNatural, Zenon
  <1>2. QED
    BY <1>1

\* Sequences of the same elements are equal, and what Append does.
LEMMA SeqEqual ==
    ASSUME NEW S, NEW q \in Seq(S), NEW r \in Seq(S), Len(q) = Len(r),
           \A i \in 1..Len(q) : q[i] = r[i]
    PROVE  q = r
  OBVIOUS

LEMMA AppendProperties ==
    ASSUME NEW S, NEW q \in Seq(S), NEW e \in S
    PROVE  LET r == Append(q, e)
           IN  /\ r \in Seq(S) /\ r # << >> /\ Len(r) = Len(q) + 1 /\ r[Len(q) + 1] = e
               /\ \A i \in 1..Len(q) : r[i] = q[i]
  OBVIOUS

-----------------------------------------------------------------------------
(* Hashes, and what one block does to a chain.                             *)

LL == INSTANCE LoopLemmas WITH Step <- ApplyHash

\* A hash is a bounded sequence of miners.
LEMMA HashShape ==
    ASSUME NEW h
    PROVE  h \in Hashes <=> h \in Seq(Node) /\ Len(h) <= MaxHeight
  <1>1. ASSUME h \in Hashes
        PROVE  h \in Seq(Node) /\ Len(h) <= MaxHeight
    <2>1. PICK k \in 0..MaxHeight : h \in [1..k -> Node]
      BY <1>1 DEF Hashes
    <2>2. k \in Nat /\ k <= MaxHeight
      BY SyncAssumption
    <2>3. h \in Seq(Node) /\ Len(h) = k
      BY <2>1, <2>2
    <2>4. QED
      BY <2>2, <2>3
  <1>2. ASSUME h \in Seq(Node), Len(h) <= MaxHeight
        PROVE  h \in Hashes
    <2>1. Len(h) \in 0..MaxHeight /\ h \in [1..Len(h) -> Node]
      BY <1>2, SyncAssumption
    <2>2. QED
      BY <2>1 DEF Hashes
  <1>3. QED
    BY <1>1, <1>2

\* The prefixes of a sequence, and the parent of a prefix.
LEMMA PrefixShape ==
    ASSUME NEW S, NEW h \in Seq(S), NEW j \in 0..Len(h)
    PROVE  /\ SubSeq(h, 1, j) \in Seq(S)
           /\ Len(SubSeq(h, 1, j)) = j
           /\ \A i \in 1..j : SubSeq(h, 1, j)[i] = h[i]
  OBVIOUS

LEMMA PrefixFront ==
    ASSUME NEW S, NEW h \in Seq(S), NEW j \in 1..Len(h)
    PROVE  /\ SubSeq(h, 1, j) # << >>
           /\ Front(SubSeq(h, 1, j)) = SubSeq(h, 1, j - 1)
  <1> DEFINE p == SubSeq(h, 1, j)
             f == SubSeq(p, 1, j - 1)
             g == SubSeq(h, 1, j - 1)
  <1>1. /\ j \in 0..Len(h) /\ j - 1 \in 0..Len(h) /\ j - 1 \in 0..j /\ Len(h) \in Nat
        /\ 1..(j - 1) \subseteq 1..j
    OBVIOUS
  <1>2. p \in Seq(S) /\ Len(p) = j /\ \A i \in 1..j : p[i] = h[i]
    BY <1>1, PrefixShape
  <1>3. g \in Seq(S) /\ Len(g) = j - 1 /\ \A i \in 1..(j - 1) : g[i] = h[i]
    BY <1>1, PrefixShape
  <1> HIDE DEF p
  <1>4. f \in Seq(S) /\ Len(f) = j - 1 /\ \A i \in 1..(j - 1) : f[i] = p[i]
    BY <1>1, <1>2, PrefixShape
  <1> HIDE DEF f, g
  <1>5. f = g
    <2>1. \A i \in 1..(j - 1) : f[i] = g[i]
      BY <1>1, <1>2, <1>3, <1>4
    <2>2. QED
      BY <1>3, <1>4, <2>1, SeqEqual
  <1>6. Front(p) = f
    BY <1>2 DEF Front, f
  <1>7. p # << >>
    BY <1>2
  <1>8. QED
    BY <1>5, <1>6, <1>7 DEF p, g

\* The parent of a hash is one shorter.
LEMMA FrontShape ==
    ASSUME NEW h \in Hashes, h # << >>
    PROVE  Front(h) \in Hashes /\ Len(Front(h)) = Len(h) - 1 /\ Len(h) >= 1
  <1>1. h \in Seq(Node) /\ Len(h) <= MaxHeight
    BY HashShape
  <1>2. Len(h) \in Nat /\ Len(h) >= 1
    BY <1>1
  <1>3. Front(h) \in Seq(Node) /\ Len(Front(h)) = Len(h) - 1
    <2>1. Len(h) - 1 \in 0..Len(h)
      BY <1>2
    <2>2. QED
      BY <1>1, <2>1, PrefixShape, Zenon DEF Front
  <1>4. QED
    BY <1>1, <1>2, <1>3, HashShape, SyncAssumption

\* A chain that holds blocks somebody mined, of which its head is a highest
\* one and none is finalized.
ChainOK(c) ==
    /\ c.head \in C!Known(c)
    /\ C!Known(c) \subseteq Hashes
    /\ IsFiniteSet(C!Known(c))
    /\ \A h \in C!Known(c) : c.blocks[h] = BlockOf(h)
    /\ \A h \in C!Known(c) : Len(h) <= Len(c.head) /\ Len(c.head) <= Len(h) + SnapshotDepth

\* The head of d is that of c, or higher.
Advances(c, d) == d.head = c.head \/ Len(d.head) > Len(c.head)

LEMMA HeadHeightIs ==
    ASSUME NEW c, ChainOK(c)
    PROVE  C!HeadHeight(c) = Len(c.head)
  <1>1. c.blocks[c.head] = BlockOf(c.head)
    BY DEF ChainOK
  <1>2. c.blocks[c.head].height = Len(c.head)
    BY <1>1 DEF BlockOf
  <1>3. QED
    BY <1>2 DEF C!HeadHeight, C!HeadBlock

LEMMA AdvancesOn ==
    ASSUME NEW c, NEW d, NEW e, ChainOK(c), ChainOK(d), ChainOK(e),
           Advances(c, d), Advances(d, e)
    PROVE  Advances(c, e)
  <1>1. Len(c.head) \in Nat /\ Len(d.head) \in Nat /\ Len(e.head) \in Nat
    BY HashShape DEF ChainOK
  <1>2. QED
    BY <1>1 DEF Advances

\* An honest block is taken when it is new and its parent is known.
LEMMA AcceptsWhen ==
    ASSUME NEW c, ChainOK(c), NEW h \in Hashes
    PROVE  C!Accepts(c, BlockOf(h), 0) <=>
              h \notin C!Known(c) /\ h # << >> /\ Front(h) \in C!Known(c)
  <1> DEFINE b == BlockOf(h)
  <1>1. b.hash = h /\ b.height = Len(h) /\ b.timestamp = Len(h) /\ b.stateRoot = h
    BY DEF BlockOf
  <1>2. CASE h = << >>
    <2>1. b.parent = <<"zero">> /\ b.height = 0
      BY <1>1, <1>2 DEF BlockOf
    <2>2. ASSUME b.parent \in C!Known(c)
          PROVE  b.height # c.blocks[b.parent].height + 1
      <3>1. c.blocks[b.parent] = BlockOf(b.parent)
        BY <2>2 DEF ChainOK
      <3>2. c.blocks[b.parent].height = Len(b.parent)
        BY <3>1 DEF BlockOf
      <3>3. Len(b.parent) = 1
        BY <2>1
      <3>4. QED
        BY <2>1, <3>2, <3>3
    <2>3. QED
      BY <1>2, <2>2 DEF C!Accepts
  <1>3. CASE h # << >>
    <2>1. b.parent = Front(h)
      BY <1>3 DEF BlockOf
    <2>2. ASSUME b.parent \in C!Known(c)
          PROVE  /\ b.height = c.blocks[b.parent].height + 1
                 /\ b.timestamp > c.blocks[b.parent].timestamp
      <3>1. c.blocks[b.parent] = BlockOf(b.parent)
        BY <2>2 DEF ChainOK
      <3>2. /\ c.blocks[b.parent].height = Len(b.parent)
            /\ c.blocks[b.parent].timestamp = Len(b.parent)
        BY <3>1 DEF BlockOf
      <3>3. Len(b.parent) = Len(h) - 1 /\ Len(h) \in Nat
        BY <1>3, <2>1, FrontShape, HashShape
      <3>4. QED
        BY <1>1, <3>2, <3>3
    <2>3. QED
      BY <1>1, <1>3, <2>1, <2>2 DEF C!Accepts, ValidStructure, ReplayOk, ReplayStore, StateRoot
  <1>4. QED
    BY <1>2, <1>3

\* The chain after an accepted block, by the blocks it knows.
LEMMA AdoptShape ==
    ASSUME NEW c, ChainOK(c), NEW h \in Hashes
    PROVE  LET d == C!Adopt(c, BlockOf(h))
               K == C!Known(c) \cup {h}
           IN  /\ \A g \in C!Known(d) : d.blocks[g] = BlockOf(g)
               /\ Len(h) > Len(c.head) =>
                     /\ d.head = h
                     /\ C!Known(d) = {g \in K : ~(Len(g) + SnapshotDepth < Len(h))}
               /\ ~(Len(h) > Len(c.head)) => d.head = c.head /\ C!Known(d) = K
  <1> DEFINE b == BlockOf(h)
             s == C!Insert(c, b, ReplayStore(b, c.snapshots[b.parent]))
             K == C!Known(c) \cup {h}
  <1>0. \A g : BlockOf(g).height = Len(g)
    BY DEF BlockOf
  <1>1. b.hash = h /\ b.height = Len(h)
    BY DEF BlockOf
  <1>2. s.blocks = [x \in K |-> IF x = h THEN b ELSE c.blocks[x]] /\ s.head = c.head
    BY <1>1 DEF C!Insert, C!Put, C!Known
  <1>3. C!Known(s) = K /\ \A g \in K : s.blocks[g] = BlockOf(g)
    BY <1>2 DEF C!Known, ChainOK
  <1>4. C!HeadHeight(s) = Len(c.head)
    <2>1. c.head \in K
      BY DEF ChainOK
    <2>2. QED
      BY <1>0, <1>2, <1>3, <2>1, Zenon DEF C!HeadHeight, C!HeadBlock
  <1> HIDE DEF s
  <1>5. CASE Len(h) > Len(c.head)
    <2> DEFINE t == C!SwitchHead(s, h)
               d == C!Prune(t)
    <2>1. C!Adopt(c, b) = d
      BY <1>1, <1>4, <1>5 DEF C!Adopt, s
    <2>2. t.blocks = s.blocks /\ t.head = h
      BY DEF C!SwitchHead
    <2> HIDE DEF t, K
    <2>3. C!Known(t) = K /\ C!HeadHeight(t) = Len(h)
      <3>1. C!Known(t) = K /\ h \in K
        BY <1>3, <2>2 DEF C!Known, K
      <3>2. t.blocks[h] = BlockOf(h)
        BY <1>3, <2>2, <3>1
      <3>3. QED
        BY <1>0, <2>2, <3>1, <3>2 DEF C!HeadHeight, C!HeadBlock
    <2>4. C!Finalized(t) = {g \in K : Len(g) + SnapshotDepth < Len(h)}
      <3>1. \A g \in K : t.blocks[g].height = Len(g)
        BY <1>0, <1>3, <2>2
      <3>2. QED
        BY <2>3, <3>1 DEF C!Finalized
    <2>5. d.blocks = [x \in K \ C!Finalized(t) |-> t.blocks[x]] /\ d.head = h
      BY <2>2, <2>3 DEF C!Prune
    <2>6. d.blocks = [x \in K \ C!Finalized(t) |-> s.blocks[x]]
      BY <2>2, <2>5
    <2> HIDE DEF d
    <2>7. C!Known(d) = K \ C!Finalized(t)
      BY <2>6 DEF C!Known
    <2>8. \A g \in C!Known(d) : d.blocks[g] = BlockOf(g)
      BY <1>3, <2>6, <2>7
    <2>9. C!Known(d) = {g \in K : ~(Len(g) + SnapshotDepth < Len(h))}
      BY <2>4, <2>7
    <2>10. QED
      BY <1>5, <2>1, <2>5, <2>8, <2>9, Zenon DEF K
  <1>6. CASE ~(Len(h) > Len(c.head))
    <2>1. C!Adopt(c, b) = s
      BY <1>1, <1>4, <1>6 DEF C!Adopt, s
    <2>2. QED
      BY <1>2, <1>3, <1>6, <2>1, Zenon
  <1>7. QED
    BY <1>5, <1>6

\* Handing one block to a chain: the chain stays sound, its head advances only
\* to that block, the block is known afterwards when it or its parent was, and
\* a known block is forgotten only when the head leaves it behind.
LEMMA ApplyEffect ==
    ASSUME NEW c, ChainOK(c), NEW h \in Hashes, NEW d, d = ApplyHash(0, c, h)
    PROVE  /\ ChainOK(d)
           /\ d.head \in {c.head, h}
           /\ Advances(c, d)
           /\ (h \in C!Known(c) \/ (h # << >> /\ Front(h) \in C!Known(c))) => h \in C!Known(d)
           /\ \A g \in C!Known(c) : Len(d.head) <= Len(g) + SnapshotDepth => g \in C!Known(d)
  <1>1. CASE ~C!Accepts(c, BlockOf(h), 0)
    <2>1. d = c
      BY <1>1 DEF ApplyHash, C!ApplyBlock
    <2>2. QED
      BY <1>1, <2>1, AcceptsWhen DEF Advances
  <1>2. CASE C!Accepts(c, BlockOf(h), 0)
    <2> DEFINE K == C!Known(c) \cup {h}
    <2>1. d = C!Adopt(c, BlockOf(h))
      BY <1>2 DEF ApplyHash, C!ApplyBlock
    <2>2. h # << >> /\ Front(h) \in C!Known(c)
      BY <1>2, AcceptsWhen
    <2>3. /\ \A g \in C!Known(d) : d.blocks[g] = BlockOf(g)
          /\ Len(h) > Len(c.head) =>
                /\ d.head = h
                /\ C!Known(d) = {g \in K : ~(Len(g) + SnapshotDepth < Len(h))}
          /\ ~(Len(h) > Len(c.head)) => d.head = c.head /\ C!Known(d) = K
      BY <2>1, AdoptShape
    <2>4. /\ c.head \in C!Known(c)
          /\ K \subseteq Hashes
          /\ \A g \in K : Len(g) \in Nat
      BY HashShape DEF ChainOK
    <2>5. IsFiniteSet(K)
      BY FS_AddElement DEF ChainOK
    <2>6. C!Known(d) \subseteq K
      BY <2>3
    <2>7. IsFiniteSet(C!Known(d))
      BY <2>5, <2>6, FS_Subset
    <2>8. SnapshotDepth \in Nat \ {0}
      BY SyncAssumption
    <2>9. \A g \in C!Known(c) : Len(g) <= Len(c.head) /\ Len(c.head) <= Len(g) + SnapshotDepth
      BY DEF ChainOK
    <2>10. Len(Front(h)) = Len(h) - 1
      BY <2>2, FrontShape
    <2>11. CASE Len(h) > Len(c.head)
      <3>1. d.head = h /\ C!Known(d) = {g \in K : ~(Len(g) + SnapshotDepth < Len(h))}
        BY <2>3, <2>11
      <3>2. h \in C!Known(d)
        BY <2>4, <2>8, <3>1
      <3>3. \A g \in C!Known(d) : Len(g) <= Len(h) /\ Len(h) <= Len(g) + SnapshotDepth
        BY <2>4, <2>8, <2>9, <2>11, <3>1
      <3>4. ChainOK(d)
        BY <2>3, <2>4, <2>6, <2>7, <3>1, <3>2, <3>3 DEF ChainOK
      <3>5. \A g \in C!Known(c) : Len(d.head) <= Len(g) + SnapshotDepth => g \in C!Known(d)
        BY <2>4, <2>8, <3>1
      <3>6. QED
        BY <2>11, <3>1, <3>2, <3>4, <3>5 DEF Advances
    <2>12. CASE ~(Len(h) > Len(c.head))
      <3>1. d.head = c.head /\ C!Known(d) = K
        BY <2>3, <2>12
      <3>2. Len(h) <= Len(c.head) /\ Len(c.head) <= Len(h) + SnapshotDepth
        BY <2>2, <2>4, <2>8, <2>9, <2>10, <2>12
      <3>3. ChainOK(d)
        BY <2>3, <2>4, <2>7, <2>9, <3>1, <3>2 DEF ChainOK
      <3>4. QED
        BY <3>1, <3>3 DEF Advances
    <2>13. QED
      BY <2>11, <2>12
  <1>3. QED
    BY <1>1, <1>2

-----------------------------------------------------------------------------
(* Applying the blocks of a sync one after another.                        *)

\* The chain after i blocks of q.
ApplyTrace(c, q, acc) ==
    /\ ApplyAll(c, q) = acc[Len(q)]
    /\ acc[0] = c
    /\ \A i \in 1..Len(q) : acc[i] = ApplyHash(0, acc[i - 1], q[i])

LEMMA ApplyTraceExists ==
    ASSUME NEW c, NEW q \in Seq(Hashes)
    PROVE  \E acc : ApplyTrace(c, q, acc)
  <1>1. Len(q) \in Nat /\ LL!Counts(Len(q))
    <2>1. Len(q) \in Nat
      OBVIOUS
    <2>2. QED
      BY <2>1, Induction, Zenon DEF LL!Counts
  <1>2. LL!Run(0, c, q) = ApplyAll(c, q)
    BY DEF LL!Run, L!Run, ApplyAll
  <1>3. \E acc : /\ LL!Run(0, c, q) = acc[Len(q)]
                 /\ acc[0] = c
                 /\ \A i \in 1..Len(q) : acc[i] = ApplyHash(0, acc[i - 1], q[i])
    BY <1>1, LL!RunTrace
  <1>4. QED
    BY <1>2, <1>3 DEF ApplyTrace

\* Every chain on the way is sound, its head is the first one or a block of
\* q, and heads advance.
LEMMA TraceSound ==
    ASSUME NEW c, ChainOK(c), NEW q \in Seq(Hashes), NEW acc, ApplyTrace(c, q, acc),
           NEW n \in 0..Len(q)
    PROVE  /\ ChainOK(acc[n])
           /\ Advances(c, acc[n])
           /\ acc[n].head = c.head \/ \E l \in 1..n : acc[n].head = q[l]
  <1> DEFINE Good(i) == /\ ChainOK(acc[i])
                        /\ Advances(c, acc[i])
                        /\ acc[i].head = c.head \/ \E l \in 1..i : acc[i].head = q[l]
             S == {i \in 0..Len(q) : Good(i)}
  <1>1. Len(q) \in Nat
    OBVIOUS
  <1>2. 0 \in S
    BY <1>1 DEF ApplyTrace, Advances
  <1>3. ASSUME NEW i \in 0..(Len(q) - 1), i \in S
        PROVE  i + 1 \in S
    <2>1. /\ i + 1 \in 1..Len(q) /\ i + 1 \in 0..Len(q) /\ (i + 1) - 1 = i
          /\ i + 1 \in 1..(i + 1) /\ 1..i \subseteq 1..(i + 1)
      BY <1>1
    <2>2. acc[i + 1] = ApplyHash(0, acc[i], q[i + 1]) /\ q[i + 1] \in Hashes
      BY <2>1 DEF ApplyTrace
    <2>3. Good(i)
      BY <1>3
    <2>4. /\ ChainOK(acc[i + 1])
          /\ acc[i + 1].head \in {acc[i].head, q[i + 1]}
          /\ Advances(acc[i], acc[i + 1])
      BY <2>2, <2>3, ApplyEffect, Zenon
    <2>5. Advances(c, acc[i + 1])
      BY <2>3, <2>4, AdvancesOn
    <2>6. acc[i + 1].head = c.head \/ \E l \in 1..(i + 1) : acc[i + 1].head = q[l]
      BY <2>1, <2>3, <2>4
    <2>7. QED
      BY <2>1, <2>4, <2>5, <2>6
  <1>4. 0..Len(q) \subseteq S
    <2> HIDE DEF S
    <2>1. QED
      BY <1>1, <1>2, <1>3, Induction
  <1>5. QED
    BY <1>4

\* What a whole sync does to the chain it is applied to.
LEMMA ApplyAllSound ==
    ASSUME NEW c, ChainOK(c), NEW q \in Seq(Hashes)
    PROVE  ChainOK(ApplyAll(c, q)) /\ Advances(c, ApplyAll(c, q))
  <1>1. PICK acc : ApplyTrace(c, q, acc)
    BY ApplyTraceExists
  <1>2. Len(q) \in 0..Len(q)
    OBVIOUS
  <1>3. ChainOK(acc[Len(q)]) /\ Advances(c, acc[Len(q)])
    BY <1>1, <1>2, TraceSound
  <1>4. QED
    BY <1>1, <1>3 DEF ApplyTrace

\* Blocks of q in the order of their heights.
ByHeight(q) == \A i, j \in 1..Len(q) : i < j => Len(q[i]) <= Len(q[j])

\* h is at the end of a branch whose blocks above height k are in q up to m.
Covered(h, k, m, q) ==
    \A j \in (k + 1)..m : \E l \in 1..Len(q) : q[l] = SubSeq(h, 1, j)

\* A branch that starts at a known block is followed to its end, whatever the
\* other blocks of q prune: blocks are applied by height, so that no block of
\* the branch is left behind before the next one comes.
LEMMA ApplyAllReaches ==
    ASSUME NEW c, ChainOK(c), NEW q \in Seq(Hashes), ByHeight(q),
           NEW h \in Hashes, NEW m \in 0..Len(h), NEW k \in 0..m,
           SubSeq(h, 1, k) \in C!Known(c), Covered(h, k, m, q)
    PROVE  LET d == ApplyAll(c, q)
           IN  /\ Len(d.head) >= m
               /\ (\A l \in 1..Len(q) : Len(q[l]) <= m + SnapshotDepth)
                     => SubSeq(h, 1, m) \in C!Known(d)
  <1> DEFINE p(j) == SubSeq(h, 1, j)
  <1>1. PICK acc : ApplyTrace(c, q, acc)
    BY ApplyTraceExists
  <1>2. /\ Len(q) \in Nat /\ Len(h) \in Nat /\ m \in Nat /\ k \in Nat /\ k <= m /\ m <= Len(h)
        /\ SnapshotDepth \in Nat \ {0} /\ h \in Seq(Node)
    BY HashShape, SyncAssumption
  <1>3. \A j \in 0..m : p(j) \in Seq(Node) /\ Len(p(j)) = j
    BY <1>2, PrefixShape
  <1>4. ASSUME NEW j \in 1..m
        PROVE  p(j) # << >> /\ Front(p(j)) = p(j - 1)
    <2>1. j \in 1..Len(h)
      BY <1>2
    <2>2. QED
      BY <1>2, <2>1, PrefixFront, Zenon
  <1>5. \A i \in 1..Len(q) : q[i] \in Hashes /\ Len(q[i]) \in Nat
    BY HashShape
  \* Before block i is applied the head is at most Depth above k, or no higher
  \* than the blocks applied so far.
  <1>6. ASSUME NEW i \in 0..Len(q)
        PROVE  /\ ChainOK(acc[i]) /\ Len(acc[i].head) \in Nat
               /\ Len(acc[i].head) <= k + SnapshotDepth
                     \/ \E l \in 1..i : Len(acc[i].head) = Len(q[l])
    <2>1. /\ ChainOK(acc[i])
          /\ acc[i].head = c.head \/ \E l \in 1..i : acc[i].head = q[l]
      BY <1>1, TraceSound
    <2>2. Len(acc[i].head) \in Nat
      BY <2>1, HashShape DEF ChainOK
    <2>3. Len(c.head) <= k + SnapshotDepth
      <3>1. Len(p(k)) = k
        BY <1>2, <1>3
      <3>2. QED
        BY <3>1, Zenon DEF ChainOK
    <2>4. QED
      BY <2>1, <2>2, <2>3
  <1> DEFINE Seen(i, j) == j = k \/ \E l \in 1..i : q[l] = p(j)
             Kept(i, j) == p(j) \in C!Known(acc[i]) \/ Len(acc[i].head) > j + SnapshotDepth
             S == {i \in 0..Len(q) : \A j \in k..m : Seen(i, j) => Kept(i, j)}
  <1> HIDE DEF p
  <1>7. 0 \in S
    <2>1. p(k) \in C!Known(acc[0])
      BY <1>1 DEF ApplyTrace, p
    <2>2. \A j \in k..m : Seen(0, j) => j = k
      OBVIOUS
    <2>3. 0 \in 0..Len(q)
      BY <1>2
    <2>4. QED
      BY <2>1, <2>2, <2>3
  <1>8. ASSUME NEW i \in 0..(Len(q) - 1), i \in S
        PROVE  i + 1 \in S
    <2>1. /\ i \in 0..Len(q) /\ i + 1 \in 0..Len(q) /\ i + 1 \in 1..Len(q) /\ (i + 1) - 1 = i
          /\ i \in Nat
      BY <1>2
    <2>2. acc[i + 1] = ApplyHash(0, acc[i], q[i + 1]) /\ q[i + 1] \in Hashes
      BY <1>1, <2>1 DEF ApplyTrace
    <2>3. /\ Advances(acc[i], acc[i + 1])
          /\ (q[i + 1] \in C!Known(acc[i]) \/
                (q[i + 1] # << >> /\ Front(q[i + 1]) \in C!Known(acc[i])))
             => q[i + 1] \in C!Known(acc[i + 1])
          /\ \A g \in C!Known(acc[i]) :
                Len(acc[i + 1].head) <= Len(g) + SnapshotDepth => g \in C!Known(acc[i + 1])
      <3> DEFINE a == acc[i]
                 e == acc[i + 1]
                 x == q[i + 1]
      <3>1. ChainOK(a) /\ x \in Hashes /\ e = ApplyHash(0, a, x)
        BY <1>6, <2>1, <2>2
      <3> HIDE DEF a, e, x
      <3>2. /\ Advances(a, e)
            /\ (x \in C!Known(a) \/ (x # << >> /\ Front(x) \in C!Known(a))) => x \in C!Known(e)
            /\ \A g \in C!Known(a) : Len(e.head) <= Len(g) + SnapshotDepth => g \in C!Known(e)
        BY <3>1, ApplyEffect, Zenon
      <3>3. QED
        BY <3>2 DEF a, e, x
    <2>4. Len(acc[i].head) \in Nat /\ Len(acc[i + 1].head) \in Nat
      BY <1>6, <2>1
    <2>5. ASSUME NEW j \in k..m, Kept(i, j)
          PROVE  Kept(i + 1, j)
      <3>1. Len(p(j)) = j /\ j \in Nat
        BY <1>2, <1>3
      <3>2. CASE p(j) \in C!Known(acc[i])
        BY <1>2, <2>3, <2>4, <3>1, <3>2
      <3>3. CASE Len(acc[i].head) > j + SnapshotDepth
        <4> DEFINE u == Len(acc[i].head)
                   v == Len(acc[i + 1].head)
        <4>1. u \in Nat /\ v \in Nat /\ u > j + SnapshotDepth
          BY <2>4, <3>3
        <4>2. u = v \/ v > u
          BY <2>3, Zenon DEF Advances
        <4> HIDE DEF u, v
        <4>3. v > j + SnapshotDepth
          BY <1>2, <3>1, <4>1, <4>2
        <4>4. QED
          BY <4>3 DEF v
      <3>4. QED
        BY <2>5, <3>2, <3>3
    <2>6. ASSUME NEW j \in (k + 1)..m, q[i + 1] = p(j)
          PROVE  Kept(i + 1, j)
      <3>1. /\ j - 1 \in k..m /\ j \in 1..m /\ j \in 0..m /\ j - 1 \in 0..m /\ j \in Nat
            /\ k <= j - 1
        BY <1>2
      <3>2. Seen(i, j - 1)
        <4>1. CASE j - 1 = k
          BY <4>1
        <4>2. CASE j - 1 # k
          <5>1. j - 1 \in (k + 1)..m
            BY <1>2, <3>1, <4>2
          <5>2. PICK l \in 1..Len(q) : q[l] = p(j - 1)
            BY <5>1 DEF Covered, p
          <5>3. Len(q[l]) = j - 1 /\ Len(q[i + 1]) = j
            BY <1>3, <2>6, <3>1, <5>2
          <5>4. ~(i + 1 < l) /\ l # i + 1
            BY <2>1, <3>1, <5>3 DEF ByHeight
          <5>5. l \in 1..i
            BY <1>2, <2>1, <5>4
          <5>6. QED
            BY <5>2, <5>5
        <4>3. QED
          BY <4>1, <4>2
      <3>3. Kept(i, j - 1)
        BY <1>8, <3>1, <3>2
      <3>4. Len(acc[i].head) <= (j - 1) + SnapshotDepth
        <4>1. CASE Len(acc[i].head) <= k + SnapshotDepth
          BY <1>2, <2>4, <3>1, <4>1
        <4>2. CASE \E l \in 1..i : Len(acc[i].head) = Len(q[l])
          <5>1. PICK l \in 1..i : Len(acc[i].head) = Len(q[l])
            BY <4>2
          <5>2. l \in 1..Len(q) /\ l < i + 1
            BY <1>2, <2>1
          <5>3. Len(q[l]) <= Len(q[i + 1])
            BY <2>1, <5>2 DEF ByHeight
          <5>4. Len(q[i + 1]) = j
            BY <1>3, <2>6, <3>1
          <5>5. QED
            BY <1>2, <2>4, <3>1, <5>1, <5>3, <5>4
        <4>3. QED
          BY <1>6, <2>1, <4>1, <4>2
      <3>5. p(j - 1) \in C!Known(acc[i])
        BY <1>2, <2>4, <3>1, <3>3, <3>4
      <3>6. q[i + 1] # << >> /\ Front(q[i + 1]) = p(j - 1)
        BY <1>4, <2>6, <3>1
      <3>7. QED
        BY <2>3, <2>6, <3>5, <3>6
    <2>7. ASSUME NEW j \in k..m, Seen(i + 1, j)
          PROVE  Kept(i + 1, j)
      <3>1. CASE Seen(i, j)
        BY <1>8, <2>5, <3>1
      <3>2. CASE ~Seen(i, j)
        <4>1. PICK l \in 1..(i + 1) : q[l] = p(j)
          BY <2>7, <3>2
        <4>2. l = i + 1
          BY <2>1, <3>2, <4>1
        <4>3. j \in (k + 1)..m
          BY <1>2, <3>2
        <4>4. QED
          BY <2>6, <4>1, <4>2, <4>3
      <3>3. QED
        BY <3>1, <3>2
    <2>8. QED
      BY <2>1, <2>7
  <1>9. 0..Len(q) \subseteq S
    <2> HIDE DEF S
    <2>1. QED
      BY <1>2, <1>7, <1>8, Induction, Zenon
  <1>10. Len(q) \in 0..Len(q) /\ m \in k..m /\ m \in 0..m
    BY <1>2
  <1>11. Seen(Len(q), m)
    <2>1. CASE m = k
      BY <2>1
    <2>2. CASE m # k
      <3>1. m \in (k + 1)..m
        BY <1>2, <2>2
      <3>2. QED
        BY <3>1 DEF Covered, p
    <2>3. QED
      BY <2>1, <2>2
  <1>12. Kept(Len(q), m)
    BY <1>9, <1>10, <1>11
  <1> DEFINE d == acc[Len(q)]
  <1>13. ApplyAll(c, q) = d
    BY <1>1 DEF ApplyTrace
  <1>14. Len(d.head) >= m
    <2>1. Len(p(m)) = m /\ Len(d.head) \in Nat /\ ChainOK(d)
      BY <1>3, <1>6, <1>10
    <2>2. QED
      BY <1>2, <1>12, <2>1 DEF ChainOK
  <1>15. ASSUME \A l \in 1..Len(q) : Len(q[l]) <= m + SnapshotDepth
         PROVE  p(m) \in C!Known(d)
    <2>1. Len(d.head) \in Nat /\ Len(d.head) <= m + SnapshotDepth
      <3> DEFINE u == Len(d.head)
      <3>1. /\ u \in Nat
            /\ u <= k + SnapshotDepth \/ \E l \in 1..Len(q) : u = Len(q[l])
        BY <1>6, <1>10, Zenon
      <3> HIDE DEF u
      <3>2. ASSUME u <= k + SnapshotDepth PROVE u <= m + SnapshotDepth
        BY <1>2, <3>1, <3>2
      <3>3. ASSUME NEW l \in 1..Len(q), u = Len(q[l]) PROVE u <= m + SnapshotDepth
        BY <1>15, <3>3, Zenon
      <3>4. u <= m + SnapshotDepth
        BY <3>1, <3>2, <3>3, Zenon
      <3>5. QED
        BY <3>1, <3>4 DEF u
    <2>2. QED
      BY <1>2, <1>12, <2>1
  <1>16. QED
    BY <1>13, <1>14, <1>15 DEF p

\* A finite set of blocks in one of its orders.
LEMMA OrdersShape ==
    ASSUME NEW hs, hs \subseteq Hashes, IsFiniteSet(hs), NEW q \in Orders(hs)
    PROVE  /\ q \in Seq(Hashes)
           /\ ByHeight(q)
           /\ \A i \in 1..Len(q) : q[i] \in hs
           /\ \A h \in hs : \E i \in 1..Len(q) : q[i] = h
  <1> DEFINE N == Cardinality(hs)
  <1>1. N \in Nat
    BY FS_CardinalityType
  <1>2. /\ q \in [1..N -> hs]
        /\ \A i, j \in DOMAIN q : i < j => q[i] # q[j] /\ Len(q[i]) <= Len(q[j])
    BY DEF Orders
  <1> HIDE DEF N
  <1>3. q \in Seq(Hashes) /\ Len(q) = N /\ DOMAIN q = 1..N
    BY <1>1, <1>2
  <1>4. q \in Surjection(1..N, hs)
    <2>1. ASSUME NEW i \in 1..N, NEW j \in 1..N, q[i] = q[j]
          PROVE  i = j
      <3>1. i \in Int /\ j \in Int
        BY <1>1
      <3>2. ~(i < j) /\ ~(j < i)
        BY <1>2, <1>3, <2>1
      <3>3. QED
        BY <3>1, <3>2
    <2>2. q \in Injection(1..N, hs)
      BY <1>2, <2>1 DEF Injection, IsInjective
    <2>3. Cardinality(1..N) = Cardinality(hs)
      BY <1>1, FS_Interval DEF N
    <2>4. QED
      BY <2>2, <2>3, FS_Injection
  <1>5. \A h \in hs : \E i \in 1..N : q[i] = h
    BY <1>4 DEF Surjection
  <1>6. QED
    BY <1>2, <1>3, <1>5 DEF ByHeight

\* A chain that holds a single mined block is sound.
LEMMA AnchorSound ==
    ASSUME NEW h \in Hashes, NEW s
    PROVE  ChainOK(C!AnchoredAt(BlockOf(h), s)) /\ C!AnchoredAt(BlockOf(h), s).head = h
  <1> DEFINE c == C!AnchoredAt(BlockOf(h), s)
  <1>1. BlockOf(h).hash = h
    BY DEF BlockOf
  <1>2. c.blocks = [g \in {h} |-> BlockOf(h)] /\ c.head = h
    BY <1>1 DEF C!AnchoredAt
  <1> HIDE DEF c
  <1>3. C!Known(c) = {h} /\ c.blocks[h] = BlockOf(h)
    BY <1>2 DEF C!Known
  <1>4. Len(h) <= Len(h) /\ Len(h) <= Len(h) + SnapshotDepth
    BY HashShape, SyncAssumption
  <1>5. ChainOK(c)
    BY <1>2, <1>3, <1>4, FS_Singleton, Zenon DEF ChainOK
  <1>6. QED
    BY <1>2, <1>5 DEF c

\* A mined block is one that the chain would accept as well.
LEMMA CommitApplies ==
    ASSUME NEW c, ChainOK(c), NEW n \in Node, Len(c.head) < MaxHeight
    PROVE  LET h == Append(c.head, n)
           IN  h \in Hashes /\ C!Commit(c, BlockOf(h), h) = ApplyHash(0, c, h)
  <1> DEFINE h == Append(c.head, n)
             b == BlockOf(h)
  <1>1. c.head \in Hashes /\ c.head \in Seq(Node) /\ Len(c.head) \in Nat /\ c.head \in C!Known(c)
    BY HashShape DEF ChainOK
  <1>2. h \in Seq(Node) /\ Len(h) = Len(c.head) + 1 /\ h # << >>
    BY <1>1, AppendProperties
  <1>3. h \in Hashes
    <2>1. Len(h) <= MaxHeight
      BY <1>1, <1>2, SyncAssumption
    <2>2. QED
      BY <1>2, <2>1, HashShape, Zenon
  <1>4. Front(h) = c.head
    <2>1. Len(c.head) \in 0..Len(h) /\ Len(h) - 1 = Len(c.head)
      BY <1>1, <1>2
    <2>2. /\ Front(h) \in Seq(Node) /\ Len(Front(h)) = Len(c.head)
          /\ \A i \in 1..Len(c.head) : Front(h)[i] = h[i]
      BY <1>2, <2>1, PrefixShape DEF Front
    <2>3. \A i \in 1..Len(c.head) : h[i] = c.head[i]
      BY <1>1, AppendProperties
    <2>4. QED
      BY <1>1, <2>2, <2>3, SeqEqual
  <1>5. h \notin C!Known(c)
    <2>1. ~(Len(h) <= Len(c.head))
      BY <1>1, <1>2
    <2>2. QED
      BY <2>1, Zenon DEF ChainOK
  <1> HIDE DEF h
  <1>6. C!Accepts(c, b, 0)
    BY <1>1, <1>2, <1>3, <1>4, <1>5, AcceptsWhen
  <1> DEFINE s == C!Insert(c, b, h)
  <1>7. b.hash = h /\ b.height = Len(h) /\ ReplayStore(b, c.snapshots[b.parent]) = h
    BY DEF BlockOf, ReplayStore
  <1>8. s.head = c.head /\ s.blocks[c.head] = c.blocks[c.head]
    BY <1>1, <1>5, <1>7 DEF C!Insert, C!Put, C!Known
  <1>9. C!HeadHeight(s) = Len(c.head)
    BY <1>8, HeadHeightIs DEF C!HeadHeight, C!HeadBlock
  <1> HIDE DEF s
  <1>10. b.height > C!HeadHeight(s)
    BY <1>1, <1>2, <1>7, <1>9
  <1>11. C!Adopt(c, b) = C!Prune(C!SwitchHead(s, h))
    BY <1>7, <1>10 DEF C!Adopt, s
  <1>12. C!Commit(c, b, h) = C!Prune(C!SwitchHead(s, h))
    BY <1>7 DEF C!Commit, s
  <1>13. ApplyHash(0, c, h) = C!Adopt(c, b)
    BY <1>6 DEF ApplyHash, C!ApplyBlock
  <1>14. QED
    BY <1>3, <1>11, <1>12, <1>13 DEF h

-----------------------------------------------------------------------------
(* The invariant of the whole system.                                      *)

BufferOK(b) == b \subseteq Hashes /\ IsFiniteSet(b) /\ Cardinality(b) <= MaxBuffered

HandOK(m) == m # None => m.kind = "block" /\ m.hash \in Hashes

PullOK(p) ==
    p # None =>
        /\ p.kind \in {"blocks", "snapshot"}
        /\ p.answered => p.hashes \subseteq Hashes /\ IsFiniteSet(p.hashes)
        /\ ~p.answered => p.peer \in Node

ChainsOK == chain = [n \in Node |-> chain[n]] /\ \A n \in Node : ChainOK(chain[n])

PeersOK ==
    /\ inbox \in [Listeners -> SUBSET Hashes]
    /\ urls \in [Listeners -> SUBSET Node]

SyncOK ==
    /\ state \in [Listeners -> {"Working", "Syncing", "StateSyncing"}]
    /\ buffer = [n \in Listeners |-> buffer[n]]
    /\ \A n \in Listeners : BufferOK(buffer[n]) /\ HandOK(hand[n]) /\ PullOK(pull[n])

\* Every chain is sound, and every hash in a mailbox, buffer, message or answer
\* is that of a mined block.
GossipInv == LoopInv /\ ChainsOK /\ PeersOK /\ SyncOK

\* The blocks of an answer and of a buffer, in the order they are applied.
LEMMA SyncApplies ==
    ASSUME NEW c, ChainOK(c), NEW P, P \subseteq Hashes, IsFiniteSet(P), NEW q \in Orders(P)
    PROVE  ChainOK(ApplyAll(c, q)) /\ Advances(c, ApplyAll(c, q))
  BY OrdersShape, ApplyAllSound

LEMMA SomeBuffered ==
    ASSUME NEW b, BufferOK(b), NEW P
    PROVE  /\ b \ P \subseteq Hashes /\ IsFiniteSet(b \ P)
           /\ {} \subseteq Hashes /\ IsFiniteSet({})
  BY FS_Difference, FS_EmptySet, Zenon DEF BufferOK

\* A completed block sync: pulled blocks first, then the buffered ones.
LEMMA CompleteSyncShape ==
    ASSUME GossipInv, NEW n \in Listeners, CompleteSync(n)
    PROVE  LET P == pull[n].hashes
               B == buffer[n] \ pull[n].hashes
           IN  /\ P \subseteq Hashes /\ IsFiniteSet(P)
               /\ B \subseteq Hashes /\ IsFiniteSet(B)
               /\ \E q \in Orders(P), r \in Orders(B) :
                     chain' = [chain EXCEPT ![n] = ApplyAll(ApplyAll(chain[n], q), r)]
  <1>1. pull[n].kind = "blocks" /\ pull[n].answered
    BY DEF CompleteSync, TakeAnswer
  <1>2. pull[n] # None
    BY <1>1 DEF None
  <1>3. state[n] = "Syncing"
    BY <1>1 DEF GossipInv, LoopInv, FutureFits
  <1>4. pull[n].hashes \subseteq Hashes /\ IsFiniteSet(pull[n].hashes)
    BY <1>1, <1>2 DEF GossipInv, SyncOK, PullOK
  <1>5. BufferOK(buffer[n])
    BY DEF GossipInv, SyncOK
  <1>6. \E q \in Orders(pull[n].hashes), r \in Orders(buffer[n] \ pull[n].hashes) :
           chain' = [chain EXCEPT ![n] = ApplyAll(ApplyAll(chain[n], q), r)]
    BY <1>3, Zenon DEF CompleteSync
  <1>7. QED
    BY <1>4, <1>5, <1>6, SomeBuffered, Zenon

\* Whatever a step does to the chains, they stay sound and advance.
LEMMA ChainStep ==
    ASSUME GossipInv, [Next]_vars
    PROVE  ChainsOK' /\ \A n \in Node : Advances(chain[n], chain'[n])
  <1> DEFINE Goal == ChainsOK' /\ \A n \in Node : Advances(chain[n], chain'[n])
             Moves1(n, d) == /\ ChainOK(d)
                             /\ Advances(chain[n], d)
                             /\ chain' = [chain EXCEPT ![n] = d]
  <1>0. /\ ChainsOK
        /\ \A n \in Listeners : n \in Node
        /\ \A n \in Node : ChainOK(chain[n])
    BY SyncAssumption DEF GossipInv, ChainsOK
  <1>1. ASSUME UNCHANGED chain
        PROVE  Goal
    BY <1>0, <1>1 DEF ChainsOK, Advances
  <1>2. ASSUME NEW n \in Node, NEW d, Moves1(n, d)
        PROVE  Goal
    <2>1. chain' = [m \in Node |-> IF m = n THEN d ELSE chain[m]]
      BY <1>0, <1>2 DEF ChainsOK
    <2>2. chain' = [m \in Node |-> chain'[m]]
      BY <2>1
    <2>3. ASSUME NEW m \in Node
          PROVE  ChainOK(chain'[m]) /\ Advances(chain[m], chain'[m])
      <3>1. CASE m = n
        BY <1>2, <2>1, <3>1
      <3>2. CASE m # n
        <4>1. chain'[m] = chain[m]
          BY <2>1, <3>2
        <4>2. QED
          BY <1>0, <4>1 DEF Advances
      <3>3. QED
        BY <3>1, <3>2
    <2>4. QED
      BY <2>2, <2>3 DEF ChainsOK
  <1> SUFFICES Goal
    OBVIOUS
  <1> HIDE DEF Goal
  <1>3. ASSUME NEW n \in Node, Mine(n)
        PROVE  Goal
    <2> DEFINE h == Append(chain[n].head, n)
               d == C!Commit(chain[n], BlockOf(h), h)
    <2>1. C!HeadHeight(chain[n]) = Len(chain[n].head)
      BY <1>0, HeadHeightIs
    <2>2. Len(chain[n].head) < MaxHeight
      BY <1>3, <2>1 DEF Mine, Height
    <2>3. h \in Hashes /\ d = ApplyHash(0, chain[n], h)
      BY <1>0, <2>2, CommitApplies
    <2>4. chain' = [chain EXCEPT ![n] = d]
      BY <1>3 DEF Mine
    <2> HIDE DEF h, d
    <2>5. ChainOK(d) /\ Advances(chain[n], d)
      BY <1>0, <2>3, ApplyEffect
    <2>6. QED
      BY <1>2, <2>4, <2>5, Zenon
  <1>4. ASSUME NEW n \in Listeners, HandleBlock(n)
        PROVE  Goal
    <2> DEFINE h == hand[n].hash
               d == ApplyHash(0, chain[n], h)
    <2>1. UNCHANGED chain \/ chain' = [chain EXCEPT ![n] = d]
      BY <1>4 DEF HandleBlock, ApplyHash
    <2>2. h \in Hashes
      BY <1>4 DEF HandleBlock, FinishMessage, GossipInv, SyncOK, HandOK
    <2>3. ChainOK(d) /\ Advances(chain[n], d)
      BY <1>0, <2>2, ApplyEffect
    <2> HIDE DEF h, d
    <2>4. QED
      BY <1>0, <1>1, <1>2, <2>1, <2>3
  <1>5. ASSUME NEW n \in Listeners, CompleteSync(n)
        PROVE  Goal
    <2>1. PICK q \in Orders(pull[n].hashes), r \in Orders(buffer[n] \ pull[n].hashes) :
             chain' = [chain EXCEPT ![n] = ApplyAll(ApplyAll(chain[n], q), r)]
      BY <1>5, CompleteSyncShape, Zenon
    <2>2. /\ pull[n].hashes \subseteq Hashes /\ IsFiniteSet(pull[n].hashes)
          /\ buffer[n] \ pull[n].hashes \subseteq Hashes
          /\ IsFiniteSet(buffer[n] \ pull[n].hashes)
      BY <1>5, CompleteSyncShape
    <2> DEFINE d == ApplyAll(chain[n], q)
               e == ApplyAll(d, r)
    <2>3. ChainOK(d) /\ Advances(chain[n], d)
      BY <1>0, <2>2, SyncApplies
    <2> HIDE DEF d
    <2>4. ChainOK(e) /\ Advances(d, e)
      BY <2>2, <2>3, SyncApplies
    <2> HIDE DEF e
    <2>5. Advances(chain[n], e)
      BY <1>0, <2>3, <2>4, AdvancesOn
    <2>6. QED
      BY <1>0, <1>2, <2>1, <2>4, <2>5, Zenon DEF d, e
  <1>6. ASSUME NEW n \in Listeners, CompleteStateSync(n)
        PROVE  Goal
    <2> DEFINE B == IF state[n] = "StateSyncing" THEN buffer[n] ELSE {}
               a(h) == C!AnchoredAt(BlockOf(h), h)
    <2>1. CASE UNCHANGED chain
      BY <1>1, <2>1
    <2>2. CASE ~(UNCHANGED chain)
      <3>1. PICK h \in pull[n].hashes, r \in Orders(B) :
               /\ C!SnapshotAccepted(chain[n], BlockOf(h), h, 0)
               /\ chain' = [chain EXCEPT ![n] = ApplyAll(a(h), r)]
        BY <1>6, <2>2 DEF CompleteStateSync
      <3>2. h \in Hashes
        <4>1. pull[n].kind = "snapshot" /\ pull[n].answered
          BY <1>6 DEF CompleteStateSync, TakeAnswer
        <4>2. pull[n] # None
          BY <4>1 DEF None
        <4>3. QED
          BY <4>1, <4>2 DEF GossipInv, SyncOK, PullOK
      <3>3. BufferOK(buffer[n])
        BY DEF GossipInv, SyncOK
      <3>4. B \subseteq Hashes /\ IsFiniteSet(B)
        BY <3>3, SomeBuffered DEF BufferOK
      <3>5. ChainOK(a(h)) /\ a(h).head = h
        BY <3>2, AnchorSound
      <3>6. Advances(chain[n], a(h))
        <4>1. BlockOf(h).height = Len(h)
          BY DEF BlockOf
        <4>2. C!HeadHeight(chain[n]) = Len(chain[n].head)
          BY <1>0, HeadHeightIs
        <4>3. QED
          BY <3>1, <3>5, <4>1, <4>2 DEF C!SnapshotAccepted, Advances
      <3> HIDE DEF a, B
      <3> DEFINE e == ApplyAll(a(h), r)
      <3>7. ChainOK(e) /\ Advances(a(h), e)
        BY <3>4, <3>5, SyncApplies
      <3>8. Advances(chain[n], e)
        BY <1>0, <3>5, <3>6, <3>7, AdvancesOn
      <3>9. QED
        BY <1>0, <1>2, <3>1, <3>7, <3>8, Zenon
    <2>3. QED
      BY <2>1, <2>2
  <1>7. ASSUME NEW n \in Listeners,
               \/ \E p \in Node \ {n} : LearnUrl(n, p)
               \/ \E h \in inbox[n] : ReceiveBlock(n, h, FALSE)
               \/ \E h \in inbox[n] : ReceiveBlock(n, h, TRUE)
               \/ Answer(n) \/ Fail(n)
        PROVE  Goal
    BY <1>1, <1>7 DEF LearnUrl, ReceiveBlock, Answer, Fail
  <1>8. CASE UNCHANGED vars
    BY <1>1, <1>8 DEF vars
  <1>9. QED
    BY <1>3, <1>4, <1>5, <1>6, <1>7, <1>8, Zenon DEF Next

\* Mailboxes hold mined blocks, and URLs are those of nodes.
LEMMA PeersStep ==
    ASSUME GossipInv, [Next]_vars
    PROVE  PeersOK'
  <1>0. PeersOK
    BY DEF GossipInv
  <1>1. ASSUME UNCHANGED <<inbox, urls>>
        PROVE  PeersOK'
    BY <1>0, <1>1 DEF PeersOK
  <1>2. ASSUME NEW n \in Node, Mine(n)
        PROVE  PeersOK'
    <2> DEFINE h == Append(chain[n].head, n)
    <2>1. ChainOK(chain[n])
      BY DEF GossipInv, ChainsOK
    <2>2. Len(chain[n].head) < MaxHeight
      BY <1>2, <2>1, HeadHeightIs DEF Mine, Height
    <2>3. h \in Hashes
      BY <2>1, <2>2, CommitApplies
    <2>4. /\ inbox' = [m \in Listeners |-> IF m = n THEN inbox[m] ELSE inbox[m] \cup {h}]
          /\ urls' = urls
      BY <1>2 DEF Mine
    <2> HIDE DEF h
    <2>5. QED
      BY <1>0, <2>3, <2>4 DEF PeersOK
  <1>3. ASSUME NEW n \in Listeners, NEW p \in Node, LearnUrl(n, p)
        PROVE  PeersOK'
    BY <1>0, <1>3 DEF PeersOK, LearnUrl
  <1>4. ASSUME NEW n \in Listeners, NEW h, NEW again, ReceiveBlock(n, h, again)
        PROVE  PeersOK'
    BY <1>0, <1>4 DEF PeersOK, ReceiveBlock
  <1>5. ASSUME NEW n \in Listeners,
               HandleBlock(n) \/ Answer(n) \/ Fail(n) \/ CompleteSync(n) \/ CompleteStateSync(n)
        PROVE  PeersOK'
    BY <1>1, <1>5 DEF HandleBlock, Answer, Fail, CompleteSync, CompleteStateSync, EndSync
  <1>6. CASE UNCHANGED vars
    BY <1>1, <1>6 DEF vars
  <1>7. QED
    BY <1>2, <1>3, <1>4, <1>5, <1>6, Zenon DEF Next

\* Only listener n's entries change, to sound ones.
LEMMA SyncMoves ==
    ASSUME LoopInv, SyncOK, NEW n \in Listeners,
           NEW s \in {"Working", "Syncing", "StateSyncing"},
           NEW b, BufferOK(b), NEW m, HandOK(m), NEW p, PullOK(p),
           state' = [state EXCEPT ![n] = s], buffer' = [buffer EXCEPT ![n] = b],
           hand' = [hand EXCEPT ![n] = m], pull' = [pull EXCEPT ![n] = p]
    PROVE  SyncOK'
  <1>1. state' \in [Listeners -> {"Working", "Syncing", "StateSyncing"}]
    BY DEF SyncOK
  <1>2. buffer' = [k \in Listeners |-> buffer'[k]]
    BY DEF SyncOK
  <1>3. ASSUME NEW k \in Listeners
        PROVE  BufferOK(buffer'[k]) /\ HandOK(hand'[k]) /\ PullOK(pull'[k])
    <2>1. CASE k = n
      <3>1. buffer'[k] = b /\ hand'[k] = m /\ pull'[k] = p
        BY <2>1 DEF SyncOK, LoopInv
      <3>2. QED
        BY <3>1
    <2>2. CASE k # n
      <3>1. buffer'[k] = buffer[k] /\ hand'[k] = hand[k] /\ pull'[k] = pull[k]
        BY <2>2, Zenon DEF SyncOK, LoopInv
      <3>2. QED
        BY <3>1 DEF SyncOK
    <2>3. QED
      BY <2>1, <2>2
  <1>4. QED
    BY <1>1, <1>2, <1>3 DEF SyncOK, BufferOK, HandOK, PullOK

\* A block message in hand, and the request it starts.
LEMMA RequestSound ==
    ASSUME GossipInv, NEW n \in Listeners, NEW kind \in {"blocks", "snapshot"},
           NEW h, NEW since, NEW r \in Request(n, h, kind, since)
    PROVE  PullOK(r)
  <1>1. urls[n] \subseteq Node
    BY DEF GossipInv, PeersOK
  <1>2. SyncPeers(n, h) \subseteq urls[n]
    BY DEF SyncPeers
  <1>3. CASE r = None
    BY <1>3 DEF PullOK
  <1>4. CASE r # None
    <2>1. PICK p \in SyncPeers(n, h) :
             r = [kind |-> kind, peer |-> p, since |-> since, answered |-> FALSE]
      BY <1>4 DEF Request
    <2>2. r.kind = kind /\ r.peer \in Node /\ r.answered = FALSE
      BY <1>1, <1>2, <2>1
    <2>3. QED
      BY <2>2 DEF PullOK
  <1>5. QED
    BY <1>3, <1>4

\* The blocks a chain serves are mined blocks.
LEMMA ServedBlocks ==
    ASSUME NEW c, ChainOK(c), NEW height
    PROVE  LET hs == {b.hash : b \in C!BlocksSince(c, height)}
           IN  hs \subseteq Hashes /\ IsFiniteSet(hs)
  <1> DEFINE hs == {b.hash : b \in C!BlocksSince(c, height)}
  <1>1. ASSUME NEW b \in C!BlocksSince(c, height)
        PROVE  b.hash \in C!Known(c)
    <2>1. PICK h \in C!Known(c) : b = c.blocks[h]
      BY DEF C!BlocksSince, C!Known
    <2>2. b = BlockOf(h)
      BY <2>1 DEF ChainOK
    <2>3. b.hash = h
      BY <2>2 DEF BlockOf
    <2>4. QED
      BY <2>1, <2>3
  <1>2. hs \subseteq C!Known(c)
    BY <1>1
  <1> HIDE DEF hs
  <1>3. hs \subseteq Hashes /\ IsFiniteSet(hs)
    BY <1>2, FS_Subset DEF ChainOK
  <1>4. QED
    BY <1>3 DEF hs

\* Buffers stay within their cap, and messages and answers stay well formed.
LEMMA SyncStep ==
    ASSUME GossipInv, [Next]_vars
    PROVE  SyncOK'
  <1>0. LoopInv /\ SyncOK /\ PeersOK
    BY DEF GossipInv
  <1>1. ASSUME UNCHANGED <<state, buffer, hand, pull>>
        PROVE  SyncOK'
    BY <1>0, <1>1 DEF SyncOK, BufferOK, HandOK, PullOK
  \* What listener n has, written back.
  <1>2. ASSUME NEW n \in Listeners
        PROVE  /\ state = [state EXCEPT ![n] = state[n]]
               /\ buffer = [buffer EXCEPT ![n] = buffer[n]]
               /\ hand = [hand EXCEPT ![n] = hand[n]]
               /\ pull = [pull EXCEPT ![n] = pull[n]]
               /\ state[n] \in {"Working", "Syncing", "StateSyncing"}
               /\ BufferOK(buffer[n]) /\ HandOK(hand[n]) /\ PullOK(pull[n])
    BY <1>0, SameEntry, Zenon DEF LoopInv, SyncOK
  <1>3. BufferOK({}) /\ HandOK(None) /\ PullOK(None)
    BY FS_EmptySet, SyncAssumption DEF BufferOK, HandOK, PullOK
  <1>4. ASSUME NEW n \in Node, Mine(n)
        PROVE  SyncOK'
    BY <1>1, <1>4 DEF Mine
  <1>5. ASSUME NEW n \in Listeners, NEW p, LearnUrl(n, p)
        PROVE  SyncOK'
    BY <1>1, <1>5 DEF LearnUrl
  <1>6. ASSUME NEW n \in Listeners, NEW h, NEW again, ReceiveBlock(n, h, again)
        PROVE  SyncOK'
    <2>1. h \in Hashes
      BY <1>0, <1>6 DEF ReceiveBlock, PeersOK
    <2>2. state' = state /\ pull' = pull
      BY <1>6 DEF ReceiveBlock
    <2>3. state' = [state EXCEPT ![n] = state[n]] /\ pull' = [pull EXCEPT ![n] = pull[n]]
      BY <1>2, <2>2
    <2>4. CASE state[n] # "Working" /\ ~(Cardinality(buffer[n]) >= MaxBuffered)
      <3> DEFINE b == buffer[n] \cup {h}
      <3>1. buffer' = [buffer EXCEPT ![n] = b] /\ hand' = hand
        BY <1>6, <2>4 DEF ReceiveBlock
      <3>2. /\ buffer[n] \subseteq Hashes /\ IsFiniteSet(buffer[n])
            /\ Cardinality(buffer[n]) \in Nat
        BY <1>2, FS_CardinalityType DEF BufferOK
      <3>3. /\ IsFiniteSet(b)
            /\ Cardinality(b) = IF h \in buffer[n] THEN Cardinality(buffer[n])
                                ELSE Cardinality(buffer[n]) + 1
        BY <3>2, FS_AddElement
      <3>4. Cardinality(b) <= MaxBuffered
        BY <2>4, <3>2, <3>3, SyncAssumption
      <3>5. BufferOK(b)
        BY <2>1, <3>2, <3>3, <3>4 DEF BufferOK
      <3> HIDE DEF b
      <3>6. hand' = [hand EXCEPT ![n] = hand[n]]
        BY <1>2, <3>1
      <3>7. QED
        BY <1>0, <1>2, <2>3, <3>1, <3>5, <3>6, SyncMoves, Zenon
    <2>5. CASE state[n] # "Working" /\ Cardinality(buffer[n]) >= MaxBuffered
      BY <1>1, <1>6, <2>2, <2>5 DEF ReceiveBlock
    <2>6. CASE state[n] = "Working"
      <3> DEFINE m == [kind |-> "block", hash |-> h, localHeight |-> Height(n),
                       syncStart |-> C!SyncFromHeight(chain[n])]
      <3>1. hand' = [hand EXCEPT ![n] = m] /\ buffer' = buffer
        BY <1>6, <2>6 DEF ReceiveBlock
      <3>2. HandOK(m)
        BY <2>1 DEF HandOK
      <3> HIDE DEF m
      <3>3. buffer' = [buffer EXCEPT ![n] = buffer[n]]
        BY <1>2, <3>1
      <3>4. QED
        BY <1>0, <1>2, <2>3, <3>1, <3>2, <3>3, SyncMoves, Zenon
    <2>7. QED
      BY <2>4, <2>5, <2>6
  <1>7. ASSUME NEW n \in Listeners, HandleBlock(n)
        PROVE  SyncOK'
    <2>1. hand[n] # None /\ hand' = [hand EXCEPT ![n] = None]
      BY <1>7 DEF HandleBlock, FinishMessage
    <2>2. hand[n].hash \in Hashes
      BY <1>2, <2>1 DEF HandOK
    <2>3. BufferOK({hand[n].hash})
      <3>1. IsFiniteSet({hand[n].hash}) /\ Cardinality({hand[n].hash}) = 1
        BY FS_Singleton, Zenon
      <3>2. 1 <= MaxBuffered
        BY SyncAssumption
      <3>3. QED
        BY <2>2, <3>1, <3>2 DEF BufferOK
    <2>4. ASSUME NEW s \in {"Syncing", "StateSyncing"}, NEW kind \in {"blocks", "snapshot"},
                 StartSync(n, s, kind)
          PROVE  SyncOK'
      <3>1. PICK r \in Request(n, hand[n].hash, kind, hand[n].syncStart) :
               pull' = [pull EXCEPT ![n] = r]
        BY <2>4, Zenon DEF StartSync
      <3>2. PullOK(r)
        BY RequestSound
      <3>3. /\ state' = [state EXCEPT ![n] = s]
            /\ buffer' = [buffer EXCEPT ![n] = {hand[n].hash}]
        BY <2>4 DEF StartSync
      <3>4. QED
        BY <1>0, <1>3, <2>1, <2>3, <3>1, <3>2, <3>3, SyncMoves, Zenon
    <2>5. CASE UNCHANGED <<state, buffer, pull>>
      <3>1. /\ state' = [state EXCEPT ![n] = state[n]]
            /\ buffer' = [buffer EXCEPT ![n] = buffer[n]]
            /\ pull' = [pull EXCEPT ![n] = pull[n]]
        BY <1>2, <2>5
      <3>2. QED
        BY <1>0, <1>2, <1>3, <2>1, <3>1, SyncMoves, Zenon
    <2>6. \/ StartSync(n, "StateSyncing", "snapshot")
          \/ StartSync(n, "Syncing", "blocks")
          \/ UNCHANGED <<state, buffer, pull>>
      BY <1>7 DEF HandleBlock
    <2>7. QED
      BY <2>4, <2>5, <2>6
  <1>8. ASSUME NEW n \in Listeners, Answer(n) \/ Fail(n)
        PROVE  SyncOK'
    <2>1. /\ pull[n] # None /\ ~pull[n].answered
          /\ state' = state /\ buffer' = buffer /\ hand' = hand
      BY <1>8 DEF Answer, Fail
    <2>2. pull[n].kind \in {"blocks", "snapshot"} /\ pull[n].peer \in Node
      BY <1>2, <2>1 DEF PullOK
    <2>3. PICK hs : /\ hs \subseteq Hashes /\ IsFiniteSet(hs)
                    /\ pull' = [pull EXCEPT ![n] =
                                  [kind |-> pull[n].kind, answered |-> TRUE, hashes |-> hs]]
      <3>1. CASE Fail(n)
        BY <3>1, FS_EmptySet, Zenon DEF Fail
      <3>2. CASE Answer(n)
        <4> DEFINE c == chain[pull[n].peer]
                   served == {b.hash : b \in C!BlocksSince(c, pull[n].since)}
                   hs == IF pull[n].kind = "snapshot" THEN {c.head} ELSE served
        <4>1. ChainOK(c)
          BY <2>2 DEF GossipInv, ChainsOK
        <4>2. served \subseteq Hashes /\ IsFiniteSet(served)
          BY <4>1, ServedBlocks
        <4>3. {c.head} \subseteq Hashes /\ IsFiniteSet({c.head})
          BY <4>1, FS_Singleton, Zenon DEF ChainOK
        <4>4. pull' = [pull EXCEPT ![n] =
                         [kind |-> pull[n].kind, answered |-> TRUE, hashes |-> hs]]
          BY <3>2 DEF Answer
        <4> HIDE DEF c, served
        <4>5. hs \subseteq Hashes /\ IsFiniteSet(hs)
          BY <4>2, <4>3
        <4> HIDE DEF hs
        <4>6. QED
          BY <4>4, <4>5, Zenon
      <3>3. QED
        BY <1>8, <3>1, <3>2
    <2> DEFINE r == [kind |-> pull[n].kind, answered |-> TRUE, hashes |-> hs]
    <2>4. PullOK(r)
      BY <2>2, <2>3 DEF PullOK
    <2>5. /\ state' = [state EXCEPT ![n] = state[n]]
          /\ buffer' = [buffer EXCEPT ![n] = buffer[n]]
          /\ hand' = [hand EXCEPT ![n] = hand[n]]
          /\ pull' = [pull EXCEPT ![n] = r]
      BY <1>2, <2>1, <2>3
    <2> HIDE DEF r
    <2>6. QED
      BY <1>0, <1>2, <2>4, <2>5, SyncMoves, Zenon
  <1>9. ASSUME NEW n \in Listeners, CompleteSync(n) \/ CompleteStateSync(n)
        PROVE  SyncOK'
    <2>1. /\ pull' = [pull EXCEPT ![n] = None]
          /\ state' = [state EXCEPT ![n] = "Working"]
          /\ buffer' = [buffer EXCEPT ![n] = {}]
          /\ hand' = hand
      BY <1>9 DEF CompleteSync, CompleteStateSync, TakeAnswer, EndSync
    <2>2. hand' = [hand EXCEPT ![n] = hand[n]]
      BY <1>2, <2>1
    <2>3. QED
      BY <1>0, <1>2, <1>3, <2>1, <2>2, SyncMoves, Zenon
  <1>10. CASE UNCHANGED vars
    BY <1>1, <1>10 DEF vars
  <1>11. QED
    BY <1>4, <1>5, <1>6, <1>7, <1>8, <1>9, <1>10, Zenon DEF Next

\* The invariant holds from the start and is kept by every step.
LEMMA GossipInvInit ==
    ASSUME Init
    PROVE  GossipInv
  <1>1. << >> \in Hashes
    <2>1. << >> \in Seq(Node) /\ Len(<< >>) = 0
      OBVIOUS
    <2>2. Len(<< >>) <= MaxHeight
      BY <2>1, SyncAssumption
    <2>3. QED
      BY <2>1, <2>2, HashShape, Zenon
  <1>2. ChainOK(C!NewChain)
    BY <1>1, AnchorSound DEF C!NewChain, GenesisBlock
  <1>3. ChainsOK
    BY <1>2 DEF Init, ChainsOK
  <1>4. BufferOK({}) /\ HandOK(None) /\ PullOK(None)
    BY FS_EmptySet, SyncAssumption DEF BufferOK, HandOK, PullOK
  <1>5. SyncOK
    BY <1>4 DEF Init, SyncOK
  <1>6. PeersOK
    BY DEF Init, PeersOK
  <1>7. LoopInv
    BY DEF Init, LoopInv, FutureFits, None
  <1>8. QED
    BY <1>3, <1>5, <1>6, <1>7 DEF GossipInv

LEMMA GossipInvStep ==
    ASSUME GossipInv, [Next]_vars
    PROVE  GossipInv'
  <1>1. LoopInv'
    BY LoopStep DEF GossipInv
  <1>2. QED
    BY <1>1, ChainStep, PeersStep, SyncStep DEF GossipInv

\* Every node's chain, mailbox, buffer and futures are well formed, and the
\* buffer of a sync never exceeds its cap.
THEOREM GossipTypeCorrect == Spec => []TypeOK
  <1>1. Init => GossipInv
    BY GossipInvInit
  <1>2. GossipInv /\ [Next]_vars => GossipInv'
    BY GossipInvStep
  <1>3. GossipInv => TypeOK
    <2> SUFFICES ASSUME GossipInv
                 PROVE  TypeOK
      OBVIOUS
    <2>1. \A n \in Node : chain[n].head \in Hashes /\ C!Known(chain[n]) \subseteq Hashes
      BY DEF GossipInv, ChainsOK, ChainOK
    <2>2. ASSUME NEW n \in Listeners
          PROVE  /\ buffer[n] \subseteq Hashes /\ Cardinality(buffer[n]) <= MaxBuffered
                 /\ hand[n].kind \in {"none", "block"}
                 /\ pull[n].kind \in {"none", "blocks", "snapshot"}
      <3>1. BufferOK(buffer[n]) /\ HandOK(hand[n]) /\ PullOK(pull[n])
        BY DEF GossipInv, SyncOK
      <3>2. None.kind = "none"
        BY DEF None
      <3>3. QED
        BY <3>1, <3>2 DEF BufferOK, HandOK, PullOK
    <2>3. QED
      BY <2>1, <2>2 DEF GossipInv, PeersOK, SyncOK, TypeOK
  <1>4. QED
    BY <1>1, <1>2, <1>3, PTL DEF Spec

\* Gossip, pulled blocks, snapshots and the node's own miner race for the
\* chain, and no step of theirs lowers a head or swaps it for another of the
\* same height.
THEOREM HeadsAlwaysAdvance == Spec => HeadsOnlyAdvance
  <1>1. Init => GossipInv
    BY GossipInvInit
  <1>2. GossipInv /\ [Next]_vars => GossipInv'
    BY GossipInvStep
  <1>3. GossipInv /\ [Next]_vars =>
           [\A n \in Node : \/ chain'[n].head = chain[n].head
                            \/ Len(chain'[n].head) > Len(chain[n].head)]_vars
    BY ChainStep DEF Advances
  <1>4. QED
    BY <1>1, <1>2, <1>3, PTL DEF Spec, HeadsOnlyAdvance

\* Only the completion of a block sync ends one.
LEMMA SyncEndsHow ==
    ASSUME GossipInv, [Next]_vars, NEW n \in Listeners, SyncEnds(n)
    PROVE  CompleteSync(n)
  <1>0. /\ pull = [m \in Listeners |-> pull[m]]
        /\ \A m \in Listeners : FutureFits(state[m], hand[m], pull[m])
        /\ pull[n].kind = "blocks" /\ pull'[n].kind = "none"
    BY DEF GossipInv, LoopInv, SyncEnds
  <1>1. ASSUME UNCHANGED pull
        PROVE  FALSE
    BY <1>0, <1>1
  <1>2. ASSUME NEW m \in Listeners, NEW r, pull' = [pull EXCEPT ![m] = r],
               m = n => r.kind = pull[n].kind
        PROVE  FALSE
    <2>1. CASE m = n
      BY <1>0, <1>2, <2>1
    <2>2. CASE m # n
      <3>1. pull'[n] = pull[n]
        BY <1>0, <1>2, <2>2
      <3>2. QED
        BY <1>0, <3>1
    <2>3. QED
      BY <2>1, <2>2
  <1>3. ASSUME NEW m \in Node, Mine(m)
        PROVE  FALSE
    BY <1>1, <1>3 DEF Mine
  <1>4. ASSUME NEW m \in Listeners,
               \/ \E p \in Node \ {m} : LearnUrl(m, p)
               \/ \E h \in inbox[m] : ReceiveBlock(m, h, FALSE)
               \/ \E h \in inbox[m] : ReceiveBlock(m, h, TRUE)
        PROVE  FALSE
    BY <1>1, <1>4 DEF LearnUrl, ReceiveBlock
  <1>5. ASSUME NEW m \in Listeners, HandleBlock(m)
        PROVE  FALSE
    <2>1. m # n
      BY <1>0, <1>5 DEF HandleBlock, FinishMessage, FutureFits
    <2>2. UNCHANGED pull \/ \E r : pull' = [pull EXCEPT ![m] = r]
      BY <1>5 DEF HandleBlock, StartSync
    <2>3. QED
      BY <1>1, <1>2, <2>1, <2>2
  <1>6. ASSUME NEW m \in Listeners, Answer(m) \/ Fail(m)
        PROVE  FALSE
    <2>1. PICK r : pull' = [pull EXCEPT ![m] = r] /\ r.kind = pull[m].kind
      BY <1>6 DEF Answer, Fail
    <2>2. QED
      BY <1>2, <2>1, Zenon
  <1>7. ASSUME NEW m \in Listeners, CompleteSync(m) \/ CompleteStateSync(m)
        PROVE  m = n /\ CompleteSync(n)
    <2>1. pull' = [pull EXCEPT ![m] = None]
      BY <1>7, Zenon DEF CompleteSync, CompleteStateSync, TakeAnswer
    <2>2. m = n
      BY <1>2, <2>1, Zenon
    <2>3. ~CompleteStateSync(n)
      BY <1>0 DEF CompleteStateSync, TakeAnswer
    <2>4. QED
      BY <1>7, <2>2, <2>3
  <1>8. CASE UNCHANGED vars
    BY <1>1, <1>8 DEF vars
  <1>9. QED
    BY <1>3, <1>4, <1>5, <1>6, <1>7, <1>8, Zenon DEF Next

\* What a sync gathered is used: a branch that leads from a known block through
\* the pulled blocks, and on through the buffered ones, is followed to its end.
LEMMA SyncReaches ==
    ASSUME GossipInv, NEW n \in Listeners, CompleteSync(n),
           NEW h \in pull[n].hashes \cup buffer[n], Connected(n, h)
    PROVE  Len(chain'[n].head) >= Len(h)
  <1> DEFINE c == chain[n]
             P == pull[n].hashes
             B == buffer[n] \ pull[n].hashes
  <1>1. PICK q \in Orders(P), r \in Orders(B) :
           chain' = [chain EXCEPT ![n] = ApplyAll(ApplyAll(c, q), r)]
    BY CompleteSyncShape, Zenon
  <1>2. P \subseteq Hashes /\ IsFiniteSet(P) /\ B \subseteq Hashes /\ IsFiniteSet(B)
    BY CompleteSyncShape
  <1>3. ChainOK(c) /\ h \in Hashes /\ Len(h) \in Nat
    <2>1. n \in Node
      BY SyncAssumption
    <2>2. h \in Hashes
      BY <1>2 DEF GossipInv, SyncOK, BufferOK
    <2>3. QED
      BY <2>1, <2>2, HashShape DEF GossipInv, ChainsOK
  <1> DEFINE d == ApplyAll(c, q)
             e == ApplyAll(d, r)
  <1>4. chain'[n] = e
    BY <1>1, SyncAssumption DEF GossipInv, ChainsOK
  <1>5. PICK k \in 0..Len(h) : \E m \in k..Len(h) :
           /\ SubSeq(h, 1, k) \in C!Known(c)
           /\ \A j \in (k + 1)..m : SubSeq(h, 1, j) \in P
           /\ \A j \in (m + 1)..Len(h) : SubSeq(h, 1, j) \in B
           /\ m < Len(h) => \A g \in P : Len(g) <= m + SnapshotDepth
    BY DEF Connected
  <1>6. PICK m \in k..Len(h) :
           /\ SubSeq(h, 1, k) \in C!Known(c)
           /\ \A j \in (k + 1)..m : SubSeq(h, 1, j) \in P
           /\ \A j \in (m + 1)..Len(h) : SubSeq(h, 1, j) \in B
           /\ m < Len(h) => \A g \in P : Len(g) <= m + SnapshotDepth
    BY <1>5
  <1>7. m \in 0..Len(h) /\ k \in 0..m /\ m \in Nat /\ Len(h) \in 0..Len(h) /\ m \in 0..Len(h)
    BY <1>3
  <1> HIDE DEF c, P, B
  <1>8. /\ q \in Seq(Hashes) /\ ByHeight(q)
        /\ \A i \in 1..Len(q) : q[i] \in P
        /\ \A g \in P : \E i \in 1..Len(q) : q[i] = g
    BY <1>2, OrdersShape
  <1>9. /\ r \in Seq(Hashes) /\ ByHeight(r)
        /\ \A g \in B : \E i \in 1..Len(r) : r[i] = g
    BY <1>2, OrdersShape
  <1>10. Covered(h, k, m, q)
    BY <1>6, <1>8, Zenon DEF Covered
  <1>11. /\ Len(d.head) >= m
         /\ (\A l \in 1..Len(q) : Len(q[l]) <= m + SnapshotDepth) => SubSeq(h, 1, m) \in C!Known(d)
    BY <1>3, <1>6, <1>7, <1>8, <1>10, ApplyAllReaches
  <1>12. ChainOK(d)
    BY <1>3, <1>8, ApplyAllSound
  <1> HIDE DEF d
  <1>13. ChainOK(e) /\ Advances(d, e)
    BY <1>9, <1>12, ApplyAllSound
  <1>14. CASE m = Len(h)
    <2>1. Len(d.head) \in Nat /\ Len(e.head) \in Nat
      <3>1. d.head \in Hashes /\ e.head \in Hashes
        BY <1>12, <1>13, Zenon DEF ChainOK
      <3>2. d.head \in Seq(Node) /\ e.head \in Seq(Node)
        BY <3>1, HashShape, Zenon
      <3>3. QED
        BY <3>2
    <2> HIDE DEF e
    <2>2. e.head = d.head \/ Len(e.head) > Len(d.head)
      BY <1>13 DEF Advances
    <2>3. Len(e.head) >= Len(h)
      BY <1>3, <1>11, <1>14, <2>1, <2>2
    <2>4. QED
      BY <1>4, <2>3
  <1>15. CASE m # Len(h)
    <2>1. m < Len(h)
      BY <1>3, <1>7, <1>15
    <2>2. SubSeq(h, 1, m) \in C!Known(d)
      BY <1>6, <1>8, <1>11, <2>1
    <2>3. Covered(h, m, Len(h), r)
      BY <1>6, <1>9, Zenon DEF Covered
    <2>4. Len(e.head) >= Len(h)
      BY <1>3, <1>7, <1>9, <1>12, <2>2, <2>3, ApplyAllReaches
    <2>5. QED
      BY <1>4, <2>4
  <1>16. QED
    BY <1>14, <1>15

\* A pull that meets the local chain is never wasted, for any number of nodes
\* and forks and whatever was mined, buffered and pruned while it ran.
THEOREM PulledTipsReached == Spec => SyncReachesPulledTip
  <1>1. Init => GossipInv
    BY GossipInvInit
  <1>2. GossipInv /\ [Next]_vars => GossipInv'
    BY GossipInvStep
  <1>3. GossipInv /\ [Next]_vars =>
           [\A n \in Listeners : SyncEnds(n) =>
               \A h \in pull[n].hashes \cup buffer[n] :
                   Connected(n, h) => Len(chain'[n].head) >= Len(h)]_vars
    BY SyncEndsHow, SyncReaches
  <1>4. QED
    BY <1>1, <1>2, <1>3, PTL DEF Spec, SyncReachesPulledTip
=============================================================================
