----------------------------- MODULE GossipSync -----------------------------
(***************************************************************************)
(* The gossip services of several nodes and the chains behind them:        *)
(* crates/meow-node/src/gossip_service/mod.rs.  Every node mines, and      *)
(* publishes what it mines; a listening node runs the event loop of        *)
(* GossipService::run, which applies blocks, detects gaps, and pulls       *)
(* blocks or a state snapshot from a peer over RPC while its own miner     *)
(* keeps committing.                                                       *)
(*                                                                         *)
(* The hash of a block is the sequence of the miners of its ancestry, so   *)
(* two nodes that mine on the same block fork.  Blocks are honest: they    *)
(* pass validation wherever their parent is known (MinedBlocksVerify in    *)
(* Miner), and their timestamps advance.                                   *)
(***************************************************************************)
EXTENDS Integers, Sequences, FiniteSets

CONSTANTS
    Node,
    Listeners,          \* the nodes whose event loop is modelled
    SnapshotDepth,      \* MinerConfig::snapshot_depth
    MaxBuffered,        \* MAX_BUFFERED_SYNC_BLOCKS
    MaxHeight,          \* bound on the height of mined blocks
    UrlsKnown,          \* TRUE: peer URLs were exchanged before the first block
    MayFail,            \* TRUE: RPC requests may fail
    MayDuplicate        \* TRUE: gossip may deliver a block again

VARIABLES
    chain,      \* of every node
    inbox,      \* the hashes gossip may deliver to each listener
    urls,       \* known_peer_urls
    state,      \* GossipServiceState: "Working", "Syncing" or "StateSyncing"
    buffer,     \* buffered_blocks, by hash
    hand,       \* the block message being handled, with the heights read for it
    pull        \* sync_fut or state_sync_fut, with its answer

ASSUME SyncAssumption ==
    /\ Listeners \subseteq Node
    /\ SnapshotDepth \in Nat \ {0}
    /\ MaxBuffered \in Nat \ {0}
    /\ MaxHeight \in Nat

vars == <<chain, inbox, urls, state, buffer, hand, pull>>

-----------------------------------------------------------------------------

\* The hash of the parent of the block h, and the miner of h.
Front(h) == SubSeq(h, 1, Len(h) - 1)
MinerOf(h) == h[Len(h)]

\* The abstract block that the miners of its ancestry identify.
BlockOf(h) ==
    [hash |-> h, parent |-> IF h = << >> THEN <<"zero">> ELSE Front(h),
     height |-> Len(h), timestamp |-> Len(h), stateRoot |-> h]

GenesisBlock == BlockOf(<< >>)
GenesisStore == << >>
ValidStructure(b, now) == TRUE
ReplayOk(b, s) == TRUE
ReplayStore(b, s) == b.hash
StateRoot(s) == s

C == INSTANCE ChainState

Height(n) == C!HeadHeight(chain[n])

None == [kind |-> "none"]

Init ==
    /\ chain = [n \in Node |-> C!NewChain]
    /\ inbox = [n \in Listeners |-> {}]
    /\ urls = [n \in Listeners |-> IF UrlsKnown THEN Node \ {n} ELSE {}]
    /\ state = [n \in Listeners |-> "Working"]
    /\ buffer = [n \in Listeners |-> {}]
    /\ hand = [n \in Listeners |-> None]
    /\ pull = [n \in Listeners |-> None]

\* The miner service commits a block on the head and publishes it.
Mine(n) ==
    LET h == Append(chain[n].head, n)
    IN  /\ Height(n) < MaxHeight
        /\ chain' = [chain EXCEPT ![n] = C!Commit(@, BlockOf(h), h)]
        /\ inbox' = [m \in Listeners |-> IF m = n THEN inbox[m] ELSE inbox[m] \cup {h}]
        /\ UNCHANGED <<urls, state, buffer, hand, pull>>

\* A peer-info message; the first URL of a peer is kept.
LearnUrl(n, p) ==
    /\ hand[n] = None
    /\ p \notin urls[n]
    /\ urls' = [urls EXCEPT ![n] = @ \cup {p}]
    /\ UNCHANGED <<chain, inbox, state, buffer, hand, pull>>

\* A slip: the cap on buffered blocks is not checked.
ReceiveBlockUncapped(n, h, again) ==
    /\ hand[n] = None
    /\ h \in inbox[n]
    /\ inbox' = IF again THEN inbox ELSE [inbox EXCEPT ![n] = @ \ {h}]
    /\ IF state[n] # "Working"
       THEN buffer' = [buffer EXCEPT ![n] = @ \cup {h}] /\ UNCHANGED hand
       ELSE /\ hand' = [hand EXCEPT ![n] = [kind |-> "block", hash |-> h, localHeight |-> Height(n),
                                            syncStart |-> C!SyncFromHeight(chain[n])]]
            /\ UNCHANGED buffer
    /\ UNCHANGED <<chain, urls, state, pull>>

\* A block message arrives.  It is buffered during a sync; otherwise the
\* heights are read under the lock, which is then released.
ReceiveBlock(n, h, again) ==
    /\ hand[n] = None
    /\ h \in inbox[n]
    /\ inbox' = IF again THEN inbox ELSE [inbox EXCEPT ![n] = @ \ {h}]
    /\ IF state[n] # "Working"
       THEN /\ buffer' = IF Cardinality(buffer[n]) >= MaxBuffered THEN buffer
                         ELSE [buffer EXCEPT ![n] = @ \cup {h}]
            /\ UNCHANGED hand
       ELSE /\ hand' = [hand EXCEPT ![n] = [kind |-> "block", hash |-> h, localHeight |-> Height(n),
                                            syncStart |-> C!SyncFromHeight(chain[n])]]
            /\ UNCHANGED buffer
    /\ UNCHANGED <<chain, urls, state, pull>>

\* The peer a sync is pulled from: the author of the block when its URL is
\* known, any other known peer otherwise; nobody when there is none.
SyncPeers(n, h) == IF MinerOf(h) \in urls[n] THEN {MinerOf(h)} ELSE urls[n]

Request(n, h, kind, since) ==
    IF SyncPeers(n, h) = {} THEN {None}
    ELSE {[kind |-> kind, peer |-> p, since |-> since, answered |-> FALSE] : p \in SyncPeers(n, h)}

StartSync(n, newState, kind) ==
    /\ state' = [state EXCEPT ![n] = newState]
    /\ buffer' = [buffer EXCEPT ![n] = {hand[n].hash}]
    /\ \E r \in Request(n, hand[n].hash, kind, hand[n].syncStart) :
          pull' = [pull EXCEPT ![n] = r]

FinishMessage(n) ==
    /\ hand[n] # None
    /\ hand' = [hand EXCEPT ![n] = None]

\* A slip: a block sync starts although the block is at or below the head,
\* and while a state sync may be asked for as well.
HandleBlockMixedSync(n) ==
    /\ FinishMessage(n)
    /\ IF Len(hand[n].hash) > hand[n].localHeight + SnapshotDepth
       THEN StartSync(n, "StateSyncing", "blocks")
       ELSE StartSync(n, "Syncing", "blocks")
    /\ UNCHANGED <<chain, inbox, urls>>

\* The rest of the block handler.  The chain may have moved since the heights
\* were read.
HandleBlock(n) ==
    LET b     == BlockOf(hand[n].hash)
        local == hand[n].localHeight
        taken == C!Accepts(chain[n], b, 0)
    IN  /\ FinishMessage(n)
        /\ \/ /\ b.height > local + SnapshotDepth
              /\ StartSync(n, "StateSyncing", "snapshot")
              /\ UNCHANGED chain
           \/ /\ b.height <= local + SnapshotDepth
              /\ b.height > local + 1
              /\ StartSync(n, "Syncing", "blocks")
              /\ UNCHANGED chain
           \/ /\ b.height = local + 1
              /\ chain' = [chain EXCEPT ![n] = C!ApplyBlock(@, b, 0)]
              /\ IF taken THEN UNCHANGED <<state, buffer, pull>>
                          ELSE StartSync(n, "Syncing", "blocks")
           \/ /\ b.height <= local
              /\ chain' = [chain EXCEPT ![n] = C!ApplyBlock(@, b, 0)]
              /\ UNCHANGED <<state, buffer, pull>>
        /\ UNCHANGED <<inbox, urls>>

\* The peer answers GET /blocks-since or GET /state-snapshot from the chain
\* it has at that moment.
Answer(n) ==
    /\ pull[n] # None
    /\ ~pull[n].answered
    /\ pull' = [pull EXCEPT ![n] =
                  [kind |-> @.kind, answered |-> TRUE,
                   hashes |-> IF @.kind = "snapshot" THEN {chain[@.peer].head}
                              ELSE {b.hash : b \in C!BlocksSince(chain[@.peer], @.since)}]]
    /\ UNCHANGED <<chain, inbox, urls, state, buffer, hand>>

\* The request fails: no blocks, no snapshot.
Fail(n) ==
    /\ MayFail
    /\ pull[n] # None
    /\ ~pull[n].answered
    /\ pull' = [pull EXCEPT ![n] = [kind |-> @.kind, answered |-> TRUE, hashes |-> {}]]
    /\ UNCHANGED <<chain, inbox, urls, state, buffer, hand>>

\* A slip: the blocks are applied as they come.
OrdersUnsorted(hs) ==
    {q \in [1..Cardinality(hs) -> hs] : \A i, j \in DOMAIN q : i < j => q[i] # q[j]}

\* The orders in which a set of blocks may be applied: by height, blocks of
\* one height in the arbitrary order of their hashes.
Orders(hs) ==
    {q \in [1..Cardinality(hs) -> hs] :
        \A i, j \in DOMAIN q : i < j => q[i] # q[j] /\ Len(q[i]) <= Len(q[j])}

ApplyHash(now, c, h) == C!ApplyBlock(c, BlockOf(h), now)

L == INSTANCE Loops WITH Step <- ApplyHash

\* The blocks of q are applied one after another.
ApplyAll(c, q) == L!Run(0, c, q)

\* A future has resolved and is replaced by a pending one.
TakeAnswer(n, kind) ==
    /\ hand[n] = None
    /\ pull[n].kind = kind
    /\ pull[n].answered
    /\ pull' = [pull EXCEPT ![n] = None]

\* A slip: the future is re-armed, the state is not reset.
EndSyncKeepsState(n) == UNCHANGED <<inbox, urls, hand, state, buffer>>

\* Both completions end in the state Working.
EndSync(n) ==
    /\ state' = [state EXCEPT ![n] = "Working"]
    /\ buffer' = [buffer EXCEPT ![n] = {}]
    /\ UNCHANGED <<inbox, urls, hand>>

\* sync_fut completes: the pulled blocks are applied, then the buffered ones
\* that were not pulled, all under one lock.
CompleteSync(n) ==
    /\ TakeAnswer(n, "blocks")
    /\ LET buffered == IF state[n] = "Syncing" THEN buffer[n] \ pull[n].hashes ELSE {}
       IN  \E q \in Orders(pull[n].hashes), r \in Orders(buffered) :
              chain' = [chain EXCEPT ![n] = ApplyAll(ApplyAll(@, q), r)]
    /\ EndSync(n)

\* A slip: the snapshot is trusted because the gap was seen when it was asked for.
CompleteStateSyncUnchecked(n) ==
    /\ TakeAnswer(n, "snapshot")
    /\ IF pull[n].hashes = {} THEN UNCHANGED chain
       ELSE \E h \in pull[n].hashes :
               chain' = [chain EXCEPT ![n] = C!AnchoredAt(BlockOf(h), h)]
    /\ EndSync(n)

\* state_sync_fut completes: the snapshot replaces the chain if it is still
\* taller, and only then the buffered blocks are applied.
CompleteStateSync(n) ==
    /\ TakeAnswer(n, "snapshot")
    /\ LET buffered == IF state[n] = "StateSyncing" THEN buffer[n] ELSE {}
           usable   == {h \in pull[n].hashes : C!SnapshotAccepted(chain[n], BlockOf(h), h, 0)}
       IN  IF usable = {} THEN UNCHANGED chain
           ELSE \E h \in usable, r \in Orders(buffered) :
                   chain' = [chain EXCEPT ![n] = ApplyAll(C!AnchoredAt(BlockOf(h), h), r)]
    /\ EndSync(n)

Next ==
    \/ \E n \in Node : Mine(n)
    \/ \E n \in Listeners :
          \/ \E p \in Node \ {n} : LearnUrl(n, p)
          \/ \E h \in inbox[n] : ReceiveBlock(n, h, FALSE)
          \/ MayDuplicate /\ \E h \in inbox[n] : ReceiveBlock(n, h, TRUE)
          \/ HandleBlock(n)
          \/ Answer(n)
          \/ Fail(n)
          \/ CompleteSync(n)
          \/ CompleteStateSync(n)

Spec == Init /\ [][Next]_vars

(***************************************************************************)
(* Fairness of one listener: the runtime keeps polling the event loop, the *)
(* network delivers what was published and was not lost, a peer announces  *)
(* its URL once the subscription is up, and an RPC request is answered or  *)
(* fails (the client has no timeout of its own, so this is an assumption   *)
(* on the peer and on TCP).  Mining is not fair: it needs transactions.    *)
(* Each condition names the part of an action that no other action has, so *)
(* that it is fairness of that action.                                     *)
(***************************************************************************)
Deliver(n) ==
    /\ hand[n] = None
    /\ \E h \in inbox[n] : inbox' = [inbox EXCEPT ![n] = @ \ {h}]

ListenerFairness(n) ==
    /\ WF_inbox(Deliver(n))
    /\ WF_hand(FinishMessage(n))
    /\ WF_pull(Answer(n))
    /\ WF_pull(TakeAnswer(n, "blocks") \/ TakeAnswer(n, "snapshot"))
    /\ \A p \in Node \ {n} : WF_urls(LearnUrl(n, p))

FairSpec == Spec /\ \A n \in Listeners : ListenerFairness(n)

-----------------------------------------------------------------------------

Hashes == UNION {[1..k -> Node] : k \in 0..MaxHeight}

\* The state of every node is well formed: the event loop is in one of its
\* three states and holds only blocks somebody mined.
TypeOK ==
    /\ \A n \in Node : chain[n].head \in Hashes /\ C!Known(chain[n]) \subseteq Hashes
    /\ inbox \in [Listeners -> SUBSET Hashes]
    /\ urls \in [Listeners -> SUBSET Node]
    /\ state \in [Listeners -> {"Working", "Syncing", "StateSyncing"}]
    /\ \A n \in Listeners :
          /\ buffer[n] \subseteq Hashes /\ Cardinality(buffer[n]) <= MaxBuffered
          /\ hand[n].kind \in {"none", "block"}
          /\ pull[n].kind \in {"none", "blocks", "snapshot"}

\* The event loop never meets the branch it logs as "sync_fut completed but
\* state is not Syncing - this is a bug": whatever is delivered, duplicated or
\* mined meanwhile, at most one future is armed, it is the one of the current
\* state, and a message in hand is always handled in the state Working.
SyncFutureHasState ==
    \A n \in Listeners :
        /\ pull[n].kind = "blocks" => state[n] = "Syncing"
        /\ pull[n].kind = "snapshot" => state[n] = "StateSyncing"
        /\ hand[n] # None => state[n] = "Working"

\* Gossip, pulled blocks, snapshots and the node's own miner race for the
\* chain, and answers may be older than the chain they are applied to; still
\* no step lowers a node's head, or swaps it for another of the same height.
HeadsOnlyAdvance ==
    [][\A n \in Node : \/ chain'[n].head = chain[n].head
                       \/ Len(chain'[n].head) > Len(chain[n].head)]_vars

\* h is reached from a block that n knows, first through pulled blocks, then
\* through buffered blocks that were not pulled; the first of those is applied
\* after every pulled block, so its parent must not be finalized by them.
Connected(n, h) ==
    \E k \in 0..Len(h) : \E m \in k..Len(h) :
        /\ SubSeq(h, 1, k) \in C!Known(chain[n])
        /\ \A j \in (k + 1)..m : SubSeq(h, 1, j) \in pull[n].hashes
        /\ \A j \in (m + 1)..Len(h) : SubSeq(h, 1, j) \in buffer[n] \ pull[n].hashes
        /\ m < Len(h) => \A g \in pull[n].hashes : Len(g) <= m + SnapshotDepth

SyncEnds(n) == pull[n].kind = "blocks" /\ pull'[n].kind = "none"

\* A pull that meets the local chain is never wasted: when the pulled blocks,
\* and after them the buffered ones, lead from a block the node still knows
\* to h, the node is at least as high as h once the sync is over, in whatever
\* order blocks of one height come and whatever was mined and pruned while
\* the pull ran.  (A pulled block whose parent is only in the buffer is not
\* covered: it was rejected, and the set seen keeps it from being retried.)
SyncReachesPulledTip ==
    [][\A n \in Listeners : SyncEnds(n) =>
          \A h \in pull[n].hashes \cup buffer[n] :
              Connected(n, h) => Len(chain'[n].head) >= Len(h)]_vars

\* The event loop always comes back to Working after it started a sync: the
\* buffer drains and blocks are handled again.
SyncCompletes == \A n \in Listeners : state[n] # "Working" ~> state[n] = "Working"

\* A block that the event loop handles in the state Working is caught up with,
\* by applying it or by the sync it starts, although the heights it was judged
\* by may be stale and the node mines on a fork meanwhile.  This needs peers
\* that have not pruned the fork point and do answer.
HandledBlocksReached ==
    \A n \in Listeners : \A k \in 1..MaxHeight :
        (hand[n] # None /\ Len(hand[n].hash) = k) ~> Height(n) >= k
=============================================================================
