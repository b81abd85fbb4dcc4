# meow: a TLA+ model

Specifications of the meow node (crates under `src/crates`), with TLC instances
that check them and TLAPS proofs for the chain state, the miner with the ledger it
executes on, the gossip service and the lock. Paths below are relative to the
repository; `map` in `PROJECT.json` gives the source lines of every definition.

## The system

meow is a proof-of-work blockchain with an object store and a virtual machine.

| Part | State | Operations | What is hard about it |
|---|---|---|---|
| Chain state (`meow-nakamoto/src/chain`) | known blocks, a store snapshot per block, head | `apply_block`, `commit`, `from_snapshot`, pruning, lookups | forks, blocks in any order, pruning while forks are alive, the same header with other results |
| Store, roots (`store`, `roots`) | objects by id | `apply_execution_result` | asserts on created, changed and destroyed ids |
| Mempool (`mempool`) | FIFO queue, dedup set | `submit`, `retain_valid`, `drain_batch` | resubmission of drained transactions, the cap |
| Miner (`miner`) | chain, mempool, the round in progress | `submit_transaction`, `apply_block`, `replace_from_snapshot`, `prepare_round`, `grind`, `commit_mined` | the round runs outside the lock, on a head that moves |
| Execution (`meow-vm-adapter/src/executor`, `system_transactions`) | none | `execute`, gas, effects, block reward | conflicts inside a batch, gas beyond the balance, versions |
| Gossip service (`meow-node/src/gossip_service`) | sync state, buffer, peer URLs, two futures | event loop: messages, block sync, state sync | heights read under one lock and used under another, late answers, lost and reordered blocks |
| Miner service, node (`miner_service`, `node`) | the lock, shutdown signal | mining loop, Ctrl+C, waiting for services | lock held across a sleep, futures that are no longer polled |
| RPC (`rpc`) | none | requests under the lock | lock fairness |
| Virtual machine (`meow-vm`) | frames with stack and slots, gas meter | one step per instruction, calls, natives | structs move and must neither be copied nor lost |
| Verifiers (`meow-vm-bytecode-verifier`, `meow-vm-adapter/src/bytecode_verifier`) | abstract stack and slots, states waiting at jump targets | one step per instruction, joins | they must predict the machine on every path |
| Natives, effects (`meow-vm-adapter`) | fresh ids, transfers, destroyed ids | natives, `collect_object_effects` | every object has exactly one fate, or the node panics |
| Compiler (`meow-vm-compiler`) | variables by name, slots, types and moves per slot | checks of a module, type checker, code generator | three analyses of one function (checker, generator, verifier) that must agree; scopes, joins, evaluation order |
| Module inputs (`meow-vm-adapter/src/inputs_resolver.rs`, `resolvers.rs`, `meow/src/builder.rs`) | a queue, what was fetched | load imports for a build, collect the inputs of a transaction, resolve them | one awaited request per module while the chain moves; diamonds, cycles, requests that fail |
| Framework (`meow-framework/modules`) | none | `meow_object`, `meow_coin` in source | must pass its own compiler and verifiers |
| Client, keys, genesis | files | command line | mostly input and output |

The parts meet in `Arc<Mutex<Miner>>`: the RPC handlers, the gossip event loop
and the miner service take turns on one `Miner`. Blocks travel between nodes by
gossip; a node that sees a gap pulls blocks or a whole state from a peer's RPC
service. Code reaches the chain in three hops: a client compiles a source against
modules it fetches from a node, the node verifies the bytecode when it is
published, and the machine runs it for the transactions of a block.

## The modules

```
ChainState  operators of a chain state          Ledger    objects, execution, blocks
  Archive     what a chain state promises         Mempool   the pending pool
  ChainModel  universe, assumptions, invariant    Coins     counting money
    Chain       one chain state (uses Archive)    Miner     a node's miner (uses ChainState)
      MCChain     instance                          MCMiner   instance
      ChainProofs (TLAPS)                         LedgerProofs, SupplyProofs,
                                                  MinerProofs, HistoryProofs (TLAPS)
GossipSync  several nodes, gossip and sync      NodeTasks  tasks and the lock
  GossipProofs (TLAPS)                            LockProofs (TLAPS)
Loops       a loop over a list (used by Ledger, Mempool and GossipSync)
  LoopLemmas (TLAPS)
Bytecode    types, values, natives, gas costs
  Verifier    the language's verifier             Vm        the interpreter and the natives
    ObjectVerifier  the adapter's verifier
      Contract    publish, call, effects (both columns)
  Ast         syntax trees, names and types
    TypeChecker, Codegen    the passes of the compiler
      Compiler    checks of a module, compile
        Source      what a source means (uses Vm)
          Build       write, compile, publish, call (uses Contract)
            MCContract  instance
    Framework   meow_object and meow_coin as syntax trees
      MCLibrary   what the compiler makes of them
Dependencies  modules on the chain, builds and inputs
  MCDependencies  instance
```

**ChainState** has one operator per method of `ChainState`, from record to
record. What a block holds, and what validation and re-execution mean, are
constants (`ValidStructure`, `ReplayOk`, `ReplayStore`, `StateRoot`), so the
three users differ in their blocks and share the chain code. **Chain** feeds one
chain state with blocks, commits and snapshots in any order; `anchor` is a
history variable, the block the chain was started or last replaced with.

**Archive** is the abstract specification: a node that keeps every block with the
store after it, takes the tallest block that came first for its tip, and refuses a
block that branches off more than `SnapshotDepth` below the tip. It has no pruning
and no maps that must be kept in step. Chain implements it: `tip` is `chain.head`,
and `archive` is a history variable of Chain that adds to what was held before
what the chain holds now (`Remembering`) and is emptied by an accepted snapshot.
`ImplementsArchive` is the archive's specification under this mapping.

**Ledger** defines the parameters for real: objects with versions and owners,
transactions, the executor, the reward, `validate_block_structure`. Digests are
collision-free, so the digest of an object is the object and a state root is the
store; a nonce carries the seed it was ground for, so it fits no other header.
`GrindStep` is one iteration of the grinding loop, `Solve` its tail, where the
block is put together.
What the called function does is data of the transaction (`run`), one outcome
per random seed. **Mempool** is the pool. **Coins** counts the money in a store and
what the calls of a block make of it, for `SupplyAccounted`. **Miner** has one action per method
of `Miner` that changes state, and `Grind` for one iteration of the grinding
loop, which runs outside the lock. `PeerMines` is a whole round of another node.

**GossipSync** has several nodes; `Listeners` are those whose event loop is
modelled. A block message takes two steps, `ReceiveBlock` (the lock under which
heights are read) and `HandleBlock` (everything after it), because the miner may
commit in between. A pull is answered at some later time from the chain the peer
has then, or fails. A block's hash is the list of the miners of its ancestry.

**Loops** is the shape of the code's `for` loops over blocks, transactions and
pending entries: a body that threads one value through the list. The executor
(`RunStep`), the sum of gas (`AddGas`), `retain_valid` (`KeepValid`) and the
application of pulled blocks (`ApplyHash`) are bodies of it.

**NodeTasks** has the lock and nothing of what is done under it: where each
task is, who holds the lock and who waits. `tokio::sync::Mutex` is modelled from
its use: first come, first served, and the lock is given to a waiter whether or
not the waiter's future is polled. After Ctrl+C the main task polls one service
at a time.

**Bytecode, Verifier, ObjectVerifier, Vm** translate the machine and the two
passes that admit code to it, from the same instructions. A name is a pair of
module and name; a struct value carries a ghost identity so that a copy can be
told from the original. `Scan` and `ShadowScan` are one iteration of the loops of
`check_function` and `check_function_body`; the list of errors is one flag. In Vm
each kind of instruction is an action, and its outcome is the next frame or one
of the errors of `VmError`.

**Contract** joins them. One function, `Main`, is written one instruction at a
time, any of its alphabet (`Emit`), with both passes following; `Publish` takes
it if they accept; `Invoke` calls it with arguments of its parameter types;
`CollectEffects` is `collect_object_effects`. So the run covers every function of
bounded length over an alphabet and not a list of examples.

**Ast, TypeChecker, Codegen, Compiler** translate the compiler from the syntax tree
on: one operator per kind of expression and statement, from the state of the pass
(`env` of the checker; code, slots, types and moves of the generator) to the next.
**Build** adds a second author of `Main` to Contract: `Write` adds a statement of an
alphabet of source and takes the checker, the generator and the verifier through
it, `Compile` ends the function, and from there on it is published, called and its
effects collected like any other. **Source** is the reference for what comes out:
an evaluator of syntax trees with variables, scopes and values that knows nothing
of slots, stack or code. **Framework** holds the two framework modules as written
in `meow-framework/modules`. The library `Main` may call is the framework and a
module of helpers; MCLibrary has it compiled, and two assumptions that TLC
evaluates say that it is what the modelled compiler makes of the sources and that
it passes both verifiers.

**Dependencies** has a chain of published modules that grows and reorganises, and a
client beside it. `LoadDep` is one iteration of `load_deps_async` and `FetchModule`
one of `bfs_fetch_modules`, each with one awaited request, which is answered from
the chain there is at that moment or fails; so a build may put its modules together
from several chain states. `FinishBuild` hands them to the compiler in any order,
as the map they are in has none, and applies the checks of `compile` on imports;
`FetchArgs` is the synchronous `collect_inputs` over what was gathered, followed by
the resolution in `execute`. The node uses the same operators on its own store.

Definitions marked "A slip" are variants of a definition with a plausible
mistake. No specification uses them; a property is trusted only if it fails with
the variant in place (`mutants` in `PROJECT.json`).

## Runs

Passing runs:

| Run | What it checks | Bounds |
|---|---|---|
| `chain` | `ChainInv` (a snapshot for every block, the retention window, heights that count links, snapshots that replay), no gaps, a head that only advances; pruning is finality, and Chain implements Archive | depth 2; a tree of blocks deeper than the window, with invalid blocks and two bodies under one header |
| `miner_reorg` | pool and dedup set agree, equal heads mean equal states, no transaction twice on a chain, lookups are canonical | depth 1, height 3, so that pruning, reorgs and stale rounds happen; two conflicting and one independent transaction |
| `miner_exec` | mined blocks pass every check of their peers except the comparison of timestamps (see `miner_timestamps`); gas paid is gas rewarded and nothing else mints or burns; store assertions, versions, ownership; a full batch is taken up eventually | batches of two, so that grinding starts over with one or none, out of six transactions: conflicting, dependent, failing, underpaid, seed-dependent and aliasing |
| `gossip_sync` | futures match the state, heads only advance, a connected pull is not wasted | two nodes, one listener, depth 2, height 4: state sync starts at a gap of 3, and pruning happens |
| `gossip_live` | every sync ends; every handled block is caught up with | three nodes, depth 3 = height 3, so that nobody prunes a fork point |
| `node_tasks` | the lock is never leaked; requests are served; an idle node shuts down | two requests besides the two services, so that every queue order occurs |
| `contract` | verified code is only stopped by overflow, division by zero, abort, gas or call depth, but for two named cases: a field that does not exist, and a transfer of a struct that is not an object; the abstract states describe every frame; structs are linear; every object has one fate; calls under the unlimited meter end; the three analyses of the compiler's output agree, and compiled code does what its source says | twelve alphabets of bytecode with up to 8 instructions and five of source with up to 5 statements; three modules, call depth 3, `MaxU64` 3, operand stack 3, 4 slots; budgets 40 (runs out) and 1000 (never does, so it stands for unlimited) |
| `dependencies` | chain states are closed under imports and acyclic; `compile` accepts exactly what it should; builds and local executions have the whole closure or fail; what was built can be published and called; dependencies come first; the client finishes | four addresses under six import graphs (diamond, chain, repeated imports, cycles), seven lists of uses, limits of 2 imports and 3 modules, so that both are exceeded; two reorganisations |

Each bytecode alphabet of `contract` is about one thing: branches and joins, boxes moved
into calls, new objects, objects taken apart and rebuilt, coins across modules,
arithmetic, logic, tuples, nested fields, recursion and abort, fields that do not
exist, plain structs where an object is expected. A verified function has no loops, so seven or eight instructions hold nested
branches or an object made and given away. Dead code is not written, as both passes skip it.
Entry arguments have the types of their parameters. The source alphabets are about
scopes (rebinding, shadowing and assignment in branches, early returns), moves
(boxes consumed on one path or both, rebuilt, given away), coins through the
functions of `meow_coin`, and structs (literals, patterns, nested fields, tuples,
operands that fail one before the other), and plain structs that are given away whole or
out of another; a statement may be a whole `if`, so four
or five of them hold several joins and scopes. A prefix that the checker, the
generator or the verifier rejects is not continued, as no continuation of it can be
published.

In `dependencies` imports are fixed per address, as the address of a module derives
from the transaction that publishes it. Two addresses have modules of one name, and
graphs with cycles are there for the compiler's own check: it is public and may
be given any modules (`CompileWith`), while `ChainIsClosed` shows that no chain has
a cycle.

Deadlock is checked in `dependencies`, where something can always start. It is not
checked elsewhere: a program ends, a node that has nothing to receive and nothing to mine
rests, and the bounds on height and time end behaviours.

Violation runs show where the code and its documents disagree:

| Run | Shows |
|---|---|
| `miner_timestamps` | `prepare_round` takes the time from the local clock. When that is not past the parent's timestamp, because two blocks are mined in one millisecond or the parent came from a clock that runs ahead, the node commits a block that every peer rejects. |
| `gossip_no_url` | A gap seen before any URL is known puts the node in `Syncing` with no future armed; it stays there, also when URLs arrive. |
| `node_shutdown` | After Ctrl+C, a request waits for the lock that the unpolled miner or gossip future holds, and the node waits for the request. |
| `contract_transfer` | The adapter's verifier has the fields of an unpacked struct in the order of their names, the machine in reverse. After `let Safe { pair, n } = s` the plain struct `pair` passes for a value of unknown type, and its transfer is published. The native refuses it when the function is called. |

Other differences noticed while modelling, without a run: a local commit does
not filter the mempool (`docs/consensus.md` says every head change does);
results are found in retained blocks only (the document says indefinitely); a
block dropped from a full sync buffer, or delivered out of order during a sync,
is fetched again only when a later block opens a new gap; a round that is stale at
commit takes its still valid transactions with it (`README.md` says they stay in
the mempool); a peer that has pruned the fork point answers a block sync with
blocks that do not connect, although the comment on `sync_from_height` promises
that they do within `snapshot_depth`; the adapter's shadow stack, which its comment
says mirrors the machine's, pops for `LoadField`, pushes nothing for a call without
a result, and has the fields of an unpacked struct in the other order, so that, besides
what `contract_transfer` shows, a literal with a fresh id and a field read is rejected
that `docs/adapter.md` allows; a block sync asks for blocks from `sync_from_height` on,
`snapshot_depth` below its head, where `docs/networking.md` has `local_height+1`;
the verifier takes a field that does not resolve for an address, so that the call
stops with `TypeError` (`VerifiedCodeIsSafe` allows exactly this).

In the compiler: a void function that ends in `if c { return; }` gets a jump to the
end of its code, which the verifier rejects, although the generator's comment says
that a function always ends with `Return`; an early return in a branch while a struct of
an outer scope is live compiles and is rejected by the verifier, where
`docs/language.md` promises a compile error; two `use` aliases of one address, and
which of them a name resolves to, depend on the order of a hash map; the search for
struct cycles takes the unqualified field types of dependencies for local structs of
the same name; the natives know the id type under the alias `meow_object` only;
`let P { b: v, a: v } = p` gives `v` different types in the checker and the
generator. Of dependencies: a comment bounds the recursion of
`collect_dep_modules` by the limit of the compiler, but bytecode that was not made by
the compiler is published with a check of its direct imports only, and a module
whose closure is over the limit can be published and not be called.

### Fairness

`miner_exec` assumes the miner service keeps running: it is a loop whose rounds
always end, because a nonce is found and each re-grind has fewer transactions.
`MinerService` is weak fairness of its three steps together, with the condition under which
one of them can be taken written out (`HasWork`), which TLC evaluates much faster.
`gossip_live` and `gossip_no_url` assume that the event loop is polled, published
blocks are delivered, peers announce their URL, and a request is answered; the
client sets no timeout, so the last is an assumption on the peer. Mining is never
assumed. `node_tasks` and `node_shutdown` assume that a future which can go on and
which somebody awaits is polled; nothing makes requests, gossip or Ctrl+C happen.
`dependencies` assumes of the client that a request is answered or fails and that
its future is polled then; publications, reorganisations and new commands are never
assumed, and may go on between any two requests.
Where a fairness condition names only part of an action (`FinishMessage`,
`TakeAnswer`, `Deliver`), no other action has that part.

## Proofs

`ChainProofs` proves, for every set of blocks and stores, every depth of at least
one and every meaning of validation and re-execution, the properties of Chain that the
run `chain` checks, and each conjunct of `ChainInv` under its own name. Assumptions (ChainModel): header fields have their types, a hash
binds the header (not the results), re-execution returns stores, genesis has
height 0. TLC evaluates them on the instance.

The invariant is `ChainInv`. `NoGaps` is not inductive: whether the
block below the window's edge was the parent can no longer be read off the state
once it is pruned. `Rooted` says instead that heights count parent links whichever
block of that hash was the parent, and that a missing parent implies the edge of
the window. `Replayable` needs `Paired` (snapshots and blocks are pruned together),
which needs that pruning never reaches the head (`Windowed`, depth at least one).
The lemmas prove it for one recorded block (`Records`), then for pruning, and
`StepIsGood` combines them per action, together with the two action properties.

It also proves `PruningIsFinality` and that Chain implements Archive, from the
same assumptions. The run's statement is not inductive: to know that a pruned block
stays out one has to know where it is. `Covers` says that the history contains what
the chain holds, and that whatever else it has is more than the depth below the
head. It needs `ChainInv`, by which a block that extends a retained one cannot be in
the pruned part (its hash binds its height), so accepting it adds exactly one entry;
pruning only moves entries from the first part to the second, and the head never
descends. Each action is then a step of the archive or a stutter
(`StepIsArchiveStep`).

`LoopLemmas` is what the next modules share: `TraceExists` and `RunTrace` say that a
loop has a trace of intermediate values and that `Run` returns its last one, so that
facts about a loop become inductions along its trace. The induction principles of the
standard library take a predicate as a parameter and cannot be used by the provers
here; `Induction` is stated for a set of numbers instead, and proved from the least
element of a set.

`GossipProofs` proves the safety properties of GossipSync that the run `gossip_sync`
checks, for every set of nodes and
listeners, every depth and buffer size, and whatever is mined, delivered, lost or
duplicated (`SyncAssumption` bounds the numbers from below only). `SyncFutureHasState`
needs no property of the chain: `LoopInv` adds that the variables are functions
on the listeners, and every action moves the entries of one listener to values that
fit (`Moves`). `TypeOK` and `HeadsOnlyAdvance` need `GossipInv`: every chain is sound
(the known hashes are finitely many, contain the head, none is taller than it or
below the window), and every hash in a mailbox, buffer, message or answer is one of
a mined block. The chain part is an induction along the list of applied blocks.
`SyncReachesPulledTip` has a second one: pulled blocks are applied by height, so when
a block comes up, its parent has been applied, and it is refused only if the head is
already as high (`Covered`). Two conditions in `Connected` came out of this proof.
Buffered blocks are applied after all pulled ones, so the first of them is promised only if
its parent is not pruned by then, and a pulled block whose parent is only in the
buffer is not promised: it is rejected, and the set `seen` keeps the buffered copy
from being tried again.

`LedgerProofs`, `SupplyProofs`, `MinerProofs` and `HistoryProofs` prove every safety property that the
runs `miner_reorg` and `miner_exec` check, for every set of transactions with any
outcomes, every batch of a peer, depth, batch size, pool size and clock. The assumptions are in Ledger and Miner and TLC evaluates
them on the instances: quantities are natural and genesis is finite (`LimitsAssumption`, `GenesisAssumption`),
a call transfers and destroys only what it was given or made, each once and finitely
many, as the machine's `expect`s say and the run `contract` checks (`TxAssumption`),
digests and derived ids do not collide (`DigestAssumption`), the configuration is in
its range (`ConfigAssumption`), and peers mine batches that the code lets them mine
(`PeerAssumption`).

The core is `Sane`, an invariant of stores with the transactions executed so far: every
object has an origin (genesis, a transaction that was executed, or a reward at most
as high as the chain), and the gas coin of every executed transaction has a version
past the one it was signed for, or is gone for good. The properties are not inductive
without it. A transaction is not executed twice because its gas reference is stale, and
that stays so only because a destroyed id never comes back (`StaysGone`), which in turn is
because ids have one origin. The same fact gives that created ids are new, on which
the asserts of `apply_execution_result` rest. `BatchEffects` carries `Sane`, the
growth of versions (`Follows`) and the dropping of transactions along the executor's loop;
`RewardEffects` adds the reward; `SolvedVerifies` shows that a block whose batch executed
completely passes `validate_block_structure` and re-executes to its own root.

`MinerInv` puts this on a network: `NetOK` says that each published block is genesis
or comes from a completed round on a published parent, and has a sane store;
`ChainOK` that the chain holds published blocks with the stores published with them; `PoolOK` that queue and dedup set agree; `WorkOK` that the round
in progress has a published parent and a minable batch, however long ago it was
prepared and whatever has arrived since. The last two properties are in `HistoryProofs`.
`LookupsAreCanonical` takes one more
induction, along the walk back from the head: it meets only known blocks whose hash is a
prefix of the head's, and on those a transaction is listed once.

`SupplyAccounted` rests on `SupplyProofs`: a block changes the supply by what its successful
calls mint less what they destroy (`NetOfCalls`), and by nothing else. The supply of
a store is the number of units in its coins, so that it is a cardinality, for which the
library has theorems, and not a recursive sum (`WorthAdds` adds it up over disjoint
sets of ids). `ExecuteSupply` is the step: one execution leaves what it does not
touch, takes what its call was given, adds what the call sends, and charges the
gas coin `GasUsed`, which never exceeds its balance. `Money` carries "supply plus gas so
far equals the supply before plus the net of the calls so far" along the executor's
loop; it needs from `LedgerProofs` that created ids are new and that versions identify
objects, as otherwise the objects a call was given need not be those in the store.
`RewardMoney` returns the gas, `BuiltMoney` does a block, and `StepsAreBuilt` says
that every step along a chain is such a block.

`LockProofs` proves `LockIsConsistent` of NodeTasks for any set of requests whose names
are not those of the services. `LockInv` adds the types of holder and queue and that a miner
that sleeps holds the lock, which is what allows the shutdown branch to drop its
guard; the operations of the mutex are proved once for any set of owners
(`OwnedBy`), with lemmas on sequences that grow at the end, lose their head or an
element in the middle.

Only model-checked: the properties of Contract, Build and Dependencies, which
are about recursive operators over code, syntax trees and import graphs; and all
liveness, which is outside what the provers do.

## Not modelled

The parser and the rule for identifiers: the compiler is modelled from the syntax tree
on. Two forms that mean the same only by the order of a hash map (two aliases of
one address) are not written. Ledger does not run bytecode: what a call does is a
parameter of its transaction. Networking, JSON, the HTTP client, cryptography,
keystores, the conversion between values and bytes, command-line parsing and output
are input and output and left out; so are size limits on transactions and modules,
duplicate names in a module, the list of errors of a verifier (one flag), the
publication of the framework in genesis, and the arithmetic of difficulty.

Two hazards have no property. The batch of a stale round is lost, as said above. The HTTP client has no timeout, so a peer that takes a
request and never answers leaves the node syncing; that requests are answered is an
assumption of the liveness runs. Of blocks that gossip delivers during a sync only
those that connect to the pulled ones are promised; others, and all that were buffered
for a snapshot that fails or is rejected, are lost until a later block opens a new gap, and no code or document bounds that time. See `components` and `hazards` in `PROJECT.json`.
