------------------------------- MODULE Ledger -------------------------------
(***************************************************************************)
(* What a block holds and what executing it does: objects and stores,      *)
(* transactions and their execution (crates/meow-vm-adapter/src/executor), *)
(* the block reward (system_transactions.rs) and the checks a block must   *)
(* pass (chain/mod.rs).  Ledger defines the parameters of ChainState.      *)
(*                                                                         *)
(* An object is [version, owner, kind, balance, tx]; tx is the digest of   *)
(* the transaction that wrote it last.  A store maps object ids to         *)
(* objects.  A digest is collision-free, so the digest of an object is the *)
(* object, a state root is the store, and a reference to an object is      *)
(* [id, obj].                                                              *)
(*                                                                         *)
(* A transaction is [id, signer, sender, gas, args, run]: gas and the      *)
(* elements of args are references, and run[luck] is what the VM does once *)
(* the inputs are resolved and the random seed is luck: [cost, aborts,     *)
(* fresh, sends, burns], the gas it charges, whether it fails, the ids it  *)
(* creates, the objects it transfers with their new owner and content, and *)
(* the ids it destroys.  The VM itself is outside this module.             *)
(***************************************************************************)
EXTENDS Integers, Sequences, FiniteSets, Functions

CONSTANTS
    Tx,                 \* the transactions clients may submit
    Luck,               \* the seeds a nonce may give
    GenesisStore,       \* Genesis::objects
    MaxVersion,         \* ObjectVersion::MAX
    BaseCost,           \* BASE_TRANSACTION_GAS_COST
    MaxTxs,             \* MAX_TRANSACTIONS_PER_BLOCK
    Drift               \* MAX_BLOCK_FUTURE_DRIFT_MS

ArgIds(tx) == {tx.args[i].id : i \in 1..Len(tx.args)}

\* The ids tx may create, whatever the seed.
FreshIds(tx) == UNION {tx.run[luck].fresh : luck \in Luck}

\* The id of the coin that a reward transaction mints.
RewardId(seed, miner) == <<seed, miner, "reward">>

IsRewardId(i) == Len(i) = 3 /\ i[3] = "reward"

\* Costs, limits, versions and balances are unsigned.
ASSUME LimitsAssumption == BaseCost \in Nat /\ MaxTxs \in Nat /\ Drift \in Nat

ASSUME GenesisAssumption ==
    /\ IsFiniteSet(DOMAIN GenesisStore)
    /\ \A i \in DOMAIN GenesisStore :
          GenesisStore[i].version \in Nat /\ GenesisStore[i].balance \in Nat /\ ~IsRewardId(i)

\* What a transaction refers to, charges and sends is unsigned, and the VM
\* transfers and destroys only objects it was given or created: the expects
\* "all transferred objects must be found in inputs" and "destroyed object must
\* be found in inputs" of collect_object_effects.  It does one of the two with
\* an object, since values are linear (Contract, OneFatePerObject).
ASSUME TxAssumption ==
    \A tx \in Tx :
        /\ tx.gas.obj.version \in Nat /\ tx.gas.obj.balance \in Nat
        /\ \A luck \in Luck :
              /\ tx.run[luck].cost \in Nat
              /\ DOMAIN tx.run[luck].sends \cup tx.run[luck].burns
                    \subseteq ArgIds(tx) \cup tx.run[luck].fresh
              /\ DOMAIN tx.run[luck].sends \cap tx.run[luck].burns = {}
              /\ IsFiniteSet(DOMAIN tx.run[luck].sends)
              /\ \A i \in DOMAIN tx.run[luck].sends : tx.run[luck].sends[i].balance \in Nat

\* A digest names one transaction, and Address::derive makes an id from the
\* digest of the transaction that creates the object: ids created by different
\* transactions, rewards included, and by genesis are different.
ASSUME DigestAssumption ==
    /\ \A t, u \in Tx : t # u => t.id # u.id /\ FreshIds(t) \cap FreshIds(u) = {}
    /\ \A tx \in Tx : \A i \in FreshIds(tx) : i \notin DOMAIN GenesisStore /\ ~IsRewardId(i)

\* validate_signed_transaction: signed by the sender, the gas coin is not an
\* argument, and no argument is named twice.
ValidSigned(tx) ==
    /\ tx.gas.id \notin ArgIds(tx)
    /\ \A i, j \in 1..Len(tx.args) : tx.args[i].id = tx.args[j].id => i = j
    /\ tx.signer = tx.sender

\* validate_object_ref: the reference names the latest version and digest.
Current(ref, s) == ref.id \in DOMAIN s /\ s[ref.id] = ref.obj

\* validate_against_store.
ValidAgainst(tx, s) ==
    /\ Current(tx.gas, s)
    /\ \A i \in 1..Len(tx.args) : Current(tx.args[i], s)

-----------------------------------------------------------------------------
(* Executing one transaction.                                              *)

\* A slip: the version and the digest of the gas coin are not compared.
GasCoinAnyVersion(tx, s) ==
    /\ tx.gas.id \in DOMAIN s
    /\ s[tx.gas.id].kind = "coin"
    /\ s[tx.gas.id].owner = tx.sender
    /\ s[tx.gas.id].version # MaxVersion

\* resolve_gas_coin_object: when it fails, execute returns Err and the
\* transaction leaves no trace.
GasCoinResolves(tx, s) ==
    /\ tx.gas.id \in DOMAIN s
    /\ s[tx.gas.id].kind = "coin"
    /\ s[tx.gas.id].owner = tx.sender
    /\ s[tx.gas.id].version # MaxVersion
    /\ s[tx.gas.id] = tx.gas.obj

\* A slip: the owner of an argument is not compared with the sender.
ArgsAnyOwner(tx, s) ==
    \A i \in 1..Len(tx.args) :
        LET ref == tx.args[i]
        IN  /\ ref.id \in DOMAIN s
            /\ s[ref.id].kind # "module"
            /\ s[ref.id].version # MaxVersion
            /\ s[ref.id] = ref.obj

\* resolve_args: when it fails, the transaction fails but still pays.
ArgsResolve(tx, s) ==
    \A i \in 1..Len(tx.args) :
        LET ref == tx.args[i]
        IN  /\ ref.id \in DOMAIN s
            /\ s[ref.id].kind # "module"
            /\ s[ref.id].owner = tx.sender
            /\ s[ref.id].version # MaxVersion
            /\ s[ref.id] = ref.obj

\* collect_object_effects: every argument and every fresh object must have
\* been transferred or destroyed.
AllConsumed(tx, run) ==
    ArgIds(tx) \cup run.fresh \subseteq DOMAIN run.sends \cup run.burns

\* A slip: the gas spent is not capped to the budget.
GasUncapped(tx, luck, s) == IF ArgsResolve(tx, s) THEN tx.run[luck].cost ELSE BaseCost

\* GasMeter: the budget is the balance of the gas coin, and what is charged
\* beyond it is capped to it.  Only the base cost is charged when the
\* arguments do not resolve.
GasUsed(tx, luck, s) ==
    LET budget  == s[tx.gas.id].balance
        charged == IF ArgsResolve(tx, s) THEN tx.run[luck].cost ELSE BaseCost
    IN  IF charged > budget THEN budget ELSE charged

Succeeds(tx, luck, s) ==
    /\ ArgsResolve(tx, s)
    /\ s[tx.gas.id].balance >= tx.run[luck].cost
    /\ ~tx.run[luck].aborts
    /\ AllConsumed(tx, tx.run[luck])

\* bump_version and the content written: the object tx leaves behind.
Written(tx, version, sent) ==
    [version |-> version, owner |-> sent.owner, kind |-> sent.kind,
     balance |-> sent.balance, tx |-> tx.id]

\* A slip: the version of the gas coin is not bumped.
GasCoinSameVersion(tx, luck, s) ==
    LET coin == s[tx.gas.id]
        used == GasUsed(tx, luck, s)
    IN  Written(tx, coin.version,
                [owner |-> coin.owner, kind |-> coin.kind,
                 balance |-> IF coin.balance < used THEN 0 ELSE coin.balance - used])

\* apply_gas_spending: the gas coin is changed whatever the outcome, and its
\* balance is floored at 0 (deduct_gas).
GasCoinAfter(tx, luck, s) ==
    LET coin == s[tx.gas.id]
        used == GasUsed(tx, luck, s)
    IN  Written(tx, coin.version + 1,
                [owner |-> coin.owner, kind |-> coin.kind,
                 balance |-> IF coin.balance < used THEN 0 ELSE coin.balance - used])

\* executor::execute, for a transaction whose gas coin resolves.
Execute(tx, luck, s) ==
    LET run   == tx.run[luck]
        ok    == Succeeds(tx, luck, s)
        moved == IF ok THEN DOMAIN run.sends ELSE {}
    IN  [tx        |-> tx.id,
         success   |-> ok,
         gasUsed   |-> GasUsed(tx, luck, s),
         created   |-> [i \in moved \cap run.fresh |-> Written(tx, 1, run.sends[i])],
         changed   |-> [i \in (moved \ run.fresh) \cup {tx.gas.id} |->
                          IF i = tx.gas.id THEN GasCoinAfter(tx, luck, s)
                          ELSE Written(tx, s[i].version + 1, run.sends[i])],
         destroyed |-> IF ok THEN run.burns \ run.fresh ELSE {}]

\* The assertions of Store::apply_execution_result.
ResultFits(s, r) ==
    /\ DOMAIN r.created \cap DOMAIN s = {}
    /\ DOMAIN r.changed \subseteq DOMAIN s
    /\ r.destroyed \subseteq DOMAIN s

\* Store::apply_execution_result.
ApplyResult(s, r) ==
    [i \in (DOMAIN s \cup DOMAIN r.created) \ r.destroyed |->
        IF i \in DOMAIN r.changed THEN r.changed[i]
        ELSE IF i \in DOMAIN r.created THEN r.created[i]
        ELSE s[i]]

-----------------------------------------------------------------------------
(* Executing a batch: the loop of MiningWork::grind, which drops the       *)
(* transactions whose gas coin does not resolve, and of apply_block, which *)
(* rejects the block when there is one.                                    *)

RunStep(luck, run, tx) ==
    IF ~GasCoinResolves(tx, run.store) THEN run
    ELSE LET r == Execute(tx, luck, run.store)
         IN  [store   |-> ApplyResult(run.store, r),
              results |-> Append(run.results, r),
              done    |-> Append(run.done, tx),
              fits    |-> run.fits /\ ResultFits(run.store, r)]

Execution == INSTANCE Loops WITH Step <- RunStep

RunBatch(txs, luck, s) ==
    Execution!Run(luck, [store |-> s, results |-> << >>, done |-> << >>, fits |-> TRUE], txs)

AddGas(env, sum, r) == sum + r.gasUsed

Gas == INSTANCE Loops WITH Step <- AddGas

TotalGas(results) == Gas!Run(0, 0, results)

-----------------------------------------------------------------------------
(* The block reward.                                                       *)

\* make_reward_transaction: mints the gas of the block.  The mining hash in
\* it makes its digest, and so the id of the coin, differ between blocks.
RewardTx(miner, amount, seed) == [to |-> miner, amount |-> amount, seed |-> seed]

\* is_valid_reward_transaction.
ValidReward(reward, amount, seed) == reward.amount = amount /\ reward.seed = seed

\* A slip: the coin id does not depend on the block.
RewardFixedId(reward) ==
    [created   |-> [i \in {RewardId(reward.to, reward.to)} |->
                      [version |-> 1, owner |-> reward.to, kind |-> "coin",
                       balance |-> reward.amount, tx |-> "reward"]],
     changed   |-> << >>,
     destroyed |-> {}]

\* execute_reward_transaction: meow_coin::mint creates one coin.
ExecuteReward(reward) ==
    [created   |-> [i \in {RewardId(reward.seed, reward.to)} |->
                      [version |-> 1, owner |-> reward.to, kind |-> "coin",
                       balance |-> reward.amount, tx |-> "reward"]],
     changed   |-> << >>,
     destroyed |-> {}]

\* The store after the reward transaction, if there is one.
WithReward(s, rewardTx) ==
    IF rewardTx = {} THEN s
    ELSE CHOOSE paid \in {ApplyResult(s, ExecuteReward(reward)) : reward \in rewardTx} : TRUE

-----------------------------------------------------------------------------
(* Blocks: [hash, parent, height, timestamp, txRoot, rewardRoot,           *)
(* stateRoot, nonce, txs, results, rewardTx, rewardResult].  The last two  *)
(* and rewardRoot are sets with at most one element (Option).              *)

\* compute_transactions_root.
TxRoot(txs) == [i \in 1..Len(txs) |-> txs[i].id]

\* A batch that a mempool hands to a round: 1 to MaxTxs different transactions,
\* all validated when they were submitted.
Minable(batch) ==
    /\ batch \in Seq(Tx)
    /\ Len(batch) \in 1..MaxTxs
    /\ IsInjective(TxRoot(batch))
    /\ \A i \in 1..Len(batch) : ValidSigned(batch[i])

\* compute_state_root.
StateRoot(s) == s

\* mining_hash commits to the parent, the transactions root and the time.  A
\* nonce is [seed, luck]: it solves the seed it was ground for and no other,
\* and luck is the randomness it gives the VM.
Seed(parent, txRoot, timestamp) == Append(parent, <<txRoot, timestamp>>)

\* BlockHeader::hash, for a header that BuildBlock fills in: the other
\* fields are functions of these.
BlockHash(parent, txRoot, timestamp, luck, miner) ==
    Append(parent, [txs |-> txRoot, time |-> timestamp, luck |-> luck, miner |-> miner])

\* Block::genesis.
GenesisBlock ==
    [hash |-> << >>, parent |-> BlockHash(<< >>, << >>, 0, 0, "zero"), height |-> 0, timestamp |-> 0,
     txRoot |-> << >>, rewardRoot |-> {}, stateRoot |-> << >>,
     nonce |-> [seed |-> << >>, luck |-> 0], txs |-> << >>, results |-> << >>,
     rewardTx |-> {}, rewardResult |-> {}]

\* validate_block_structure.
ValidStructure(b, now) ==
    /\ b.txs # << >>
    /\ Len(b.txs) <= MaxTxs
    /\ IsInjective(TxRoot(b.txs))
    /\ b.timestamp <= now + Drift
    /\ Len(b.results) = Len(b.txs)
    /\ (b.rewardTx = {}) = (b.rewardResult = {})
    /\ b.height > 0 => b.nonce.seed = Seed(b.parent, b.txRoot, b.timestamp)
    /\ b.txRoot = TxRoot(b.txs)
    /\ b.rewardRoot = b.rewardTx

\* The middle of apply_block: signatures, re-execution, results and reward.
ReplayOk(b, s) ==
    LET run   == RunBatch(b.txs, b.nonce.luck, s)
        total == TotalGas(run.results)
    IN  /\ \A i \in 1..Len(b.txs) : ValidSigned(b.txs[i])
        /\ run.done = b.txs
        /\ run.results = b.results
        /\ IF total = 0
           THEN b.rewardTx = {} /\ b.rewardResult = {}
           ELSE \E reward \in b.rewardTx :
                  /\ ValidReward(reward, total, b.nonce.seed)
                  /\ b.rewardResult = {ExecuteReward(reward)}

\* The store that re-execution leaves.
ReplayStore(b, s) == WithReward(RunBatch(b.txs, b.nonce.luck, s).store, b.rewardTx)

-----------------------------------------------------------------------------
(* A mining round (mining_work.rs).                                        *)

Idle == [stage |-> "idle"]

\* A block with the store after it, as its miner publishes them.
Entry(b, s) == [block |-> b, store |-> s]

\* The round prepare_round hands to grind.
Round(parent, height, s, batch, time) ==
    [stage |-> "grinding", parent |-> parent, height |-> height, store |-> s,
     batch |-> batch, txRoot |-> TxRoot(batch), timestamp |-> time]

\* The tail of MiningWork::grind, once no transaction was dropped: the block
\* and the store after it.
Solve(round, luck, miner) ==
    LET seed   == Seed(round.parent, round.txRoot, round.timestamp)
        run    == RunBatch(round.batch, luck, round.store)
        total  == TotalGas(run.results)
        reward == IF total > 0 THEN {RewardTx(miner, total, seed)} ELSE {}
        store  == WithReward(run.store, reward)
        block  == [hash         |-> BlockHash(round.parent, round.txRoot,
                                              round.timestamp, luck, miner),
                   parent       |-> round.parent,
                   height       |-> round.height,
                   timestamp    |-> round.timestamp,
                   txRoot       |-> round.txRoot,
                   rewardRoot   |-> reward,
                   stateRoot    |-> StateRoot(store),
                   nonce        |-> [seed |-> seed, luck |-> luck],
                   txs          |-> run.done,
                   results      |-> run.results,
                   rewardTx     |-> reward,
                   rewardResult |-> {ExecuteReward(r) : r \in reward}]
    IN  [stage |-> "solved", block |-> block, store |-> store]

\* A slip: the block is finished with the root of the batch it started from.
GrindWithoutRegrind(round, luck, miner) ==
    IF RunBatch(round.batch, luck, round.store).done = << >> THEN Idle
    ELSE Solve(round, luck, miner)

\* A slip: the round starts over with the whole batch, also with the
\* transactions that were dropped.
GrindWholeBatch(round, luck, miner) ==
    LET run == RunBatch(round.batch, luck, round.store)
    IN  CASE run.done = << >> -> Idle
          [] run.done # << >> /\ TxRoot(run.done) # round.txRoot ->
                Round(round.parent, round.height, round.store, round.batch, round.timestamp)
          [] OTHER -> Solve(round, luck, miner)

\* One iteration of the loop of grind, after the nonce was found: give up
\* when nothing executed, start over when a transaction was dropped, and
\* otherwise finish the block.
GrindStep(round, luck, miner) ==
    LET run == RunBatch(round.batch, luck, round.store)
    IN  CASE run.done = << >> -> Idle
          [] run.done # << >> /\ TxRoot(run.done) # round.txRoot ->
                Round(round.parent, round.height, round.store, run.done, round.timestamp)
          [] OTHER -> Solve(round, luck, miner)
=============================================================================
