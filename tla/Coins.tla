------------------------------- MODULE Coins -------------------------------
(***************************************************************************)
(* The money in a store, and what the calls of a block make of it: the     *)
(* terms in which the properties speak of the supply of coins.             *)
(***************************************************************************)
EXTENDS Ledger

\* The units of money in the coins among some objects, and their number.
Units(s) == UNION {{i} \X (1..s[i].balance) : i \in {j \in DOMAIN s : s[j].kind = "coin"}}
Supply(s) == Cardinality(Units(s))

\* The objects a transaction hands to its call.
Given(tx) == [i \in ArgIds(tx) |-> tx.args[CHOOSE k \in 1..Len(tx.args) : tx.args[k].id = i].obj]

\* What a call mints less what it destroys, and the sum for a block.
NetOf(luck, tx, success) ==
    IF success THEN Supply(tx.run[luck].sends) - Supply(Given(tx)) ELSE 0

AddNet(luck, sum, call) == sum + NetOf(luck, call.tx, call.success)

Calls == INSTANCE Loops WITH Step <- AddNet

NetOfCalls(txs, results, luck) ==
    Calls!Run(luck, 0, [k \in 1..Len(txs) |-> [tx |-> txs[k], success |-> results[k].success]])
=============================================================================
