------------------------------ MODULE MCMiner ------------------------------
(***************************************************************************)
(* Miner with two accounts and a handful of transactions that conflict,    *)
(* depend on each other, fail, run out of gas or depend on the seed.       *)
(***************************************************************************)
EXTENDS Miner

Obj(owner, kind, balance) ==
    [version |-> 1, owner |-> owner, kind |-> kind, balance |-> balance, tx |-> "genesis"]

MCGenesisStore ==
    [i \in {<<"gasA">>, <<"gasB">>, <<"coin">>, <<"item">>, <<"framework">>} |->
        CASE i = <<"gasA">> -> Obj("alice", "coin", 5)
          [] i = <<"gasB">> -> Obj("bob", "coin", 3)
          [] i = <<"coin">> -> Obj("alice", "coin", 2)
          [] i = <<"item">> -> Obj("alice", "item", 0)
          [] i = <<"framework">> -> Obj("immutable", "module", 0)]

At(s, id) == [id |-> id, obj |-> s[id]]

Sent(owner, kind, balance) == [owner |-> owner, kind |-> kind, balance |-> balance]

Run(cost, fresh, sends, burns) ==
    [cost |-> cost, aborts |-> FALSE, fresh |-> fresh, sends |-> sends, burns |-> burns]

Call(id, sender, gas, args, runs) ==
    [id |-> id, signer |-> sender, sender |-> sender, gas |-> gas, args |-> args, run |-> runs]

Always(run) == [luck \in 0..1 |-> run]

\* alice gives the item to bob.
Give == Call("give", "alice", At(MCGenesisStore, <<"gasA">>), <<At(MCGenesisStore, <<"item">>)>>,
             Always(Run(2, {}, [i \in {<<"item">>} |-> Sent("bob", "item", 0)], {})))

\* alice splits her coin with bob, with the same gas coin, if she is lucky.
Split == Call("split", "alice", At(MCGenesisStore, <<"gasA">>), <<At(MCGenesisStore, <<"coin">>)>>,
              LET run == Run(2, {<<"split", 1>>},
                             [i \in {<<"coin">>, <<"split", 1>>} |->
                                 Sent(IF i = <<"coin">> THEN "alice" ELSE "bob", "coin", 1)], {})
              IN  [luck \in 0..1 |-> [run EXCEPT !.aborts = (luck = 1)]])

\* bob uses alice's item.
Take == Call("take", "bob", At(MCGenesisStore, <<"gasB">>), <<At(MCGenesisStore, <<"item">>)>>,
             Always(Run(1, {}, [i \in {<<"item">>} |-> Sent("bob", "item", 0)], {})))

\* bob publishes a module he cannot pay for.
Publish == Call("publish", "bob", At(MCGenesisStore, <<"gasB">>), << >>,
                Always(Run(9, {<<"publish", 1>>},
                           [i \in {<<"publish", 1>>} |-> Sent("immutable", "module", 0)], {})))

\* alice destroys what Split left of her coin, with the gas coin it left.
AfterSplit == RunBatch(<<Split>>, 0, MCGenesisStore).store
Burn == Call("burn", "alice", At(AfterSplit, <<"gasA">>), <<At(AfterSplit, <<"coin">>)>>,
             Always(Run(1, {}, << >>, {<<"coin">>})))

\* alice names her gas coin as an argument.
Alias == Call("alias", "alice", At(MCGenesisStore, <<"gasA">>), <<At(MCGenesisStore, <<"gasA">>)>>,
              Always(Run(1, {}, << >>, {<<"gasA">>})))

\* Reorgs: two conflicting transactions and an independent one.
ReorgTx == {Give, Split, Take}
ReorgBatch == {<<Give>>, <<Take>>}

\* Execution: every kind of transaction, one peer block.
ExecTx == {Give, Split, Take, Publish, Burn, Alias}
ExecBatch == {<<Take>>}
=============================================================================
