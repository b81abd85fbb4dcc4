------------------------------ MODULE Framework ------------------------------
(***************************************************************************)
(* The modules of the framework as the parser reads them                   *)
(* (meow-framework/modules/meow_object.meow and meow_coin.meow), which     *)
(* genesis publishes at 0x10 and 0x20.                                     *)
(***************************************************************************)
EXTENDS Ast

Field(name, ty) == [name |-> name, ty |-> ty]

Fn(pub, params, ret, body) == [pub |-> pub, params |-> params, ret |-> ret, body |-> body]

L(name) == <<Local, name>>
T(name) == StructT(L(name))

NumE(n) == LitE(U64V(n))
NativeE(name, args) == CallE(L(name), args)
SenderE == NativeE("meow_vm_sender", <<>>)
FreshE == NativeE("meow_vm_fresh_id", <<>>)
TransferS(a, to) == ExprS(NativeE("meow_vm_transfer", <<a, to>>))
DestroyS(a) == ExprS(NativeE("meow_vm_destroy", <<a>>))

IdField == Field("id", StructT(<<"meow_object", "Id">>))

MeowObjectUnit ==
    [uses |-> <<>>, fns |-> <<>>,
     structs |-> [Id |-> [pub |-> TRUE, fields |-> <<Field("inner", AddressT)>>]]]

(***************************************************************************)
(* meow_coin.                                                              *)
(***************************************************************************)
MeowCoinStructs ==
    [MeowCoin |-> [pub |-> TRUE, fields |-> <<IdField, Field("balance", U64T)>>],
     MeowCoinBalance |-> [pub |-> TRUE, fields |-> <<Field("amount", U64T)>>]]

CoinT == T("MeowCoin")
BalanceOf(x) == FieldE(IdE(x), "balance")
NewCoinE(amount) == StructE(L("MeowCoin"), <<<<"id", FreshE>>, <<"balance", amount>>>>)

Mint ==
    Fn(FALSE, <<Field("balance", U64T), Field("owner", AddressT)>>, VoidT,
       <<LetS("coin", NewCoinE(IdE("balance"))), TransferS(IdE("coin"), IdE("owner"))>>)

Balance ==
    Fn(TRUE, <<Field("coin", CoinT)>>, TupleT(<<CoinT, U64T>>),
       <<LetS("b", BalanceOf("coin")), TrailingS(TupleE(<<IdE("coin"), IdE("b")>>))>>)

Burn ==
    Fn(TRUE, <<Field("coin", CoinT)>>, VoidT,
       <<LetStructS(L("MeowCoin"), <<<<"id", "id">>>>, IdE("coin"), TRUE), DestroyS(IdE("id"))>>)

Transfer ==
    Fn(TRUE, <<Field("coin", CoinT), Field("to", AddressT)>>, VoidT,
       <<TransferS(IdE("coin"), IdE("to"))>>)

MergeAndTransfer ==
    Fn(TRUE, <<Field("from", CoinT), Field("to", CoinT), Field("recipient", AddressT)>>, VoidT,
       <<FieldAssignS("to", <<"balance">>, BinE(BalanceOf("to"), "Add", BalanceOf("from"))),
         LetStructS(L("MeowCoin"), <<<<"id", "id">>>>, IdE("from"), TRUE),
         DestroyS(IdE("id")), TransferS(IdE("to"), IdE("recipient"))>>)

MergeCoins ==
    Fn(TRUE, <<Field("from", CoinT), Field("to", CoinT)>>, VoidT,
       <<ExprS(CallE(L("merge_and_transfer"), <<IdE("from"), IdE("to"), SenderE>>))>>)

SplitAndTransfer ==
    Fn(TRUE, <<Field("from", CoinT), Field("amount", U64T), Field("to", AddressT)>>, VoidT,
       <<ExprS(NativeE("meow_vm_abort", <<BinE(BalanceOf("from"), "Ge", IdE("amount")), NumE(1),
                                          LitE(StrV("The balance is insufficient"))>>)),
         FieldAssignS("from", <<"balance">>, BinE(BalanceOf("from"), "Sub", IdE("amount"))),
         LetS("coin", NewCoinE(IdE("amount"))),
         TransferS(IdE("coin"), IdE("to")), TransferS(IdE("from"), SenderE)>>)

Split ==
    Fn(TRUE, <<Field("from", CoinT), Field("amount", U64T)>>, VoidT,
       <<ExprS(CallE(L("split_and_transfer"), <<IdE("from"), IdE("amount"), SenderE>>))>>)

ToBalance ==
    Fn(TRUE, <<Field("coin", CoinT)>>, T("MeowCoinBalance"),
       <<LetStructS(L("MeowCoin"), <<<<"id", "id">>, <<"balance", "balance">>>>, IdE("coin"), FALSE),
         DestroyS(IdE("id")),
         TrailingS(StructE(L("MeowCoinBalance"), <<<<"amount", IdE("balance")>>>>))>>)

FromBalance ==
    Fn(TRUE, <<Field("balance", T("MeowCoinBalance"))>>, CoinT,
       <<LetStructS(L("MeowCoinBalance"), <<<<"amount", "amount">>>>, IdE("balance"), FALSE),
         TrailingS(NewCoinE(IdE("amount")))>>)

MeowCoinUnit ==
    [uses |-> [meow_object |-> "0x10"], structs |-> MeowCoinStructs,
     fns |-> [mint |-> Mint, balance |-> Balance, burn |-> Burn, transfer |-> Transfer,
              merge_and_transfer |-> MergeAndTransfer, merge |-> MergeCoins,
              split_and_transfer |-> SplitAndTransfer, split |-> Split,
              to_balance |-> ToBalance, from_balance |-> FromBalance]]
=============================================================================
