----------------------------- MODULE MCLibrary -----------------------------
(***************************************************************************)
(* The library as it is published: the bytecode of the framework and of    *)
(* app.  MCContract checks that the compiler makes it of their sources.    *)
(***************************************************************************)
EXTENDS Framework

CodeOf(pub, params, ret, locals, code) ==
    [pub |-> pub, params |-> params, ret |-> ret, locals |-> locals, code |-> code]

PublicStruct(fields) == [pub |-> TRUE, fields |-> fields]

MCStructs ==
    <<"0x10", "Id">> :> PublicStruct(<<Field("inner", AddressT)>>) @@
    <<"0x20", "MeowCoin">> :> PublicStruct(<<Field("id", IdT), Field("balance", U64T)>>) @@
    <<"0x20", "MeowCoinBalance">> :> PublicStruct(<<Field("amount", U64T)>>) @@
    <<"app", "Box">> :> PublicStruct(<<Field("id", IdT), Field("n", U64T)>>) @@
    <<"app", "Pair">> :> PublicStruct(<<Field("a", U64T), Field("b", BoolT)>>) @@
    <<"app", "Safe">> :> PublicStruct(<<Field("pair", T("Pair")), Field("n", U64T)>>)

MCFuns ==
    <<"0x20", "mint">> :> CodeOf(FALSE, <<U64T, AddressT>>, VoidT, 3,
        <<CallI(L("meow_vm_fresh_id")), LoadI(1), NewI(L("MeowCoin"), <<"id", "balance">>),
          StoreI(3), LoadI(3), LoadI(2), CallI(L("meow_vm_transfer")), Op("Pop"), Op("Return")>>) @@
    <<"0x20", "balance">> :> CodeOf(TRUE, <<T("MeowCoin")>>, TupleT(<<T("MeowCoin"), U64T>>), 2,
        <<LoadFieldI(1, <<"balance">>), StoreI(2), LoadI(1), LoadI(2), MakeTupleI(2),
          Op("Return")>>) @@
    <<"0x20", "burn">> :> CodeOf(TRUE, <<T("MeowCoin")>>, VoidT, 2,
        <<LoadI(1), UnpackI(L("MeowCoin"), <<"id", "balance">>), StoreI(2), Op("Pop"),
          LoadI(2), CallI(L("meow_vm_destroy")), Op("Pop"), Op("Return")>>) @@
    <<"0x20", "transfer">> :> CodeOf(TRUE, <<T("MeowCoin"), AddressT>>, VoidT, 2,
        <<LoadI(1), LoadI(2), CallI(L("meow_vm_transfer")), Op("Pop"), Op("Return")>>) @@
    <<"0x20", "merge_and_transfer">> :> CodeOf(TRUE, <<T("MeowCoin"), T("MeowCoin"), AddressT>>, VoidT, 4,
        <<LoadFieldI(2, <<"balance">>), LoadFieldI(1, <<"balance">>), Op("Add"),
          StoreFieldI(2, <<"balance">>), LoadI(1), UnpackI(L("MeowCoin"), <<"id", "balance">>),
          StoreI(4), Op("Pop"), LoadI(4), CallI(L("meow_vm_destroy")), Op("Pop"), LoadI(2),
          LoadI(3), CallI(L("meow_vm_transfer")), Op("Pop"), Op("Return")>>) @@
    <<"0x20", "merge">> :> CodeOf(TRUE, <<T("MeowCoin"), T("MeowCoin")>>, VoidT, 2,
        <<LoadI(1), LoadI(2), CallI(L("meow_vm_sender")), CallI(L("merge_and_transfer")),
          Op("Pop"), Op("Return")>>) @@
    <<"0x20", "split_and_transfer">> :> CodeOf(TRUE, <<T("MeowCoin"), U64T, AddressT>>, VoidT, 4,
        <<LoadFieldI(1, <<"balance">>), LoadI(2), Op("Ge"), PushI(U64V(1)),
          PushI(StrV("The balance is insufficient")), CallI(L("meow_vm_abort")), Op("Pop"),
          LoadFieldI(1, <<"balance">>), LoadI(2), Op("Sub"), StoreFieldI(1, <<"balance">>),
          CallI(L("meow_vm_fresh_id")), LoadI(2), NewI(L("MeowCoin"), <<"id", "balance">>),
          StoreI(4), LoadI(4), LoadI(3), CallI(L("meow_vm_transfer")), Op("Pop"), LoadI(1),
          CallI(L("meow_vm_sender")), CallI(L("meow_vm_transfer")), Op("Pop"), Op("Return")>>) @@
    <<"0x20", "split">> :> CodeOf(TRUE, <<T("MeowCoin"), U64T>>, VoidT, 2,
        <<LoadI(1), LoadI(2), CallI(L("meow_vm_sender")), CallI(L("split_and_transfer")),
          Op("Pop"), Op("Return")>>) @@
    <<"0x20", "to_balance">> :> CodeOf(TRUE, <<T("MeowCoin")>>, T("MeowCoinBalance"), 3,
        <<LoadI(1), UnpackI(L("MeowCoin"), <<"id", "balance">>), StoreI(2), StoreI(3),
          LoadI(2), CallI(L("meow_vm_destroy")), Op("Pop"), LoadI(3),
          NewI(L("MeowCoinBalance"), <<"amount">>), Op("Return")>>) @@
    <<"0x20", "from_balance">> :> CodeOf(TRUE, <<T("MeowCoinBalance")>>, T("MeowCoin"), 2,
        <<LoadI(1), UnpackI(L("MeowCoinBalance"), <<"amount">>), StoreI(2),
          CallI(L("meow_vm_fresh_id")), LoadI(2), NewI(L("MeowCoin"), <<"id", "balance">>),
          Op("Return")>>) @@
    <<"app", "spin">> :> CodeOf(FALSE, <<>>, VoidT, 0,
        <<CallI(L("spin")), Op("Pop"), Op("Return")>>) @@
    <<"app", "keep">> :> CodeOf(FALSE, <<T("Box"), BoolT>>, VoidT, 3,
        <<LoadI(2), JumpI("JumpIfNot", 6), LoadI(1), CallI(L("meow_vm_sender")),
          CallI(L("meow_vm_transfer")), Op("Pop"), JumpI("Jump", 8), LoadI(1),
          UnpackI(L("Box"), <<"id", "n">>), StoreI(3), Op("Pop"), LoadI(3),
          CallI(L("meow_vm_destroy")), Op("Pop"), Op("Return")>>) @@
    <<"app", "lock">> :> CodeOf(TRUE, <<U64T>>, T("Safe"), 1,
        <<LoadI(1), PushI(BoolV(TRUE)), NewI(L("Pair"), <<"a", "b">>), LoadI(1),
          NewI(L("Safe"), <<"pair", "n">>), Op("Return")>>) @@
    <<"app", "open">> :> CodeOf(TRUE, <<T("Safe")>>, U64T, 3,
        <<LoadI(1), UnpackI(L("Safe"), <<"pair", "n">>), StoreI(2), Op("Pop"), LoadI(2),
          UnpackI(L("Pair"), <<"a", "b">>), StoreI(3), Op("Pop"), LoadI(3), Op("Return")>>)
=============================================================================
