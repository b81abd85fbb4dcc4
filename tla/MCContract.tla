----------------------------- MODULE MCContract -----------------------------
(***************************************************************************)
(* An instance of Build: the framework, a module app with a few functions  *)
(* of its own, and what Main may be, in bytecode and in source.            *)
(***************************************************************************)
EXTENDS Build, MCLibrary

Coin == <<"0x20", "MeowCoin">>

PairE(a, b) == StructE(L("Pair"), <<<<"a", a>>, <<"b", b>>>>)

\* Box is an object, Pair a plain struct, Safe a struct that holds one.
AppStructs ==
    [Box |-> [pub |-> TRUE, fields |-> <<IdField, Field("n", U64T)>>],
     Pair |-> [pub |-> TRUE, fields |-> <<Field("a", U64T), Field("b", BoolT)>>],
     Safe |-> [pub |-> TRUE, fields |-> <<Field("pair", T("Pair")), Field("n", U64T)>>]]

Spin == Fn(FALSE, <<>>, VoidT, <<ExprS(CallE(L("spin"), <<>>))>>)

\* The box goes to the sender or is taken apart.
Keep ==
    Fn(FALSE, <<Field("box", T("Box")), Field("c", BoolT)>>, VoidT,
       <<IfS(IdE("c"), <<TransferS(IdE("box"), SenderE)>>,
             <<<<LetStructS(L("Box"), <<<<"id", "id">>>>, IdE("box"), TRUE), DestroyS(IdE("id"))>>>>)>>)

Lock ==
    Fn(TRUE, <<Field("n", U64T)>>, T("Safe"),
       <<TrailingS(StructE(L("Safe"), <<<<"pair", PairE(IdE("n"), LitE(BoolV(TRUE)))>>,
                                        <<"n", IdE("n")>>>>))>>)

Open ==
    Fn(TRUE, <<Field("safe", T("Safe"))>>, U64T,
       <<LetStructS(L("Safe"), <<<<"pair", "pair">>>>, IdE("safe"), TRUE),
         LetStructS(L("Pair"), <<<<"a", "a">>>>, IdE("pair"), TRUE), TrailingS(IdE("a"))>>)

MCUnits ==
    [a \in {"0x10", "0x20", "app"} |->
        CASE a = "0x10" -> MeowObjectUnit
          [] a = "0x20" -> MeowCoinUnit
          [] a = "app" -> [uses |-> [meow_object |-> "0x10", meow_coin |-> "0x20"],
                           structs |-> AppStructs,
                           fns |-> [spin |-> Spin, keep |-> Keep, lock |-> Lock, open |-> Open]]]

MCImports == [a \in DOMAIN MCUnits |-> {MCUnits[a].uses[x] : x \in DOMAIN MCUnits[a].uses}]

\* The library is what the compiler makes of its sources.
ASSUME LibraryCompiled ==
    MCStructs = CompiledStructs(MCUnits) /\ MCFuns = CompiledFuns(MCUnits)

\* The framework and app compile, and what is compiled passes both verifiers.
ASSUME LibraryVerified ==
    \A m \in DOMAIN Imports :
        /\ ModuleCompiles(Input(Units, Units[m]))
        /\ ModuleOk(m) /\ LayoutOk(m)
        /\ \A fn \in DOMAIN Funs : fn[1] = m => ObjectsOk(Funs[fn], m)

(***************************************************************************)
(* What Main may be in bytecode.                                           *)
(***************************************************************************)
ShapeOf(params, ret, locals, len, alphabet) ==
    [params |-> params, ret |-> ret, locals |-> locals, len |-> len, alphabet |-> alphabet]

BoxT == StructT(<<Local, "Box">>)

Branches ==
    ShapeOf(<<BoolT>>, U64T, 2, 7,
          {LoadI(1), PushI(U64V(0)), StoreI(2), LoadI(2), Op("Pop"), Op("Return"),
           JumpI("JumpIf", 2), JumpI("JumpIfNot", 3), JumpI("Jump", 0), JumpI("Jump", 2)})

MovedBoxes ==
    ShapeOf(<<BoxT, BoolT>>, VoidT, 3, 8,
          {LoadI(1), LoadI(2), StoreI(3), LoadI(3), Op("Return"), JumpI("JumpIf", 3),
           JumpI("Jump", 2), CallI(L("keep"))})

NewBoxes ==
    ShapeOf(<<>>, VoidT, 1, 7,
          {PushI(U64V(0)), CallI(L("meow_vm_fresh_id")), NewI(L("Box"), <<"id", "n">>), StoreI(1), LoadI(1),
           CallI(L("meow_vm_sender")), CallI(L("meow_vm_transfer")), CallI(L("meow_vm_destroy")),
           Op("Return")})

Rebuilt ==
    ShapeOf(<<BoxT>>, VoidT, 1, 7,
          {LoadI(1), LoadFieldI(1, <<"n">>), StoreFieldI(1, <<"n">>), UnpackI(L("Box"), <<"id", "n">>),
           NewI(L("Box"), <<"id", "n">>), CallI(L("meow_vm_fresh_id")), CallI(L("meow_vm_sender")),
           CallI(L("meow_vm_transfer")), CallI(L("meow_vm_destroy")), Op("Pop"), Op("Return")})

Coins ==
    ShapeOf(<<StructT(Coin)>>, VoidT, 2, 7,
          {LoadI(1), StoreI(2), LoadI(2), Op("Pop"), Op("Return"), UnpackTupleI(2),
           CallI(L("meow_vm_sender"))}
            \cup {CallI(<<"0x20", f>>) :
                    f \in {"burn", "balance", "transfer", "to_balance", "from_balance"}})

Numbers ==
    ShapeOf(<<U64T, U64T>>, U64T, 2, 6,
          {LoadI(1), LoadI(2), Op("Return")} \cup {Op(op) : op \in {"Add", "Sub", "Mul", "Div", "Mod"}})

Booleans ==
    ShapeOf(<<U64T, BoolT>>, BoolT, 2, 5,
          {LoadI(1), LoadI(2), Op("Return"), Op("Dup"), Op("Not"), Op("And"), Op("Or")}
            \cup {Op(op) : op \in {"Eq", "Ne", "Lt", "Le", "Gt", "Ge"}})

Pairs ==
    ShapeOf(<<U64T, BoolT>>, TupleT(<<U64T, BoolT>>), 2, 7,
          {LoadI(1), LoadI(2), NewI(L("Pair"), <<"a", "b">>), GetFieldI("a"),
           UnpackI(L("Pair"), <<"a", "b">>), Op("Dup"), MakeTupleI(2), UnpackTupleI(2), Op("Return")})

Nested ==
    ShapeOf(<<>>, U64T, 1, 8,
          {PushI(U64V(1)), CallI(L("lock")), CallI(L("open")), StoreI(1), LoadI(1),
           LoadFieldI(1, <<"pair", "a">>), StoreFieldI(1, <<"pair", "a">>), Op("Return")})

Calls ==
    ShapeOf(<<BoolT>>, U64T, 1, 5,
          {LoadI(1), PushI(U64V(0)), PushI(StrV("")), CallI(L("spin")), Op("Pop"), Op("Return")}
            \cup {CallI(L(f)) : f \in {"meow_vm_abort", "meow_vm_rand", "meow_vm_timestamp"}})

\* Fields that a number and a struct do not have, taken for addresses.
Fields ==
    ShapeOf(<<U64T, BoolT>>, AddressT, 2, 6,
            {LoadI(1), LoadI(2), LoadFieldI(1, <<"n">>), StoreFieldI(1, <<"n">>),
             NewI(L("Pair"), <<"a", "b">>), GetFieldI("c"), Op("Pop"), Op("Return")})

\* A plain struct, whole or taken out of another, where an object is expected.
Plains ==
    ShapeOf(<<>>, VoidT, 2, 8,
            {PushI(U64V(1)), CallI(L("lock")), UnpackI(L("Safe"), <<"pair", "n">>), StoreI(1), StoreI(2),
             LoadI(1), CallI(L("meow_vm_sender")), CallI(L("meow_vm_transfer")), Op("Return")})

MCShapes ==
    {Branches, MovedBoxes, NewBoxes, Rebuilt, Coins, Numbers, Booleans, Pairs, Nested, Calls,
     Fields, Plains}

(***************************************************************************)
(* What Main may be in source.                                             *)
(***************************************************************************)
SourceShape(params, ret, len, alphabet) ==
    [params |-> params, ret |-> ret, len |-> len, alphabet |-> alphabet]

N == Field("n", U64T)
C == Field("c", BoolT)
x == IdE("x")
n == IdE("n")
c == IdE("c")
Plus(a, b) == BinE(a, "Add", b)

\* Names bound again in the same scope, in a branch, and assigned there.
ScopeShape ==
    SourceShape(<<C, N>>, U64T, 4,
        {LetS("x", n), LetS("x", Plus(x, NumE(1))), ReassignS("n", x),
         IfS(c, <<LetS("x", NumE(2)), ReassignS("n", x)>>, <<>>),
         IfS(c, <<ReassignS("x", NumE(0))>>, <<<<LetS("n", x), LetS("x", n), ReassignS("x", n)>>>>),
         IfS(BinE(n, "Lt", NumE(2)), <<ReturnS(<<n>>)>>, <<<<IfS(c, <<ReturnS(<<NumE(1)>>)>>, <<>>)>>>>),
         ReturnS(<<Plus(x, n)>>)})

\* Boxes moved on one path, on both, and rebuilt.
box == IdE("box")
NewBoxE(num, id) == StructE(L("Box"), <<<<"n", num>>, <<"id", id>>>>)

MoveShape ==
    SourceShape(<<Field("box", T("Box")), C>>, VoidT, 5,
        {LetS("y", box), LetS("box", IdE("y")), ReassignS("box", IdE("y")),
         IfS(c, <<TransferS(box, SenderE), ReturnS(<<>>)>>, <<>>),
         IfS(c, <<TransferS(box, SenderE)>>, <<<<ExprS(CallE(L("keep"), <<box, c>>))>>>>),
         LetStructS(L("Box"), <<<<"n", "n">>, <<"id", "id">>>>, box, FALSE), DestroyS(IdE("id")),
         LetS("box", NewBoxE(Plus(n, NumE(1)), FreshE)), LetS("id", FreshE),
         FieldAssignS("box", <<"n">>, Plus(FieldE(box, "n"), NumE(1))),
         TransferS(box, SenderE)})

\* Coins that pass through the functions of meow_coin.
CoinCall(f, args) == CallE(<<"meow_coin", f>>, args)
coin == IdE("coin")

CoinShape ==
    SourceShape(<<Field("coin", StructT(<<"meow_coin", "MeowCoin">>)), N>>, VoidT, 4,
        {LetTupleS(<<"coin", "m">>, CoinCall("balance", <<coin>>)),
         LetS("b", CoinCall("to_balance", <<coin>>)), LetS("coin", CoinCall("from_balance", <<IdE("b")>>)),
         LetS("d", CoinCall("from_balance", <<IdE("b")>>)),
         ExprS(CoinCall("split", <<coin, n>>)), ExprS(CoinCall("merge", <<coin, IdE("d")>>)),
         ExprS(CoinCall("burn", <<coin>>)), ExprS(CoinCall("transfer", <<coin, SenderE>>)),
         IfS(BinE(IdE("m"), "Gt", n), <<ReassignS("n", IdE("m"))>>, <<>>)})

\* Literals, fields, tuples, and operands that fail one before the other.
p == IdE("p")

StructShape ==
    SourceShape(<<N, C>>, TupleT(<<U64T, BoolT>>), 4,
        {LetS("p", StructE(L("Pair"), <<<<"b", BinE(BinE(NumE(1), "Div", n), "Eq", NumE(1))>>,
                                        <<"a", Plus(n, NumE(1))>>>>)),
         LetStructS(L("Pair"), <<<<"b", "c">>, <<"a", "n">>>>, p, FALSE),
         LetStructS(L("Pair"), <<<<"a", "n">>>>, p, TRUE),
         FieldAssignS("p", <<"a">>, BinE(FieldE(p, "a"), "Sub", n)),
         LetS("s", CallE(L("lock"), <<n>>)),
         FieldAssignS("s", <<"pair", "a">>, Plus(FieldE(FieldE(IdE("s"), "pair"), "a"), NumE(1))),
         LetS("n", CallE(L("open"), <<IdE("s")>>)),
         LetS("n", FieldE(PairE(n, NotE(c)), "a")),
         LetTupleS(<<"n", "c">>, TupleE(<<NumE(2), BinE(c, "Or", BinE(n, "Gt", NumE(1)))>>)),
         TrailingS(TupleE(<<n, c>>))})

\* The same in source: a struct with a plain one in it is taken apart.
PlainShape ==
    SourceShape(<<N>>, VoidT, 3,
        {LetS("s", CallE(L("lock"), <<n>>)),
         LetStructS(L("Safe"), <<<<"pair", "p">>, <<"n", "n">>>>, IdE("s"), FALSE),
         LetS("p", PairE(n, LitE(BoolV(TRUE)))),
         TransferS(p, SenderE), TransferS(IdE("s"), SenderE)})

MCSourceShapes ==
    [scopes |-> ScopeShape, moves |-> MoveShape, coins |-> CoinShape, structs |-> StructShape,
     plains |-> PlainShape]

\* The last alone, for what the documentation says of it.
NoShapes == {}

PlainSourceShapes == [plains |-> PlainShape]

MCMain == <<"app", "main">>
=============================================================================
