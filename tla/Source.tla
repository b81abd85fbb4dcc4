------------------------------- MODULE Source -------------------------------
(***************************************************************************)
(* What a meow function means, by its source: a reference evaluator that   *)
(* knows variables, scopes and values, and neither slots, stack nor code.  *)
(* It is the specification the compiled code is compared with.             *)
(*                                                                         *)
(* Every `let` makes a new cell; leaving a block forgets its names and not *)
(* its cells.  An evaluation [lib, env: name -> cell, store: cell -> value,*)
(* ctx, depth, halt, val] goes on while halt is "", and stops with         *)
(* "return", with a run-time error, or with Fault where the source breaks  *)
(* a rule of the language: a struct used twice, dropped or overwritten, or *)
(* a result that is missing or not wanted.  lib holds the sources of the   *)
(* modules; structs have no ghost identity here.                           *)
(***************************************************************************)
EXTENDS Compiler, Vm

Fault == "Fault"

NoContext == [fresh |-> <<>>, transfers |-> <<>>, destroyed |-> <<>>]

Halt(st, why) == [st EXCEPT !.halt = why]

Val(st, v) == [st EXCEPT !.val = v]

NewCell(st, x, v) ==
    [st EXCEPT !.env = (x :> Len(st.store) + 1) @@ @, !.store = Append(@, v)]

NewCells(st, xs, vs) ==
    FoldLeft(LAMBDA s, i : NewCell(s, xs[i], vs[i]), st, [i \in DOMAIN xs |-> i])

(***************************************************************************)
(* Values.                                                                 *)
(***************************************************************************)
\* The value without its ghost identities.
RECURSIVE Plain(_)
Plain(v) ==
    CASE v.k = "struct" -> StructV(v.t, [n \in DOMAIN v.fs |-> Plain(v.fs[n])], 0)
      [] v.k = "tuple" -> TupleV([i \in DOMAIN v.vs |-> Plain(v.vs[i])])
      [] OTHER -> v

RECURSIVE Updated(_, _, _)
Updated(v, path, new) ==
    IF path = <<>> THEN new ELSE [v EXCEPT !.fs[Head(path)] = Updated(@, Tail(path), new)]

BinValue(st, op, l, r) ==
    LET Number(n) == IF n \in 0..MaxU64 THEN Val(st, U64V(n)) ELSE Halt(st, "ArithmeticOverflow")
        Truth(b) == Val(st, BoolV(b))
    IN  CASE op = "Add" -> Number(l.n + r.n)
          [] op = "Sub" -> Number(l.n - r.n)
          [] op = "Mul" -> Number(l.n * r.n)
          [] op = "Div" -> IF r.n = 0 THEN Halt(st, "DivisionByZero") ELSE Number(l.n \div r.n)
          [] op = "Mod" -> IF r.n = 0 THEN Halt(st, "DivisionByZero") ELSE Number(l.n % r.n)
          [] op = "Eq" -> Truth(l = r)
          [] op = "Ne" -> Truth(l # r)
          [] op = "Lt" -> Truth(l.n < r.n)
          [] op = "Le" -> Truth(l.n <= r.n)
          [] op = "Gt" -> Truth(l.n > r.n)
          [] op = "Ge" -> Truth(l.n >= r.n)
          [] op = "And" -> Truth(l.b /\ r.b)
          [] op = "Or" -> Truth(l.b \/ r.b)

NativeValue(st, name, args) ==
    CASE name = "meow_vm_abort" -> IF args[1].b THEN Val(st, VoidV) ELSE Halt(st, "Aborted")
      [] name = "meow_vm_fresh_id" ->
            LET id == FreshId(Len(st.ctx.fresh))
            IN  [Val(st, StructV(IdName, [inner |-> AddressV(id)], 0))
                   EXCEPT !.ctx.fresh = Append(@, id)]
      [] name = "meow_vm_transfer" ->
            IF HasAddress(args[1])
            THEN [Val(st, VoidV) EXCEPT !.ctx.transfers = Append(@, <<args[1], args[2].a>>)]
            ELSE Halt(st, "NativeError")
      [] name = "meow_vm_destroy" ->
            [Val(st, VoidV) EXCEPT !.ctx.destroyed = Append(@, args[1].fs["inner"].a)]
      [] name = "meow_vm_sender" -> Val(st, AddressV(Sender))

\* A name is read; a struct leaves its variable.
ReadName(st, x) ==
    LET cell == st.env[x]
        v == st.store[cell]
    IN  IF v = Empty THEN Halt(st, Fault)
        ELSE [Val(st, v) EXCEPT !.store[cell] = IF IsLinearV(v) THEN Empty ELSE v]

\* A field of a value; what is not read must be worth nothing.
ReadTemp(st, path) ==
    LET v == ReadPath(st.val, path)
        rest == \E n \in DOMAIN st.val.fs : IsLinearV(st.val.fs[n])
    IN  IF v.k = "error" \/ IsLinearV(v) \/ rest THEN Halt(st, Fault) ELSE Val(st, v)

ReadInPlace(st, x, path) ==
    LET v == ReadPath(st.store[st.env[x]], path)
    IN  IF v.k = "error" \/ IsLinearV(v) THEN Halt(st, Fault) ELSE Val(st, v)

(***************************************************************************)
(* Expressions, statements, calls.                                         *)
(***************************************************************************)
RECURSIVE EvalExpr(_, _, _)
RECURSIVE ExecStmt(_, _, _)
RECURSIVE EvalCall(_, _, _)

\* The values of expressions, left to right, behind the values vs, in val.
RECURSIVE EvalAll(_, _, _, _)

EvalNext(a, st, es, vs) == IF st.halt # "" THEN st ELSE EvalAll(a, st, es, Append(vs, st.val))

EvalAll(a, st, es, vs) ==
    IF es = <<>> THEN Val(st, vs) ELSE EvalNext(a, EvalExpr(a, st, Head(es)), Tail(es), vs)

\* The fields of a struct are evaluated in the order of its definition.
DeclaredFields(u, t) == [i \in DOMAIN u.structs[t[2]].fields |-> u.structs[t[2]].fields[i].name]

InPlace(e) == e.e = "field" /\ RootOf(e).e = "id"

Parts(u, e) ==
    CASE e.e = "bin" -> <<e.l, e.r>>
      [] e.e = "not" -> <<e.a>>
      [] e.e = "field" -> IF InPlace(e) THEN <<>> ELSE <<RootOf(e)>>
      [] e.e = "struct" ->
            LET names == DeclaredFields(u, e.t) IN [i \in DOMAIN names |-> FieldExpr(e.fs, names[i])]
      [] e.e = "tuple" -> e.es
      [] e.e = "call" -> e.args
      [] OTHER -> <<>>

\* The value of e, given the values of its parts in val.
Combine(a, st, e) ==
    LET vs == st.val
    IN
    CASE st.halt # "" -> st
      [] e.e = "lit" -> Val(st, e.v)
      [] e.e = "id" -> ReadName(st, e.x)
      [] e.e = "bin" -> BinValue(st, e.op, vs[1], vs[2])
      [] e.e = "not" -> Val(st, BoolV(~vs[1].b))
      [] e.e = "field" -> IF InPlace(e) THEN ReadInPlace(st, RootOf(e).x, PathOf(e))
                          ELSE ReadTemp(Val(st, vs[1]), PathOf(e))
      [] e.e = "struct" ->
            LET names == DeclaredFields(st.lib[a], e.t)
                At(n) == CHOOSE i \in DOMAIN names : names[i] = n
            IN  Val(st, StructV(<<a, e.t[2]>>, [n \in ToSet(names) |-> vs[At(n)]], 0))
      [] e.e = "tuple" -> Val(st, TupleV(vs))
      [] e.e = "call" -> IF IsNativeName(e.f) THEN NativeValue(st, e.f[2], vs)
                         ELSE EvalCall(Qualify(TranslateName(st.lib[a], e.f), a), st, vs)

\* The expression e of the module at address a.
EvalExpr(a, st, e) == Combine(a, EvalAll(a, st, Parts(st.lib[a], e), <<>>), e)

RECURSIVE ExecBody(_, _, _)
ExecBody(a, st, body) ==
    IF body = <<>> \/ st.halt # "" THEN st ELSE ExecBody(a, ExecStmt(a, st, Head(body)), Tail(body))

Block(a, st, body) == [ExecBody(a, st, body) EXCEPT !.env = st.env]

\* The statement s, once its expression has the value st.val.
Perform(a, st, s) ==
    LET cell == st.env[s.x]
        old == ReadPath(st.store[cell], s.path)
        bound == {s.binds[i][1] : i \in DOMAIN s.binds}
    IN  CASE st.halt # "" -> st
          [] s.s = "let" -> NewCell(st, s.x, st.val)
          [] s.s = "reassign" -> IF IsLinearV(st.store[cell]) THEN Halt(st, Fault)
                                 ELSE [st EXCEPT !.store[cell] = st.val]
          [] s.s = "return" -> Halt(st, "return")
          [] s.s = "expr" -> IF IsLinearV(st.val) THEN Halt(st, Fault) ELSE st
          [] s.s = "if" -> IF st.val.b THEN Block(a, st, s.body)
                           ELSE IF s.else = <<>> THEN st ELSE Block(a, st, s.else[1])
          [] s.s = "field_assign" ->
                IF old.k = "error" \/ IsLinearV(old) THEN Halt(st, Fault)
                ELSE [st EXCEPT !.store[cell] = Updated(@, s.path, st.val)]
          [] s.s = "let_tuple" -> NewCells(st, s.xs, st.val.vs)
          [] s.s = "let_struct" ->
                IF \/ st.val.t[1] # a
                   \/ \E n \in DOMAIN st.val.fs \ bound : IsLinearV(st.val.fs[n])
                THEN Halt(st, Fault)
                ELSE NewCells(st, [i \in DOMAIN s.binds |-> s.binds[i][2]],
                              [i \in DOMAIN s.binds |-> st.val.fs[s.binds[i][1]]])

ExecStmt(a, st, s) ==
    Perform(a, IF HasExpr(s) THEN EvalExpr(a, st, ExprOf(s)) ELSE Val(st, VoidV), s)

\* The body of f was left in state out: a result is due unless f is void, and
\* nothing of value may be left in a variable.
Leave(f, st, out) ==
    LET val == IF out.halt = "" THEN VoidV ELSE out.val
        back == [out EXCEPT !.env = st.env, !.store = st.store, !.depth = st.depth]
    IN  IF out.halt \notin {"", "return"} THEN back
        ELSE IF \/ \E i \in DOMAIN out.store : IsLinearV(out.store[i])
                \/ (val = VoidV) # (f.ret = VoidT)
        THEN Halt(back, Fault)
        ELSE Val(Halt(back, ""), val)

\* The function f of module a on arguments.
EvalBody(a, f, st, args) ==
    Leave(f, st, ExecBody(a, NewCells([st EXCEPT !.env = <<>>, !.store = <<>>, !.depth = @ + 1],
                                      [i \in DOMAIN f.params |-> f.params[i].name], args), f.body))

EvalCall(fn, st, args) ==
    IF st.depth >= MaxCallDepth THEN Halt(st, "CallStackOverflow")
    ELSE EvalBody(fn[1], st.lib[fn[1]].fns[fn[2]], st, args)

Outcome(st) == [err |-> st.halt, val |-> IF st.halt = "" THEN st.val ELSE VoidV, ctx |-> st.ctx]

\* The outcome [err, val, ctx] of the function f of module a.
Evaluate(a, f, args) ==
    Outcome(EvalBody(a, f, [lib |-> Units, env |-> <<>>, store |-> <<>>, ctx |-> NoContext,
                            depth |-> 0, halt |-> "", val |-> VoidV], args))
=============================================================================
