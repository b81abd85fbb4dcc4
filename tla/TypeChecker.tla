----------------------------- MODULE TypeChecker -----------------------------
(***************************************************************************)
(* The type checker of the compiler (type_checker.rs).  It knows types by  *)
(* their source names, so the types of a dependency's compiled module are  *)
(* translated back first.                                                  *)
(*                                                                         *)
(* The type of an expression is a type, VoidT for a call without a result, *)
(* or ErrT; an environment is [ok, vars: name -> type].                    *)
(***************************************************************************)
EXTENDS Ast

ErrT == [k |-> "error"]

\* require_typed: an expression that has a value.
HasValue(ty) == ty.k \notin {"void", "error"}

(***************************************************************************)
(* What the source may name.                                               *)
(***************************************************************************)
\* reverse_translate_type, then qualify_dep_local_type.
RECURSIVE FromDep(_, _, _)
FromDep(u, ty, alias) ==
    CASE ty.k = "struct" ->
            StructT(IF ~IsQualified(ty.t) THEN <<alias, ty.t[2]>>
                    ELSE IF \E a \in DOMAIN u.uses : u.uses[a] = ty.t[1]
                    THEN <<CHOOSE a \in DOMAIN u.uses : u.uses[a] = ty.t[1], ty.t[2]>>
                    ELSE ty.t)
      [] ty.k = "tuple" -> TupleT([i \in DOMAIN ty.ts |-> FromDep(u, ty.ts[i], alias)])
      [] OTHER -> ty

\* The structs a module may name: its own, and the public ones of its imports.
KnownStruct(u, t) ==
    IF ~IsQualified(t) THEN t[2] \in DOMAIN u.structs
    ELSE /\ Declared(u, t)
         /\ t[2] \in DOMAIN u.deps[t[1]].structs
         /\ u.deps[t[1]].structs[t[2]].pub

SourceFields(u, t) ==
    IF ~IsQualified(t) THEN u.structs[t[2]].fields
    ELSE LET fields == u.deps[t[1]].structs[t[2]].fields
         IN  [i \in DOMAIN fields |->
                [name |-> fields[i].name, ty |-> FromDep(u, fields[i].ty, t[1])]]

\* The type of a field, or ErrT.  Fields of other modules are private.
FieldOf(u, ty, name) ==
    IF ty.k # "struct" THEN ErrT
    ELSE IF IsQualified(ty.t) \/ ~KnownStruct(u, ty.t) THEN ErrT
    ELSE LET fields == u.structs[ty.t[2]].fields
             at == {i \in DOMAIN fields : fields[i].name = name}
         IN  IF at = {} THEN ErrT ELSE fields[CHOOSE i \in at : TRUE].ty

\* adapter_native_sigs_for_compiler: Id under the name its module declares,
\* whatever alias the source gives it.
SourceId == StructT(<<"meow_object", "Id">>)

NativeSig(n) ==
    [params |-> [i \in DOMAIN Natives[n].params |->
                    IF Natives[n].params[i] = IdT THEN SourceId ELSE Natives[n].params[i]],
     ret |-> IF Natives[n].ret = IdT THEN SourceId ELSE Natives[n].ret]

IsNativeName(f) == ~IsQualified(f) /\ f[2] \in DOMAIN Natives

HasSourceSig(u, f) ==
    IF ~IsQualified(f) THEN f[2] \in DOMAIN u.fns
    ELSE /\ Declared(u, f)
         /\ f[2] \in DOMAIN u.deps[f[1]].fns
         /\ u.deps[f[1]].fns[f[2]].pub

SourceSig(u, f) ==
    IF ~IsQualified(f)
    THEN LET g == u.fns[f[2]]
         IN  [params |-> [i \in DOMAIN g.params |-> g.params[i].ty], ret |-> g.ret]
    ELSE LET g == u.deps[f[1]].fns[f[2]]
         IN  [params |-> [i \in DOMAIN g.params |-> FromDep(u, g.params[i], f[1])],
              ret |-> FromDep(u, g.ret, f[1])]

(***************************************************************************)
(* Expressions.                                                            *)
(***************************************************************************)
BinType(op, l, r) ==
    CASE op \in {"Add", "Sub", "Mul", "Div", "Mod"} -> IF l = U64T /\ r = U64T THEN U64T ELSE ErrT
      [] op \in {"Lt", "Le", "Gt", "Ge"} -> IF l = U64T /\ r = U64T THEN BoolT ELSE ErrT
      [] op \in {"Eq", "Ne"} -> IF l = r /\ ~IsLinear(l) /\ HasValue(l) THEN BoolT ELSE ErrT
      [] op \in {"And", "Or"} -> IF l = BoolT /\ r = BoolT THEN BoolT ELSE ErrT

\* Natives come first; a function nobody declares is left to the verifier.
CallType(u, f, tys) ==
    LET sig == IF IsNativeName(f) THEN NativeSig(f[2]) ELSE SourceSig(u, f)
        Fits(p, ty) == IF p = LocalStructP THEN ty.k = "struct" /\ ~IsQualified(ty.t) ELSE p = ty
    IN  IF \E i \in DOMAIN tys : ~HasValue(tys[i]) THEN ErrT
        ELSE IF ~IsNativeName(f) /\ ~HasSourceSig(u, f) THEN VoidT
        ELSE IF Len(tys) = Len(sig.params) /\ \A i \in DOMAIN tys : Fits(sig.params[i], tys[i])
        THEN sig.ret ELSE ErrT

\* A literal that names a field twice counts the last.
FieldExpr(fs, name) == fs[Max({i \in DOMAIN fs : fs[i][1] = name})][2]

RECURSIVE ExprType(_, _, _)
ExprType(u, e, vs) ==
    CASE e.e = "lit" -> [k |-> e.v.k]
      [] e.e = "id" -> IF e.x \in DOMAIN vs THEN vs[e.x] ELSE ErrT
      [] e.e = "not" -> IF ExprType(u, e.a, vs) = BoolT THEN BoolT ELSE ErrT
      [] e.e = "bin" -> BinType(e.op, ExprType(u, e.l, vs), ExprType(u, e.r, vs))
      [] e.e = "field" -> FieldOf(u, ExprType(u, e.a, vs), e.name)
      [] e.e = "call" -> CallType(u, e.f, [i \in DOMAIN e.args |-> ExprType(u, e.args[i], vs)])
      [] e.e = "tuple" ->
            LET tys == [i \in DOMAIN e.es |-> ExprType(u, e.es[i], vs)]
            IN  IF \A i \in DOMAIN tys : HasValue(tys[i]) THEN TupleT(tys) ELSE ErrT
      [] e.e = "struct" ->
            LET fields == u.structs[e.t[2]].fields
                given == {e.fs[i][1] : i \in DOMAIN e.fs}
            IN  IF IsQualified(e.t) THEN StructT(e.t)   \* left to codegen, which refuses it
                ELSE IF /\ KnownStruct(u, e.t)
                        /\ given = {fields[i].name : i \in DOMAIN fields}
                        /\ \A i \in DOMAIN fields :
                              ExprType(u, FieldExpr(e.fs, fields[i].name), vs) = fields[i].ty
                THEN StructT(e.t) ELSE ErrT

(***************************************************************************)
(* Statements.                                                             *)
(***************************************************************************)
Bad(env) == [env EXCEPT !.ok = FALSE]

Bind(env, x, ty) == [env EXCEPT !.vars = (x :> ty) @@ @]

\* Bind names to types in order; "_" binds nothing.
BindAll(env, xs, tys) ==
    FoldLeft(LAMBDA v, i : IF xs[i] = "_" THEN v ELSE Bind(v, xs[i], tys[i]), env,
             [i \in DOMAIN xs |-> i])

\* A value of the expected type, or a call without a result, which no
\* assignment and no return checks for.
Assignable(ty, expected) == ty = expected \/ ty = VoidT

CheckFieldAssign(u, s, env, ty) ==
    LET Step(t, n) == FieldOf(u, t, n)
        Upto(i) == FoldLeft(Step, env.vars[s.x], SubSeq(s.path, 1, i))
        private == \E i \in 0..(Len(s.path) - 1) : Upto(i).k = "struct" /\ IsQualified(Upto(i).t)
        target == Upto(Len(s.path))
    IN  IF s.x \notin DOMAIN env.vars \/ ty = ErrT THEN Bad(env)
        ELSE IF private THEN env   \* left to codegen, which refuses it
        ELSE IF target # ErrT /\ Assignable(ty, target) THEN env ELSE Bad(env)

CheckLetStruct(u, s, env, ty) ==
    LET fields == SourceFields(u, s.t)
        names == {fields[i].name : i \in DOMAIN fields}
        TypeOf(n) == fields[CHOOSE i \in DOMAIN fields : fields[i].name = n].ty
    IN  IF ~HasValue(ty) \/ (~IsQualified(s.t) /\ ty # StructT(s.t)) THEN Bad(env)
        ELSE IF ~KnownStruct(u, s.t) THEN env
        ELSE IF \E i \in DOMAIN s.binds : s.binds[i][2] # "_" /\ s.binds[i][1] \notin names
        THEN Bad(env)
        ELSE BindAll(env, [i \in DOMAIN s.binds |-> s.binds[i][2]],
                     [i \in DOMAIN s.binds |-> IF s.binds[i][2] = "_" THEN VoidT ELSE TypeOf(s.binds[i][1])])

RECURSIVE CheckStmt(_, _, _, _)

RECURSIVE CheckBody(_, _, _, _)
CheckBody(u, ret, body, env) ==
    IF body = <<>> \/ ~env.ok THEN env
    ELSE CheckBody(u, ret, Tail(body), CheckStmt(u, ret, Head(body), env))

\* A statement whose expression, if it has one, is of type ty.
CheckTyped(u, ret, s, env, ty) ==
    LET Unless(fine) == IF fine THEN env ELSE Bad(env)
    IN  CASE s.s = "let" -> IF HasValue(ty) THEN Bind(env, s.x, ty) ELSE Bad(env)
          [] s.s = "reassign" ->
                Unless(s.x \in DOMAIN env.vars /\ Assignable(ty, env.vars[s.x]))
          [] s.s = "return" ->
                Unless(IF ~HasExpr(s) THEN ret = VoidT
                       ELSE IF ret = VoidT THEN ty # ErrT ELSE Assignable(ty, ret))
          [] s.s = "expr" -> Unless(ty # ErrT)
          [] s.s = "if" ->
                Unless(/\ ty = BoolT /\ CheckBody(u, ret, s.body, env).ok
                       /\ \A i \in DOMAIN s.else : CheckBody(u, ret, s.else[i], env).ok)
          [] s.s = "field_assign" -> CheckFieldAssign(u, s, env, ty)
          [] s.s = "let_tuple" ->
                IF ty.k = "tuple" /\ Len(ty.ts) = Len(s.xs) THEN BindAll(env, s.xs, ty.ts)
                ELSE Bad(env)
          [] s.s = "let_struct" -> CheckLetStruct(u, s, env, ty)

CheckStmt(u, ret, s, env) ==
    CheckTyped(u, ret, s, env, IF HasExpr(s) THEN ExprType(u, ExprOf(s), env.vars) ELSE VoidT)

CheckStart(f) ==
    FoldLeft(LAMBDA env, p : Bind(env, p.name, p.ty), [ok |-> TRUE, vars |-> <<>>], f.params)

CheckFunction(u, f) == CheckBody(u, f.ret, f.body, CheckStart(f)).ok
=============================================================================
