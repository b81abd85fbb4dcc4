------------------------------- MODULE Codegen -------------------------------
(***************************************************************************)
(* The code generator (codegen.rs).  Its state is a record                 *)
(*    [ok, locals: name -> [slot, depth], types: slot -> type, moved, next,*)
(*     depth, code]                                                        *)
(* and an operator takes the state before a construct to the state after   *)
(* it; ok is FALSE after an error, and nothing is generated from then on.  *)
(* The types it tracks are guesses from the source (NoType: no guess),     *)
(* there to catch structs that are used twice or dropped.                  *)
(***************************************************************************)
EXTENDS TypeChecker

CONSTANTS
    MaxLocals,       \* CompilerConfig::max_locals
    MaxTupleElems,   \* CompilerConfig::max_tuple_elements
    MaxCode          \* CompilerConfig::max_fun_code_size

NoType == [k |-> "none"]

Fail(c) == [c EXCEPT !.ok = FALSE]

AddAll(c, code) == IF c.ok THEN [c EXCEPT !.code = @ \o code] ELSE c

Add(c, i) == AddAll(c, <<i>>)

IsPrimitive(ty) == ty.k \in {"bool", "u64", "address", "str"}

TypeAt(c, slot) == IF slot \in DOMAIN c.types THEN c.types[slot] ELSE NoType

\* A slot known to hold a value that moves; tuples count as such.
HoldsStruct(c, slot) == slot \in DOMAIN c.types /\ ~IsPrimitive(c.types[slot])

\* check_field_read and check_field_write refuse the fields of such a type.
IsForeignType(ty) == ty.k = "struct" /\ IsQualified(ty.t)

SetType(c, slot, ty) ==
    IF ty = NoType THEN c ELSE [c EXCEPT !.types = (slot :> ty) @@ @]

DropType(c, slot) == [c EXCEPT !.types = [s \in DOMAIN c.types \ {slot} |-> c.types[s]]]

(***************************************************************************)
(* Types guessed from the source.                                          *)
(***************************************************************************)
\* The struct definitions codegen knows by the name t: its own with field
\* types translated, those of imports as their modules record them.
HasDef(u, t) == KnownStruct(u, t)

DefFields(u, t) ==
    IF ~IsQualified(t) THEN TranslateFields(u, u.structs[t[2]].fields)
    ELSE u.deps[t[1]].structs[t[2]].fields

GuessField(u, ty, name) ==
    IF ty.k # "struct" THEN NoType
    ELSE IF ~HasDef(u, ty.t) THEN NoType
    ELSE LET fields == DefFields(u, ty.t)
             at == {i \in DOMAIN fields : fields[i].name = name}
         IN  IF at = {} THEN NoType ELSE fields[CHOOSE i \in at : TRUE].ty

FieldPathType(u, ty, path) == FoldLeft(LAMBDA t, n : GuessField(u, t, n), ty, path)

\* The result of a call, under the alias of the callee; natives are not looked
\* up, and the name made for a struct of a third module names no definition.
GuessCall(u, f) ==
    LET ret == u.deps[f[1]].fns[f[2]].ret
    IN  IF ~IsQualified(f)
        THEN IF f[2] \in DOMAIN u.fns /\ u.fns[f[2]].ret # VoidT THEN u.fns[f[2]].ret ELSE NoType
        ELSE IF ~Declared(u, f) THEN NoType
        ELSE IF f[2] \notin DOMAIN u.deps[f[1]].fns \/ ret = VoidT THEN NoType
        ELSE IF ret.k # "struct" THEN ret
        ELSE StructT(<<IF IsQualified(ret.t) THEN "unknown" ELSE f[1], ret.t[2]>>)

RECURSIVE InferType(_, _, _)
InferType(u, c, e) ==
    CASE e.e = "lit" -> [k |-> e.v.k]
      [] e.e = "id" -> IF e.x \in DOMAIN c.locals THEN TypeAt(c, c.locals[e.x].slot) ELSE NoType
      [] e.e = "struct" -> StructT(e.t)
      [] e.e = "field" -> GuessField(u, InferType(u, c, e.a), e.name)
      [] e.e = "call" -> GuessCall(u, e.f)
      [] e.e = "bin" -> IF e.op \in {"Add", "Sub", "Mul", "Div", "Mod"} THEN U64T ELSE BoolT
      [] e.e = "not" -> BoolT
      [] e.e = "tuple" ->
            LET tys == [i \in DOMAIN e.es |-> InferType(u, c, e.es[i])]
            IN  IF \E i \in DOMAIN tys : tys[i] = NoType THEN NoType ELSE TupleT(tys)

(***************************************************************************)
(* Locals.                                                                 *)
(***************************************************************************)
\* A slip: any binding of the name is reused, also one of an outer scope.
AnyScope(c, x) == x \in DOMAIN c.locals

\* A name bound in the same scope keeps its slot.
SameScope(c, x) == x \in DOMAIN c.locals /\ c.locals[x].depth = c.depth

\* A slip: a slot that is used again stays marked as moved out of.
AllocLocalStaysMoved(c, x) ==
    IF ~c.ok THEN c
    ELSE IF SameScope(c, x) THEN IF HoldsStruct(c, c.locals[x].slot) THEN Fail(c) ELSE c
    ELSE IF c.next > MaxLocals THEN Fail(c)
    ELSE [c EXCEPT !.locals = (x :> [slot |-> c.next, depth |-> c.depth]) @@ @,
                   !.next = @ + 1]

\* alloc_local; the slot is then c.locals[x].slot.
AllocLocal(c, x) ==
    IF ~c.ok THEN c
    ELSE IF SameScope(c, x)
    THEN IF HoldsStruct(c, c.locals[x].slot) THEN Fail(c)
         ELSE [c EXCEPT !.moved = @ \ {c.locals[x].slot}]
    ELSE IF c.next > MaxLocals THEN Fail(c)
    ELSE [c EXCEPT !.locals = (x :> [slot |-> c.next, depth |-> c.depth]) @@ @,
                   !.next = @ + 1]

\* Bind x to a new value of the type and store the top of the stack in it.
StoreNew(c, x, ty) ==
    LET d == AllocLocal(c, x)
        slot == d.locals[x].slot
    IN  IF d.ok THEN Add(SetType(d, slot, ty), StoreI(slot)) ELSE d

(***************************************************************************)
(* Expressions.                                                            *)
(***************************************************************************)
RECURSIVE RootOf(_)
RootOf(e) == IF e.e = "field" THEN RootOf(e.a) ELSE e

RECURSIVE PathOf(_)
PathOf(e) == IF e.e = "field" THEN Append(PathOf(e.a), e.name) ELSE <<>>

\* Reading a struct moves it out of its slot.
LoadName(c, x) ==
    LET slot == c.locals[x].slot
    IN  IF x \notin DOMAIN c.locals THEN Fail(c)
        ELSE IF slot \in c.moved THEN Fail(c)
        ELSE Add(IF HoldsStruct(c, slot) THEN [DropType(c, slot) EXCEPT !.moved = @ \cup {slot}]
                 ELSE c, LoadI(slot))

\* A field of a local is read in place, unless it is a struct.
LoadFieldOf(u, c, x, path) ==
    LET slot == c.locals[x].slot
        ty == TypeAt(c, slot)
    IN  IF IsForeignType(ty) \/ FieldPathType(u, ty, path).k = "struct" THEN Fail(c)
        ELSE Add(c, LoadFieldI(slot, path))

\* check_getfield_on_struct: GetField consumes the struct with all its fields.
GetFieldAllowed(u, ty) ==
    ty.k = "struct" =>
        /\ ~IsQualified(ty.t)
        /\ HasDef(u, ty.t) => \A i \in DOMAIN DefFields(u, ty.t) : DefFields(u, ty.t)[i].ty.k # "struct"

CallVisible(u, f) ==
    IsQualified(f) =>
        /\ Declared(u, f)
        /\ f[2] \in DOMAIN u.deps[f[1]].fns
        /\ u.deps[f[1]].fns[f[2]].pub

\* The expressions of a literal, in the order of the definition.
LiteralOrder(u, t, fs) ==
    [i \in DOMAIN u.structs[t[2]].fields |-> FieldExpr(fs, u.structs[t[2]].fields[i].name)]

DefNames(u, t) == [i \in DOMAIN DefFields(u, t) |-> DefFields(u, t)[i].name]

ReadsInPlace(c, e) == e.e = "field" /\ RootOf(e).e = "id" /\ RootOf(e).x \in DOMAIN c.locals

ExprAllowed(u, c, e) ==
    CASE e.e = "field" -> GetFieldAllowed(u, InferType(u, c, RootOf(e)))
      [] e.e = "struct" -> ~IsQualified(e.t) /\ HasDef(u, e.t)
      [] e.e = "tuple" -> Len(e.es) <= MaxTupleElems
      [] e.e = "call" -> CallVisible(u, e.f)
      [] OTHER -> TRUE

Operands(u, e) ==
    CASE e.e = "bin" -> <<e.l, e.r>>
      [] e.e = "not" -> <<e.a>>
      [] e.e = "field" -> <<RootOf(e)>>
      [] e.e = "struct" -> LiteralOrder(u, e.t, e.fs)
      [] e.e = "tuple" -> e.es
      [] e.e = "call" -> e.args
      [] OTHER -> <<>>

\* The instructions that follow the operands.
ExprCode(u, e) ==
    CASE e.e = "lit" -> <<PushI(e.v)>>
      [] e.e = "bin" -> <<Op(e.op)>>
      [] e.e = "not" -> <<Op("Not")>>
      [] e.e = "field" -> LET path == PathOf(e) IN [i \in DOMAIN path |-> GetFieldI(path[i])]
      [] e.e = "struct" -> <<NewI(e.t, DefNames(u, e.t))>>
      [] e.e = "tuple" -> <<MakeTupleI(Len(e.es))>>
      [] e.e = "call" -> <<CallI(TranslateName(u, e.f))>>

RECURSIVE CompileExpr(_, _, _)

RECURSIVE CompileAll(_, _, _)
CompileAll(u, c, es) ==
    IF es = <<>> \/ ~c.ok THEN c ELSE CompileAll(u, CompileExpr(u, c, Head(es)), Tail(es))

CompileExpr(u, c, e) ==
    IF e.e = "id" THEN LoadName(c, e.x)
    ELSE IF ReadsInPlace(c, e) THEN LoadFieldOf(u, c, RootOf(e).x, PathOf(e))
    ELSE IF ~ExprAllowed(u, c, e) THEN Fail(c)
    ELSE AddAll(CompileAll(u, c, Operands(u, e)), ExprCode(u, e))

(***************************************************************************)
(* Statements.                                                             *)
(***************************************************************************)
\* Locals of the branch that still hold a struct when it ends.
BranchLeak(c, outer) ==
    \E x \in DOMAIN c.locals :
        /\ x \in DOMAIN outer => outer[x].slot # c.locals[x].slot
        /\ HoldsStruct(c, c.locals[x].slot)

Terminates(body) == body # <<>> /\ Last(body).s = "return"

\* What is known after an if: the outcome of the branches that go on.  A slot
\* keeps its type where both agree, and is moved if either moved it.
JoinBranches(then, else, s) ==
    IF Terminates(s.body) THEN else
    ELSE IF s.else # <<>> /\ Terminates(s.else[1])
    THEN [else EXCEPT !.types = then.types, !.moved = then.moved]
    ELSE [else EXCEPT
            !.types = [slot \in {t \in DOMAIN else.types : TypeAt(then, t) = else.types[t]} |->
                          else.types[slot]],
            !.moved = @ \cup then.moved]

\* The jump at pc is made to reach the next instruction to be generated.
Patch(c, pc) == IF c.ok THEN [c EXCEPT !.code[pc].off = Len(c.code) + 1 - pc] ELSE c

\* In the rest, d is the state after the expression of the statement s.
CompileLetStruct(u, d, s) ==
    LET names == DefNames(u, s.t)
        fields == DefFields(u, s.t)
        bound == {s.binds[i][1] : i \in DOMAIN s.binds}
        BindingOf(n) == s.binds[Max({i \in DOMAIN s.binds : s.binds[i][1] = n})][2]
        Field(x, i) ==
            IF names[i] \in bound THEN StoreNew(x, BindingOf(names[i]), fields[i].ty)
            ELSE IF fields[i].ty.k = "struct" THEN Fail(x) ELSE Add(x, Op("Pop"))
    IN  IF ~HasDef(u, s.t) THEN Fail(d)
        ELSE IF ~(bound \subseteq ToSet(names)) \/ (~s.rest /\ bound # ToSet(names)) THEN Fail(d)
        ELSE FoldLeft(Field, Add(d, UnpackI(TranslateName(u, s.t), names)), [i \in DOMAIN names |-> i])

CompileLetTuple(d, s, ty) ==
    LET known == ty.k = "tuple" /\ Len(ty.ts) = Len(s.xs)
        Elem(x, i) == StoreNew(x, s.xs[i], IF known THEN ty.ts[i] ELSE NoType)
    IN  IF Len(s.xs) > MaxTupleElems THEN Fail(d)
        ELSE FoldLeft(Elem, Add(d, UnpackTupleI(Len(s.xs))), [i \in DOMAIN s.xs |-> i])

CompileReassign(c, d, s, ty) ==
    LET slot == c.locals[s.x].slot
        stored == [Add(d, StoreI(slot)) EXCEPT !.moved = @ \ {slot}]
    IN  IF s.x \notin DOMAIN c.locals THEN Fail(c)
        ELSE IF HoldsStruct(c, slot) THEN Fail(c)
        ELSE IF ty = NoType THEN DropType(stored, slot) ELSE SetType(stored, slot, ty)

CompileFieldAssign(u, c, d, s) ==
    LET slot == c.locals[s.x].slot
        ty == TypeAt(c, slot)
    IN  IF s.x \notin DOMAIN c.locals THEN Fail(c)
        ELSE IF IsForeignType(ty) \/ FieldPathType(u, ty, s.path).k = "struct" THEN Fail(c)
        ELSE Add(d, StoreFieldI(slot, s.path))

RECURSIVE CompileStmt(_, _, _)

RECURSIVE CompileBody(_, _, _)
CompileBody(u, c, body) ==
    IF body = <<>> \/ ~c.ok THEN c ELSE CompileBody(u, CompileStmt(u, c, Head(body)), Tail(body))

LeaveBranch(d, inner) ==
    IF ~inner.ok \/ BranchLeak(inner, d.locals) THEN Fail(d)
    ELSE [inner EXCEPT !.depth = d.depth, !.locals = d.locals]

CompileBranch(u, d, body) ==
    LeaveBranch(d, CompileBody(u, [d EXCEPT !.depth = @ + 1], body))

\* The else-branch starts from what was known before the then-branch.
CompileElse(u, d, then, s) ==
    LET at == Len(d.code) + 1
        over == Len(then.code) + 1
        back == [then EXCEPT !.types = d.types, !.moved = d.moved]
    IN  IF s.else = <<>> THEN Patch(back, at)
        ELSE Patch(CompileBranch(u, Patch(Add(back, JumpI("Jump", 0)), at), s.else[1]), over)

CompileIf(u, d, s) ==
    LET then == CompileBranch(u, Add(d, JumpI("JumpIfNot", 0)), s.body)
    IN  IF d.ok THEN JoinBranches(then, CompileElse(u, d, then, s), s) ELSE d

\* ty is the guess for the type of the expression.
CompileRest(u, c, d, s, ty) ==
    CASE s.s = "let" -> StoreNew(d, s.x, ty)
      [] s.s = "reassign" -> CompileReassign(c, d, s, ty)
      [] s.s = "return" -> Add(d, Op("Return"))
      [] s.s = "expr" ->
            IF ty # NoType /\ ~IsPrimitive(ty) THEN Fail(c) ELSE Add(d, Op("Pop"))
      [] s.s = "if" -> CompileIf(u, d, s)
      [] s.s = "field_assign" -> CompileFieldAssign(u, c, d, s)
      [] s.s = "let_tuple" -> CompileLetTuple(d, s, ty)
      [] s.s = "let_struct" -> CompileLetStruct(u, d, s)

CompileStmt(u, c, s) ==
    IF ~HasExpr(s) THEN CompileRest(u, c, c, s, NoType)
    ELSE CompileRest(u, c, CompileExpr(u, c, ExprOf(s)), s, InferType(u, c, ExprOf(s)))

(***************************************************************************)
(* Functions.                                                              *)
(***************************************************************************)
CodegenStart(u, f) ==
    LET Param(c, p) ==
            LET d == AllocLocal(c, p.name)
            IN  IF d.ok THEN SetType(d, d.locals[p.name].slot, TranslateType(u, p.ty)) ELSE d
    IN  FoldLeft(Param, [ok |-> TRUE, locals |-> <<>>, types |-> <<>>, moved |-> {}, next |-> 1,
                         depth |-> 0, code |-> <<>>], f.params)

Unconsumed(c) == \E x \in DOMAIN c.locals : HoldsStruct(c, c.locals[x].slot)

\* The end of compile_function: a Return is added unless the last instruction
\* is one.
CodegenEnd(c) ==
    LET d == IF c.code # <<>> /\ Last(c.code) = Op("Return") THEN c ELSE Add(c, Op("Return"))
    IN  IF ~c.ok \/ Unconsumed(c) \/ Len(d.code) > MaxCode THEN Fail(c) ELSE d

\* The compiled function, given the state codegen ended in.
Compiled(u, f, c) ==
    [pub |-> f.pub, params |-> [i \in DOMAIN f.params |-> TranslateType(u, f.params[i].ty)],
     ret |-> TranslateType(u, f.ret), locals |-> c.next - 1, code |-> c.code]

CompileFunction(u, f) ==
    CodegenEnd(CompileBody(u, CodegenStart(u, f), f.body))
=============================================================================
