--------------------------------- MODULE Ast ---------------------------------
(***************************************************************************)
(* The abstract syntax of meow source, as the parser hands it to the rest  *)
(* of the compiler (crate meow-vm-compiler, ast.rs), and the modules of a  *)
(* compilation.                                                            *)
(*                                                                         *)
(* A name of the source is a pair <<module, name>> too, whose module is    *)
(* Local or the alias under which a `use` declares a dependency; in the    *)
(* bytecode the alias is replaced by the address of the module.            *)
(***************************************************************************)
EXTENDS Bytecode

CONSTANT
    Units   \* address -> [uses, structs, fns], the sources of the modules:
            \*   uses:    alias -> address
            \*   structs: name -> [pub, fields: Seq([name, ty])]
            \*   fns:     name -> [pub, params: Seq([name, ty]), ret, body: Seq(statement)]

(***************************************************************************)
(* Expressions.                                                            *)
(***************************************************************************)
LitE(v) == [e |-> "lit", v |-> v]
IdE(x) == [e |-> "id", x |-> x]
BinE(l, op, r) == [e |-> "bin", l |-> l, op |-> op, r |-> r]
NotE(a) == [e |-> "not", a |-> a]
FieldE(a, name) == [e |-> "field", a |-> a, name |-> name]
StructE(t, fs) == [e |-> "struct", t |-> t, fs |-> fs]   \* fs: Seq(<<name, expr>>)
CallE(f, args) == [e |-> "call", f |-> f, args |-> args]
TupleE(es) == [e |-> "tuple", es |-> es]

(***************************************************************************)
(* Statements.  An optional part is a sequence of length 0 or 1.           *)
(***************************************************************************)
LetS(x, e) == [s |-> "let", x |-> x, e |-> e]
ReassignS(x, e) == [s |-> "reassign", x |-> x, e |-> e]
ReturnS(opt) == [s |-> "return", opt |-> opt]
ExprS(e) == [s |-> "expr", e |-> e]
IfS(cond, body, else) == [s |-> "if", cond |-> cond, body |-> body, else |-> else]
FieldAssignS(x, path, e) == [s |-> "field_assign", x |-> x, path |-> path, e |-> e]
LetTupleS(xs, e) == [s |-> "let_tuple", xs |-> xs, e |-> e]
LetStructS(t, binds, e, rest) ==   \* binds: Seq(<<field, name>>)
    [s |-> "let_struct", t |-> t, binds |-> binds, e |-> e, rest |-> rest]

\* An expression at the end of a body, without a semicolon, is returned.
TrailingS(e) == ReturnS(<<e>>)

\* The expression a statement starts with.
HasExpr(s) == s.s = "return" => s.opt # <<>>

ExprOf(s) == CASE s.s = "if" -> s.cond [] s.s = "return" -> s.opt[1] [] OTHER -> s.e

(***************************************************************************)
(* Names across modules.                                                   *)
(***************************************************************************)
Declared(u, t) == IsQualified(t) => t[1] \in DOMAIN u.uses

TranslateName(u, t) == IF IsQualified(t) THEN <<u.uses[t[1]], t[2]>> ELSE t

\* alias::T becomes @0xADDR::T.
RECURSIVE TranslateType(_, _)
TranslateType(u, ty) ==
    CASE ty.k = "struct" -> StructT(TranslateName(u, ty.t))
      [] ty.k = "tuple" -> TupleT([i \in DOMAIN ty.ts |-> TranslateType(u, ty.ts[i])])
      [] OTHER -> ty

TranslateFields(u, fields) ==
    [i \in DOMAIN fields |-> [name |-> fields[i].name, ty |-> TranslateType(u, fields[i].ty)]]

\* What a compiled module records of its structs and function signatures.
CompiledModule(u) ==
    [structs |-> [n \in DOMAIN u.structs |->
                    [pub |-> u.structs[n].pub, fields |-> TranslateFields(u, u.structs[n].fields)]],
     fns |-> [n \in DOMAIN u.fns |->
                [pub |-> u.fns[n].pub, ret |-> TranslateType(u, u.fns[n].ret),
                 params |-> [i \in DOMAIN u.fns[n].params |-> TranslateType(u, u.fns[n].params[i].ty)]]]]

\* What a compilation is given: the source of the module u, and under their
\* aliases the compiled modules it uses.
Input(units, u) ==
    [uses |-> u.uses, structs |-> u.structs, fns |-> u.fns,
     deps |-> [a \in DOMAIN u.uses |-> CompiledModule(units[u.uses[a]])]]
=============================================================================
