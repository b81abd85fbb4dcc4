------------------------------ MODULE Compiler ------------------------------
(***************************************************************************)
(* Compilation of a module (lib.rs and validator.rs of meow-vm-compiler):  *)
(* limits, struct definitions and the types the module names are checked,  *)
(* then every function is type-checked, then code is generated for each.   *)
(* The checks on the modules it imports are in Dependencies; which strings *)
(* are identifiers is left out.                                            *)
(***************************************************************************)
EXTENDS Codegen

CONSTANTS
    MaxStructs,     \* CompilerConfig::max_structs
    MaxFunctions,   \* CompilerConfig::max_functions
    MaxFields,      \* CompilerConfig::max_fields
    MaxParams       \* CompilerConfig::max_params

LimitsOk(u) ==
    Cardinality(DOMAIN u.structs) <= MaxStructs /\ Cardinality(DOMAIN u.fns) <= MaxFunctions

StructDefOk(def) ==
    /\ Len(def.fields) \in 1..MaxFields
    /\ \A i \in DOMAIN def.fields : IsPrimitive(def.fields[i].ty) \/ def.fields[i].ty.k = "struct"

RECURSIVE TypeRefKnown(_, _)
TypeRefKnown(u, ty) ==
    CASE ty.k = "struct" -> KnownStruct(u, ty.t)
      [] ty.k = "tuple" -> \A i \in DOMAIN ty.ts : TypeRefKnown(u, ty.ts[i])
      [] OTHER -> TRUE

\* The fields of a struct as the search for cycles sees them: those of another
\* module's struct have the names that module gave them.
FieldsInSearch(u, t) ==
    IF ~KnownStruct(u, t) THEN <<>>
    ELSE IF IsQualified(t) THEN u.deps[t[1]].structs[t[2]].fields
    ELSE u.structs[t[2]].fields

\* A depth-first search [visited, stack, cycle] goes on from the struct t.
RECURSIVE DfsStructCycle(_, _, _)
DfsStructCycle(u, d, t) ==
    LET Visit(s, field) ==
            IF s.cycle \/ field.ty.k # "struct" THEN s
            ELSE IF field.ty.t \notin s.visited THEN DfsStructCycle(u, s, field.ty.t)
            ELSE [s EXCEPT !.cycle = field.ty.t \in s.stack]
        left == FoldLeft(Visit, [d EXCEPT !.visited = @ \cup {t}, !.stack = @ \cup {t}],
                         FieldsInSearch(u, t))
    IN  IF left.cycle THEN left ELSE [left EXCEPT !.stack = @ \ {t}]

HasStructCycle(u) ==
    FoldLeft(LAMBDA d, n : IF d.cycle \/ <<Local, n>> \in d.visited THEN d
                           ELSE DfsStructCycle(u, d, <<Local, n>>),
             [visited |-> {}, stack |-> {}, cycle |-> FALSE], SetToSeq(DOMAIN u.structs)).cycle

StructRefsOk(u) ==
    /\ \A n \in DOMAIN u.structs : \A i \in DOMAIN u.structs[n].fields :
          TypeRefKnown(u, u.structs[n].fields[i].ty)
    /\ ~HasStructCycle(u)

FunctionTypeRefsOk(u, f) ==
    (\A i \in DOMAIN f.params : TypeRefKnown(u, f.params[i].ty)) /\ TypeRefKnown(u, f.ret)

\* validate_function_name: the names of natives are reserved.
FunctionNamesOk(u) == DOMAIN u.fns \cap DOMAIN Natives = {}

FunctionCompiles(u, f) ==
    /\ Len(f.params) <= MaxParams
    /\ FunctionTypeRefsOk(u, f) /\ CheckFunction(u, f) /\ CompileFunction(u, f).ok

ModuleCompiles(u) ==
    /\ LimitsOk(u) /\ FunctionNamesOk(u)
    /\ \A n \in DOMAIN u.structs : StructDefOk(u.structs[n])
    /\ StructRefsOk(u)
    /\ \A n \in DOMAIN u.fns : FunctionCompiles(u, u.fns[n])

\* What compilation makes of the modules units.
CompiledStructs(units) ==
    [t \in UNION {{a} \X DOMAIN units[a].structs : a \in DOMAIN units} |->
        CompiledModule(units[t[1]]).structs[t[2]]]

CompiledFunction(u, f) == Compiled(u, f, CompileFunction(u, f))

CompiledFuns(units) ==
    [f \in UNION {{a} \X DOMAIN units[a].fns : a \in DOMAIN units} |->
        CompiledFunction(Input(units, units[f[1]]), units[f[1]].fns[f[2]])]
=============================================================================
