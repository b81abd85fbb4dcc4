------------------------------ MODULE Verifier ------------------------------
(***************************************************************************)
(* The language-level bytecode verifier (crate meow-vm-bytecode-verifier): *)
(* the structural phase and the abstract interpretation that tracks types  *)
(* and moves.  The list of errors is abstracted to one flag, ok: a module  *)
(* with any error is rejected, so what the pass does to its state after an *)
(* error (placeholders, early exits) is never seen.                        *)
(*                                                                         *)
(* The pass over a function is a scan                                      *)
(*    [cur |-> state, pend |-> pc -> state, far |-> furthest jump, ok]     *)
(* with state = [stack, locals, reachable], and Scan takes one instruction *)
(* of the loop in check_function.                                          *)
(***************************************************************************)
EXTENDS Bytecode, Relation

CONSTANTS
    Imports,    \* module -> the modules it imports
    MaxTuple    \* the largest tuple the compiler configuration admits

Dead == [k |-> "dead"]       \* SlotState::Dead; a live slot is its type
Unknown == [k |-> "unknown"] \* a field type that does not resolve

(***************************************************************************)
(* Structural phase: the shape of a module.                                *)
(***************************************************************************)
RECURSIVE TypeRefOk(_, _)
TypeRefOk(ty, here) ==
    CASE ty.k = "struct" ->
            /\ Qualify(ty.t, here) \in DOMAIN Structs
            /\ IsQualified(ty.t) => ty.t[1] \in Imports[here] /\ Structs[ty.t].pub
      [] ty.k = "tuple" -> \A i \in DOMAIN ty.ts : TypeRefOk(ty.ts[i], here)
      [] OTHER -> TRUE

LocalStructs(here) == {t \in DOMAIN Structs : t[1] = here}

\* No struct reaches itself through the local struct types of its fields.
Acyclic(here) ==
    LET Embeds[t, u \in LocalStructs(here)] ==
            \E i \in DOMAIN FieldTypes(t) : FieldTypes(t)[i] = StructT(<<Local, u[2]>>)
        Reaches == TransitiveClosure(Embeds, LocalStructs(here))
    IN  \A t \in LocalStructs(here) : ~Reaches[t, t]

StructsOk(here) ==
    /\ \A t \in LocalStructs(here) :
          /\ Structs[t].fields # <<>>
          /\ \A i \in DOMAIN FieldTypes(t) :
                FieldTypes(t)[i].k # "tuple" /\ TypeRefOk(FieldTypes(t)[i], here)
    /\ Acyclic(here)

SignatureOk(f, here) ==
    /\ \A i \in DOMAIN f.params : TypeRefOk(f.params[i], here)
    /\ TypeRefOk(f.ret, here)
    /\ f.ret.k = "tuple" => Len(f.ret.ts) <= MaxTuple
    /\ Len(f.params) <= f.locals

(***************************************************************************)
(* Structural phase: one instruction.  The upper bound of a jump needs the *)
(* length of the code and is checked by Accepted.                          *)
(***************************************************************************)
InstrOk(i, f, here) ==
    CASE i.op \in {"Load", "Store"} -> i.slot <= f.locals
      [] i.op \in {"LoadField", "StoreField"} -> i.slot <= f.locals /\ i.path # <<>>
      [] i.op \in {"Jump", "JumpIf", "JumpIfNot"} -> i.off > 0
      [] i.op \in {"NewStruct", "UnpackStruct"} ->
            /\ ~IsQualified(i.t)
            /\ Qualify(i.t, here) \in DOMAIN Structs
            /\ i.names = FieldNames(Qualify(i.t, here))
      [] i.op = "Call" -> IsQualified(i.f) /\ i.f \in DOMAIN Funs => Funs[i.f].pub
      [] i.op \in {"MakeTuple", "UnpackTuple"} -> i.n <= MaxTuple
      [] OTHER -> TRUE

(***************************************************************************)
(* Abstract states and their joins.                                        *)
(***************************************************************************)
\* The state a function starts in: parameters live, other slots dead.
Entry(f) ==
    [stack |-> <<>>, reachable |-> TRUE,
     locals |-> [s \in 1..f.locals |-> IF s \in DOMAIN f.params THEN f.params[s] ELSE Dead]]

BothReach(a, b) == a.reachable /\ b.reachable

\* Two paths join when their stacks agree and no linear slot differs.
MergeOk(a, b) ==
    BothReach(a, b) =>
        /\ a.stack = b.stack
        /\ \A s \in DOMAIN a.locals :
              a.locals[s] # b.locals[s] => ~IsLinear(a.locals[s]) /\ ~IsLinear(b.locals[s])

\* A slip: the join keeps the slots of one path.
MergeKeepsFirst(a, b) == IF a.reachable THEN a ELSE b

Merge(a, b) ==
    IF BothReach(a, b)
    THEN [a EXCEPT !.locals =
            [s \in DOMAIN a.locals |-> IF a.locals[s] = b.locals[s] THEN a.locals[s] ELSE Dead]]
    ELSE IF a.reachable THEN a ELSE b

(***************************************************************************)
(* The stack effect of an instruction: Ok says it is accepted in state s,  *)
(* After gives the state that follows.                                     *)
(***************************************************************************)
Has(s, n) == Len(s.stack) >= n

Top(s, n) == SubSeq(s.stack, Len(s.stack) - n + 1, Len(s.stack))

Takes(s, ts) == Has(s, Len(ts)) /\ Top(s, Len(ts)) = ts

SetSlot(s, slot, v) ==
    [s EXCEPT !.locals = [k \in DOMAIN s.locals |-> IF k = slot THEN v ELSE s.locals[k]]]

\* Pop n values and push the types ts.
Swap(s, n, ts) == [s EXCEPT !.stack = SubSeq(@, 1, Len(@) - n) \o ts]

FieldType(ty, name, here) ==
    IF ty.k = "struct" /\ ~IsQualified(ty.t)
    THEN LET def == Structs[Qualify(ty.t, here)].fields
             at == {i \in DOMAIN def : def[i].name = name}
         IN  IF at = {} THEN Unknown ELSE def[CHOOSE i \in at : TRUE].ty
    ELSE Unknown

PathType(ty, path, here) == FoldLeft(LAMBDA t, n : FieldType(t, n, here), ty, path)

\* A field that does not resolve is taken for an address.
OrAddress(ty) == IF ty = Unknown THEN AddressT ELSE ty

IsForeign(ty) == ty.k = "struct" /\ IsQualified(ty.t)

\* The signature of g as a module sees it that calls it by the name f.
SeenSig(f, g) ==
    LET Seen(ty) == IF IsQualified(f) THEN QualifyType(ty, f[1]) ELSE ty
    IN  [params |-> [i \in DOMAIN g.params |-> Seen(g.params[i])], ret |-> Seen(g.ret)]

CallSig(f, here) ==
    IF IsNativeCall(f, here) THEN Natives[f[2]] ELSE SeenSig(f, Funs[Qualify(f, here)])

ParamMatches(p, ty) ==
    IF p = LocalStructP THEN ty.k = "struct" /\ ~IsQualified(ty.t) ELSE p = ty

ArgsMatch(s, ps) ==
    Has(s, Len(ps)) /\ \A i \in DOMAIN ps : ParamMatches(ps[i], Top(s, Len(ps))[i])

CallOk(s, f, here) ==
    /\ IsNativeCall(f, here) \/ Qualify(f, here) \in DOMAIN Funs
    /\ ArgsMatch(s, CallSig(f, here).params)

CallAfter(s, sig) == Swap(s, Len(sig.params), <<sig.ret>>)

\* A slip: Return looks at the value it returns and at nothing else.
ReturnOkTopOnly(s, f) ==
    IF f.ret = VoidT THEN s.stack = <<>> \/ Takes(s, <<VoidT>>) ELSE Takes(s, <<f.ret>>)

\* Return pops the top only: nothing linear may stay below it or in a slot.
ReturnOk(s, f) ==
    /\ IF f.ret = VoidT THEN s.stack = <<>> \/ Takes(s, <<VoidT>>) ELSE Takes(s, <<f.ret>>)
    /\ \A i \in 1..(Len(s.stack) - 1) : ~IsLinear(s.stack[i])
    /\ \A l \in DOMAIN s.locals : ~IsLinear(s.locals[l])

LoadOk(s, slot) == s.locals[slot] # Dead

LoadAfter(s, slot) ==
    LET ty == s.locals[slot]
    IN  SetSlot(Swap(s, 0, <<ty>>), slot, IF IsLinear(ty) THEN Dead ELSE ty)

\* A slip: a slot may be overwritten whatever it holds.
StoreOkAny(s, slot) == Has(s, 1)

StoreOk(s, slot) == Has(s, 1) /\ ~IsLinear(s.locals[slot])

LoadFieldOk(s, i, here) ==
    /\ s.locals[i.slot] # Dead
    /\ ~IsForeign(s.locals[i.slot])
    /\ PathType(s.locals[i.slot], i.path, here).k # "struct"

StoreFieldOk(s, i, here) ==
    /\ Has(s, 1)
    /\ s.locals[i.slot] # Dead
    /\ ~IsForeign(s.locals[i.slot])
    /\ LET ty == PathType(s.locals[i.slot], i.path, here)
       IN  ty # Unknown => ty.k # "struct" /\ Takes(s, <<ty>>)

\* GetField destroys the struct, so no field of it may be a struct.
GetFieldOk(s, name, here) ==
    /\ Has(s, 1) /\ Last(s.stack).k = "struct" /\ ~IsForeign(Last(s.stack))
    /\ LET tys == FieldTypes(Qualify(Last(s.stack).t, here))
       IN  \A j \in DOMAIN tys : tys[j].k # "struct"

UnpackTupleOk(s, n) == Has(s, 1) /\ Last(s.stack).k = "tuple" /\ Len(Last(s.stack).ts) = n

Ok(s, i, f, here) ==
    CASE i.op = "Load" -> LoadOk(s, i.slot)
      [] i.op = "Store" -> StoreOk(s, i.slot)
      [] i.op = "LoadField" -> LoadFieldOk(s, i, here)
      [] i.op = "StoreField" -> StoreFieldOk(s, i, here)
      [] i.op \in {"Add", "Sub", "Mul", "Div", "Mod", "Lt", "Le", "Gt", "Ge"} ->
            Takes(s, <<U64T, U64T>>)
      [] i.op \in {"Eq", "Ne"} ->
            Has(s, 2) /\ Top(s, 2)[1] = Top(s, 2)[2] /\ ~IsLinear(Top(s, 2)[1])
      [] i.op \in {"Not", "JumpIf", "JumpIfNot"} -> Takes(s, <<BoolT>>)
      [] i.op \in {"And", "Or"} -> Takes(s, <<BoolT, BoolT>>)
      [] i.op = "NewStruct" -> Takes(s, FieldTypes(Qualify(i.t, here)))
      [] i.op = "GetField" -> GetFieldOk(s, i.name, here)
      [] i.op = "UnpackStruct" -> Takes(s, <<StructT(i.t)>>)
      [] i.op \in {"Pop", "Dup"} -> Has(s, 1) /\ ~IsLinear(Last(s.stack))
      [] i.op = "Call" -> CallOk(s, i.f, here)
      [] i.op = "MakeTuple" -> Has(s, i.n)
      [] i.op = "UnpackTuple" -> UnpackTupleOk(s, i.n)
      [] i.op = "Return" -> ReturnOk(s, f)
      [] OTHER -> TRUE

After(s, i, here) ==
    CASE i.op = "Push" -> Swap(s, 0, <<[k |-> i.v.k]>>)
      [] i.op = "PushStr" -> Swap(s, 0, <<StrT>>)
      [] i.op = "Load" -> LoadAfter(s, i.slot)
      [] i.op = "Store" -> SetSlot(Swap(s, 1, <<>>), i.slot, Last(s.stack))
      [] i.op = "LoadField" ->
            Swap(s, 0, <<OrAddress(PathType(s.locals[i.slot], i.path, here))>>)
      [] i.op \in {"StoreField", "Pop", "JumpIf", "JumpIfNot"} -> Swap(s, 1, <<>>)
      [] i.op \in {"Add", "Sub", "Mul", "Div", "Mod"} -> Swap(s, 2, <<U64T>>)
      [] i.op \in {"Eq", "Ne", "Lt", "Le", "Gt", "Ge", "And", "Or"} -> Swap(s, 2, <<BoolT>>)
      [] i.op = "Not" -> Swap(s, 1, <<BoolT>>)
      [] i.op = "NewStruct" -> Swap(s, Len(i.names), <<StructT(i.t)>>)
      [] i.op = "GetField" -> Swap(s, 1, <<OrAddress(FieldType(Last(s.stack), i.name, here))>>)
      [] i.op = "UnpackStruct" -> Swap(s, 1, Reverse(FieldTypes(Qualify(i.t, here))))
      [] i.op = "Dup" -> Swap(s, 0, <<Last(s.stack)>>)
      [] i.op = "Call" -> CallAfter(s, CallSig(i.f, here))
      [] i.op = "MakeTuple" -> Swap(s, i.n, <<TupleT(Top(s, i.n))>>)
      [] i.op = "UnpackTuple" -> Swap(s, 1, Reverse(Last(s.stack).ts))
      [] i.op \in {"Jump", "Return"} -> s

(***************************************************************************)
(* The pass over a function.                                               *)
(***************************************************************************)
ScanStart(f) == [cur |-> Entry(f), pend |-> <<>>, far |-> 1, ok |-> TRUE]

IsJump(i) == i.op \in {"Jump", "JumpIf", "JumpIfNot"}

\* The state before instruction pc: what falls through joined with what jumps.
Arriving(z, pc) == IF pc \in DOMAIN z.pend THEN Merge(z.cur, z.pend[pc]) ELSE z.cur

ArrivingOk(z, pc) == pc \in DOMAIN z.pend => MergeOk(z.cur, z.pend[pc])

\* The states waiting at jump targets after instruction i left state s at pc.
Pending(z, s, i, pc) ==
    LET rest == [p \in DOMAIN z.pend \ {pc} |-> z.pend[p]]
        to == pc + i.off
    IN  IF IsJump(i)
        THEN (to :> IF to \in DOMAIN rest THEN Merge(rest[to], s) ELSE s) @@ rest
        ELSE rest

PendingOk(z, s, i, pc) ==
    IsJump(i) /\ pc + i.off \in DOMAIN z.pend => MergeOk(z.pend[pc + i.off], s)

\* Instruction i leaves the state out; far is the furthest jump so far.
ScanOut(z, out, i, pc, far) ==
    IF ~PendingOk(z, out, i, pc) THEN [z EXCEPT !.ok = FALSE]
    ELSE [cur |-> [out EXCEPT !.reachable = i.op \notin {"Jump", "Return"}],
          pend |-> Pending(z, out, i, pc), far |-> far, ok |-> TRUE]

ScanIn(z, in, i, pc, f, here, far) ==
    IF ~in.reachable THEN [z EXCEPT !.far = far]
    ELSE IF Ok(in, i, f, here) THEN ScanOut(z, After(in, i, here), i, pc, far)
    ELSE [z EXCEPT !.ok = FALSE]

\* One iteration of the loop: unreachable instructions are only checked for
\* their structure.
Scan(z, i, pc, f, here) ==
    IF z.ok /\ InstrOk(i, f, here) /\ ArrivingOk(z, pc)
    THEN ScanIn(z, Arriving(z, pc), i, pc, f, here,
                IF IsJump(i) THEN Max({z.far, pc + i.off}) ELSE z.far)
    ELSE [z EXCEPT !.ok = FALSE]

\* No error, every jump inside the code, and no path runs off its end.
Accepted(z, len) ==
    z.ok /\ z.far <= len + 1 /\ ~z.cur.reachable /\ len + 1 \notin DOMAIN z.pend

\* The scan z before instruction pc goes on to the end of the code.
RECURSIVE ScanOn(_, _, _, _)
ScanOn(z, f, pc, here) ==
    IF ~z.ok \/ pc > Len(f.code) THEN z ELSE ScanOn(Scan(z, f.code[pc], pc, f, here), f, pc + 1, here)

ScanAll(f, here) == ScanOn(ScanStart(f), f, 1, here)

\* The states in which the scan z and its continuation arrive at the instructions.
RECURSIVE Arrivals(_, _, _, _)
Arrivals(z, f, pc, here) ==
    IF pc > Len(f.code) THEN <<>>
    ELSE <<Arriving(z, pc)>> \o Arrivals(Scan(z, f.code[pc], pc, f, here), f, pc + 1, here)

FunctionOk(f, here) ==
    SignatureOk(f, here) /\ Accepted(ScanAll(f, here), Len(f.code))

\* A module is published when both phases find no error.
ModuleOk(here) ==
    /\ StructsOk(here)
    /\ \A n \in {g \in DOMAIN Funs : g[1] = here} : FunctionOk(Funs[n], here)
=============================================================================
