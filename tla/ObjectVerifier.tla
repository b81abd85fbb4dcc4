--------------------------- MODULE ObjectVerifier ---------------------------
(***************************************************************************)
(* The adapter's second verification pass (meow-vm-adapter, module         *)
(* bytecode_verifier): object layouts, and a shadow of the operand stack   *)
(* that says which values are fresh object ids and which structs are       *)
(* on-chain objects.  A shadow value is [fresh, tag, elems]; elems are the *)
(* tags of a tuple's elements and empty for anything else.  A shadow is    *)
(*    [cur |-> [stack, locals, reachable], pend, ok].                      *)
(***************************************************************************)
EXTENDS Verifier

ObjectTag == <<"object", "">>
OtherTag == <<"other", "">>
NonObjectTag(name) == <<"non_object", name>>

Scalar(fresh, tag) == [fresh |-> fresh, tag |-> tag, elems |-> <<>>]

OtherSlot == Scalar(FALSE, OtherTag)

\* Id-typed fields come first, and no field is itself an object.
LayoutOk(here) ==
    \A t \in LocalStructs(here) : \A i \in DOMAIN FieldTypes(t) :
        /\ FieldTypes(t)[i] = IdT => i = 1
        /\ FieldTypes(t)[i].k = "struct" => ~IsObject(Qualify(FieldTypes(t)[i].t, here))

\* Types of other modules are not classified.
TagOf(ty, here) ==
    IF ty.k # "struct" \/ IsForeign(ty) THEN OtherTag
    ELSE IF IsObject(Qualify(ty.t, here)) THEN ObjectTag ELSE NonObjectTag(ty.t[2])

MergeTag(a, b) == IF a = b THEN a ELSE OtherTag

MergeSlot(a, b) ==
    [fresh |-> a.fresh /\ b.fresh, tag |-> MergeTag(a.tag, b.tag),
     elems |-> IF Len(a.elems) = Len(b.elems)
               THEN [i \in DOMAIN a.elems |-> MergeTag(a.elems[i], b.elems[i])] ELSE <<>>]

\* A tag survives when both paths agree; the longer stack is truncated.
MergeShadow(a, b) ==
    [a EXCEPT !.stack = [i \in 1..Min({Len(@), Len(b.stack)}) |-> MergeSlot(@[i], b.stack[i])],
              !.locals = [s \in DOMAIN @ |-> MergeSlot(@[s], b.locals[s])]]

\* Popping an empty shadow stack gives an untracked value.
Take(s, n) == [s EXCEPT !.stack = SubSeq(@, 1, Len(@) - n)]

Give(s, slots) == [s EXCEPT !.stack = @ \o slots]

TopSlot(s) == IF s.stack = <<>> THEN OtherSlot ELSE Last(s.stack)

\* The n topmost values, the deepest first.
TopSlots(s, n) ==
    [i \in 1..n |-> IF Len(s.stack) - n + i > 0 THEN s.stack[Len(s.stack) - n + i] ELSE OtherSlot]

\* stack.get(len.saturating_sub(n)): the position where the first of the n
\* operands is expected.
OperandAt(s, n) == s.stack[Max({Len(s.stack) - n, 0}) + 1]

HasOperandAt(s, n) == Max({Len(s.stack) - n, 0}) < Len(s.stack)

\* (n_pops, pushes_return): natives are looked up first, and a call without a
\* result pushes nothing.
Effect(g) == <<Len(g.params), g.ret # VoidT>>

CallEffect(f, here) ==
    IF ~IsQualified(f) /\ f[2] \in DOMAIN Natives THEN Effect(Natives[f[2]])
    ELSE IF Qualify(f, here) \in DOMAIN Funs THEN Effect(Funs[Qualify(f, here)])
    ELSE <<0, FALSE>>

SlotOf(ty, fresh, here) ==
    IF ty.k = "tuple"
    THEN [fresh |-> fresh, tag |-> OtherTag, elems |-> [i \in DOMAIN ty.ts |-> TagOf(ty.ts[i], here)]]
    ELSE Scalar(fresh, TagOf(ty, here))

ReturnSlot(f, here) ==
    LET fresh == f = <<Local, "meow_vm_fresh_id">>
    IN  IF IsQualified(f) \/ Qualify(f, here) \notin DOMAIN Funs THEN Scalar(fresh, OtherTag)
        ELSE SlotOf(Funs[Qualify(f, here)].ret, fresh, here)

ShadowCall(s, effect, slot) == Give(Take(s, effect[1]), IF effect[2] THEN <<slot>> ELSE <<>>)

\* Objects are built from fresh ids, and what is transferred is not known to
\* be something else than an object.
ShadowOk(s, i, here) ==
    /\ i.op = "NewStruct" /\ IsObject(Qualify(i.t, here)) =>
          HasOperandAt(s, Len(i.names)) /\ OperandAt(s, Len(i.names)).fresh
    /\ i.op = "Call" /\ i.f = <<Local, "meow_vm_transfer">> /\ HasOperandAt(s, 2) =>
          OperandAt(s, 2).tag[1] # "non_object"

ShadowAfter(s, i, here) ==
    CASE i.op \in {"Push", "PushStr"} -> Give(s, <<OtherSlot>>)
      [] i.op = "Load" -> Give(s, <<s.locals[i.slot]>>)
      [] i.op = "Store" -> SetSlot(Take(s, 1), i.slot, TopSlot(s))
      [] i.op \in {"LoadField", "Not", "GetField"} -> Give(Take(s, 1), <<OtherSlot>>)
      [] i.op \in {"StoreField", "Pop", "JumpIf", "JumpIfNot", "Return"} -> Take(s, 1)
      [] i.op \in {"Add", "Sub", "Mul", "Div", "Mod", "Eq", "Ne", "Lt", "Le", "Gt", "Ge",
                   "And", "Or"} -> Give(Take(s, 2), <<OtherSlot>>)
      [] i.op = "NewStruct" ->
            Give(Take(s, Len(i.names)), <<Scalar(FALSE, TagOf(StructT(i.t), here))>>)
      [] i.op = "UnpackStruct" ->
            LET tys == FieldTypes(Qualify(i.t, here))
            IN  Give(Take(s, 1), [j \in DOMAIN tys |-> Scalar(FALSE, TagOf(tys[j], here))])
      [] i.op = "Dup" -> Give(s, <<TopSlot(s)>>)
      [] i.op = "Call" ->
            ShadowCall(s, CallEffect(i.f, here), ReturnSlot(i.f, here))
      [] i.op = "MakeTuple" ->
            Give(Take(s, i.n), <<[OtherSlot EXCEPT !.elems =
                                    [j \in 1..i.n |-> TopSlots(s, i.n)[j].tag]]>>)
      [] i.op = "UnpackTuple" ->
            LET elems == TopSlot(s).elems
                tags == IF Len(elems) = i.n THEN elems ELSE [j \in 1..i.n |-> OtherTag]
            IN  Give(Take(s, 1), Reverse([j \in 1..i.n |-> Scalar(FALSE, tags[j])]))
      [] i.op = "Jump" -> s

ShadowStart(f, here) ==
    [cur |-> [stack |-> <<>>, reachable |-> TRUE,
              locals |-> [s \in 1..f.locals |->
                            IF s \in DOMAIN f.params /\ f.params[s].k = "struct"
                            THEN Scalar(FALSE, TagOf(f.params[s], here)) ELSE OtherSlot]],
     pend |-> <<>>, ok |-> TRUE]

ShadowArriving(z, pc) ==
    IF pc \notin DOMAIN z.pend THEN z.cur
    ELSE IF z.cur.reachable THEN MergeShadow(z.cur, z.pend[pc]) ELSE z.pend[pc]

ShadowOut(z, out, i, pc, fine) ==
    LET rest == [p \in DOMAIN z.pend \ {pc} |-> z.pend[p]]
        to == pc + i.off
    IN  [cur |-> [out EXCEPT !.reachable = i.op \notin {"Jump", "Return"}],
         pend |-> IF ~IsJump(i) THEN rest
                  ELSE (to :> IF to \in DOMAIN rest THEN MergeShadow(rest[to], out) ELSE out) @@ rest,
         ok |-> z.ok /\ fine]

ShadowIn(z, in, i, pc, here) ==
    IF ~in.reachable THEN [z EXCEPT !.cur = in]
    ELSE ShadowOut(z, ShadowAfter(in, i, here), i, pc, ShadowOk(in, i, here))

ShadowScan(z, i, pc, here) == ShadowIn(z, ShadowArriving(z, pc), i, pc, here)

\* check_function_body: the pass goes on from instruction pc; an error is final.
RECURSIVE ShadowFrom(_, _, _, _)
ShadowFrom(z, f, pc, here) ==
    IF ~z.ok \/ pc > Len(f.code) THEN z
    ELSE ShadowFrom(ShadowScan(z, f.code[pc], pc, here), f, pc + 1, here)

ShadowRun(f, here) == ShadowFrom(ShadowStart(f, here), f, 1, here)

ObjectsOk(f, here) == ShadowRun(f, here).ok
=============================================================================
