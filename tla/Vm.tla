--------------------------------- MODULE Vm ---------------------------------
(***************************************************************************)
(* The interpreter (crate meow-vm) and the native functions bound to it by *)
(* meow-vm-adapter.  call_inner recurses in the code; here its activations *)
(* are the sequence frames, the running one last.  An instruction gives an *)
(* outcome: an error, or the frames and the context that follow and the    *)
(* structs it made and consumed (ghost, for the properties on moves).      *)
(***************************************************************************)
EXTENDS Bytecode

CONSTANTS
    Main,           \* <<module, name>> of the function under test
    MaxCallDepth,   \* VmConfig::max_call_depth
    U64Samples,     \* the numbers meow_vm_rand may return
    Sender          \* the address of the transaction's sender

VARIABLES
    main,     \* the function Main: [params, ret, locals, code, ...]
    frames,   \* activations: [fn, pc, locals, stack]
    gas,      \* GasMeter: [limit, spent]
    status,   \* "running", "ok" or the name of a VmError
    ctx,      \* Context: [fresh, transfers, destroyed]
    owned     \* ghost: the structs that exist

vmVars == <<main, frames, gas, status, ctx, owned>>

Empty == [k |-> "empty"]   \* a local that is not initialised or moved out

FnOf(fn) == IF fn = Main THEN main ELSE Funs[fn]

NewFrame(fn, args) ==
    [fn |-> fn, code |-> FnOf(fn).code, pc |-> 1, stack |-> <<>>,
     locals |-> [s \in 1..FnOf(fn).locals |-> IF s \in DOMAIN args THEN args[s] ELSE Empty]]

(***************************************************************************)
(* The instruction being executed.                                         *)
(***************************************************************************)
Frame == Last(frames)

Code == Frame.code

AtEnd == Frame.pc > Len(Code)

Instr == Code[Frame.pc]

Here == Frame.fn[1]

\* The frame with pc advanced past the instruction.
Stepped == [Frame EXCEPT !.pc = @ + 1]

Fetched(ops) == status = "running" /\ ~AtEnd /\ Instr.op \in ops

(***************************************************************************)
(* Outcomes.                                                               *)
(***************************************************************************)
Err(e) == [err |-> e]

Moves(f, made, used) ==
    [err |-> "", frames |-> [frames EXCEPT ![Len(frames)] = f], ctx |-> ctx,
     made |-> made, used |-> used]

Fine(f) == Moves(f, {}, {})

\* Pop n values, push vs.
Put(f, n, vs) == [f EXCEPT !.stack = SubSeq(@, 1, Len(@) - n) \o vs]

Args(f, n) == SubSeq(f.stack, Len(f.stack) - n + 1, Len(f.stack))

Need(f, n, out) == IF Len(f.stack) < n THEN Err("StackUnderflow") ELSE out

NewUid == 1 + Max(owned \cup {0})

\* The ghost identities of a value and of what it contains.
RECURSIVE Uids(_)

RECURSIVE UidsOf(_)
UidsOf(vs) == IF vs = <<>> THEN <<>> ELSE Uids(Head(vs)) \o UidsOf(Tail(vs))

Uids(v) ==
    CASE v.k = "struct" -> <<v.uid>> \o UidsOf([i \in DOMAIN FieldNames(v.t) |-> v.fs[FieldNames(v.t)[i]]])
      [] v.k = "tuple" -> UidsOf(v.vs)
      [] OTHER -> <<>>

\* GasMeter::charge: what is spent never passes the limit.
Charge(cost) == [gas EXCEPT !.spent = Min({@ + cost, gas.limit})]

\* Charge the cost, then take the outcome.  A failed call drops its frames.
Pay(cost, out) ==
    LET err == IF gas.spent + cost > gas.limit THEN "OutOfGas" ELSE out.err
    IN  /\ gas' = Charge(cost)
        /\ UNCHANGED main
        /\ IF err # ""
           THEN status' = err /\ frames' = <<>> /\ UNCHANGED <<ctx, owned>>
           ELSE /\ frames' = out.frames
                /\ status' = IF out.frames = <<>> THEN "ok" ELSE "running"
                /\ ctx' = out.ctx
                /\ owned' = (owned \ out.used) \cup out.made

(***************************************************************************)
(* Locals and fields.                                                      *)
(***************************************************************************)
LoadOut(f, slot) ==
    IF slot \notin DOMAIN f.locals THEN Err("UndefinedVariable")
    ELSE IF f.locals[slot] = Empty THEN Err("UseAfterMove")
    ELSE Fine([Put(f, 0, <<f.locals[slot]>>) EXCEPT
                  !.locals[slot] = IF IsLinearV(@) THEN Empty ELSE @])

\* A slot past the end grows the locals.
StoreOut(f, slot) ==
    LET Old(s) == IF s \in DOMAIN f.locals THEN f.locals[s] ELSE Empty
    IN  Need(f, 1,
             IF IsLinearV(Old(slot)) THEN Err("SlotOverwrite")
             ELSE Fine([Put(f, 1, <<>>) EXCEPT
                           !.locals = [s \in 1..Max({Len(@), slot}) |->
                                          IF s = slot THEN Last(f.stack) ELSE Old(s)]]))

ErrV(e) == [k |-> "error", e |-> e]

ReadField(v, name) ==
    CASE v.k = "error" -> v
      [] v.k = "struct" -> IF name \in DOMAIN v.fs THEN v.fs[name] ELSE ErrV("UndefinedField")
      [] OTHER -> ErrV("TypeError")

RECURSIVE ReadPath(_, _)
ReadPath(v, path) == IF path = <<>> THEN v ELSE ReadPath(ReadField(v, Head(path)), Tail(path))

\* The struct with the field at the end of the path overwritten.
RECURSIVE WritePath(_, _, _)
WritePath(v, path, new) ==
    IF path = <<>> \/ v.k # "struct" THEN ErrV("TypeError")
    ELSE IF Head(path) \notin DOMAIN v.fs THEN ErrV("UndefinedField")
    ELSE IF Len(path) = 1
    THEN IF IsLinearV(v.fs[Head(path)]) THEN ErrV("LinearFieldOverwrite")
         ELSE [v EXCEPT !.fs[Head(path)] = new]
    ELSE LET inner == WritePath(v.fs[Head(path)], Tail(path), new)
         IN  IF inner.k = "error" THEN inner ELSE [v EXCEPT !.fs[Head(path)] = inner]

LoadFieldOut(f, i) ==
    IF i.slot \notin DOMAIN f.locals \/ f.locals[i.slot] = Empty THEN Err("UseAfterMove")
    ELSE LET v == ReadPath(f.locals[i.slot], i.path)
         IN  IF v.k = "error" THEN Err(v.e) ELSE Fine(Put(f, 0, <<v>>))

StoreFieldOut(f, i) ==
    Need(f, 1,
         IF i.slot \notin DOMAIN f.locals \/ f.locals[i.slot] = Empty THEN Err("UseAfterMove")
         ELSE LET v == WritePath(f.locals[i.slot], i.path, Last(f.stack))
              IN  IF v.k = "error" THEN Err(v.e)
                  ELSE Fine([Put(f, 1, <<>>) EXCEPT !.locals[i.slot] = v]))

(***************************************************************************)
(* Arithmetic, comparison, logic.                                          *)
(***************************************************************************)
ArithOut(f, op) ==
    LET l == Args(f, 2)[1]
        r == Args(f, 2)[2]
        n == CASE op = "Add" -> l.n + r.n
               [] op = "Sub" -> l.n - r.n
               [] op = "Mul" -> l.n * r.n
               [] op = "Div" -> l.n \div r.n
               [] op = "Mod" -> l.n % r.n
    IN  Need(f, 2,
             IF op \in {"Div", "Mod"} /\ r = U64V(0) THEN Err("DivisionByZero")
             ELSE IF l.k # "u64" \/ r.k # "u64" THEN Err("TypeError")
             ELSE IF n \notin 0..MaxU64 THEN Err("ArithmeticOverflow")
             ELSE Fine(Put(f, 2, <<U64V(n)>>)))

\* l <= r is computed as not r < l.
CompareOut(f, op) ==
    LET l == Args(f, 2)[1]
        r == Args(f, 2)[2]
        b == CASE op = "Eq" -> l = r
               [] op = "Ne" -> l # r
               [] op = "Lt" -> l.n < r.n
               [] op = "Le" -> ~(r.n < l.n)
               [] op = "Gt" -> r.n < l.n
               [] op = "Ge" -> ~(l.n < r.n)
    IN  Need(f, 2,
             IF op \in {"Eq", "Ne"}
             THEN IF IsLinearV(l) \/ IsLinearV(r) THEN Err("EqOnLinearType")
                  ELSE Fine(Put(f, 2, <<BoolV(b)>>))
             ELSE IF l.k # "u64" \/ r.k # "u64" THEN Err("TypeError")
             ELSE Fine(Put(f, 2, <<BoolV(b)>>)))

LogicOut(f, op) ==
    LET n == IF op = "Not" THEN 1 ELSE 2
        vs == Args(f, n)
        b == CASE op = "Not" -> ~vs[1].b
               [] op = "And" -> vs[1].b /\ vs[2].b
               [] op = "Or" -> vs[1].b \/ vs[2].b
    IN  Need(f, n, IF \E j \in 1..n : vs[j].k # "bool" THEN Err("TypeError")
                   ELSE Fine(Put(f, n, <<BoolV(b)>>)))

(***************************************************************************)
(* Structs and tuples.                                                     *)
(***************************************************************************)
NewStructOut(f, i) ==
    LET n == Len(i.names)
        fs == [name \in ToSet(i.names) |->
                  Args(f, n)[CHOOSE j \in 1..n : i.names[j] = name]]
    IN  IF Qualify(i.t, Here) \notin DOMAIN Structs THEN Err("UndefinedStruct")
        ELSE Need(f, n, Moves(Put(f, n, <<StructV(Qualify(i.t, Here), fs, NewUid)>>),
                              {NewUid}, {}))

GetFieldOut(f, name) ==
    LET v == Last(f.stack)
        field == ReadField(v, name)
    IN  Need(f, 1, IF field.k = "error" THEN Err(field.e)
                   ELSE Moves(Put(f, 1, <<field>>), {}, {v.uid}))

\* The first field ends up on top.
UnpackStructOut(f, names) ==
    LET v == Last(f.stack)
    IN  Need(f, 1,
             IF v.k # "struct" THEN Err("TypeError")
             ELSE IF ~(ToSet(names) \subseteq DOMAIN v.fs) THEN Err("UndefinedField")
             ELSE Moves(Put(f, 1, Reverse([j \in DOMAIN names |-> v.fs[names[j]]])), {}, {v.uid}))

UnpackTupleOut(f, n) ==
    LET v == Last(f.stack)
    IN  Need(f, 1, IF v.k # "tuple" THEN Err("TypeError")
                   ELSE IF Len(v.vs) # n THEN Err("TypeError")
                   ELSE Fine(Put(f, 1, Reverse(v.vs))))

(***************************************************************************)
(* Control.                                                                *)
(***************************************************************************)
\* The offset counts from the jump, which pc has passed.
JumpTo(f, off) ==
    IF f.pc - 1 + off < 1 THEN Err("InvalidJumpTarget") ELSE Fine([f EXCEPT !.pc = @ - 1 + off])

BranchOut(f, off, when) ==
    Need(f, 1, IF Last(f.stack).k # "bool" THEN Err("TypeError")
               ELSE IF Last(f.stack).b = when THEN JumpTo(Put(f, 1, <<>>), off)
               ELSE Fine(Put(f, 1, <<>>)))

\* A slip: recursion without a limit.
TooDeepNever == FALSE

TooDeep == Len(frames) >= MaxCallDepth

CallOut(f, callee) ==
    LET fn == Qualify(callee, Here)
        n == Len(Funs[fn].params)
        caller == Put(f, n, <<>>)
    IN  IF fn \notin DOMAIN Funs THEN Err("UndefinedFunction")
        ELSE IF IsQualified(callee) /\ ~Funs[fn].pub THEN Err("PrivateFunction")
        ELSE Need(f, n,
                  IF TooDeep THEN Err("CallStackOverflow")
                  ELSE IF n > Funs[fn].locals THEN Err("ArityMismatch")
                  ELSE [Fine(caller) EXCEPT !.frames = Append(@, NewFrame(fn, Args(f, n)))])

\* The top of the stack goes to the caller, whatever else is left is dropped.
ReturnOut(f) ==
    LET ret == IF f.stack = <<>> THEN VoidV ELSE Last(f.stack)
        rest == Front(frames)
    IN  [Fine(f) EXCEPT !.frames =
            IF rest = <<>> THEN <<>> ELSE [rest EXCEPT ![Len(rest)] = Put(@, 0, <<ret>>)]]

(***************************************************************************)
(* Natives and the context they write to.                                  *)
(***************************************************************************)
\* A slip: the counter of fresh ids does not advance.
FreshIdFixed(n) == 100

\* Address::derive(tx_digest, 0, counter): fresh ids differ from each other
\* and from every address in use.
FreshId(n) == 100 + n

IsIdV(v) == v.k = "struct" /\ "inner" \in DOMAIN v.fs /\ v.fs["inner"].k = "address"

\* meow_object::object_address.
HasAddress(v) == v.k = "struct" /\ "id" \in DOMAIN v.fs /\ IsIdV(v.fs["id"])

ObjectAddress(v) == v.fs["id"].fs["inner"].a

Native(f, name, rand) ==
    LET n == Len(Natives[name].params)
        args == Args(f, n)
        Returns(v) == Fine(Put(f, n, <<v>>))
    IN  Need(f, n,
        CASE name = "meow_vm_abort" ->
                IF args[1].k # "bool" THEN Err("NativeError")
                ELSE IF args[1].b THEN Returns(VoidV) ELSE Err("Aborted")
          [] name = "meow_vm_fresh_id" ->
                LET id == FreshId(Len(ctx.fresh))
                IN  [Moves(Put(f, n, <<StructV(IdName, [inner |-> AddressV(id)], NewUid)>>),
                           {NewUid}, {})
                       EXCEPT !.ctx.fresh = Append(@, id)]
          [] name = "meow_vm_transfer" ->
                IF args[2].k # "address" \/ ~HasAddress(args[1]) THEN Err("NativeError")
                ELSE [Moves(Put(f, n, <<VoidV>>), {}, ToSet(Uids(args[1])))
                        EXCEPT !.ctx.transfers = Append(@, <<args[1], args[2].a>>)]
          [] name = "meow_vm_destroy" ->
                IF ~IsIdV(args[1]) THEN Err("NativeError")
                ELSE [Moves(Put(f, n, <<VoidV>>), {}, ToSet(Uids(args[1])))
                        EXCEPT !.ctx.destroyed = Append(@, args[1].fs["inner"].a)]
          [] name = "meow_vm_sender" -> Returns(AddressV(Sender))
          [] name \in {"meow_vm_rand", "meow_vm_timestamp"} -> Returns(U64V(rand)))

(***************************************************************************)
(* The loop of call_inner, by kind of instruction.                         *)
(***************************************************************************)
Run(out) == Pay(CostOf(Instr), out)

Literal == Fetched({"Push", "PushStr"}) /\ Run(Fine(Put(Stepped, 0, <<Instr.v>>)))

LoadLocal == Fetched({"Load"}) /\ Run(LoadOut(Stepped, Instr.slot))

StoreLocal == Fetched({"Store"}) /\ Run(StoreOut(Stepped, Instr.slot))

LoadField == Fetched({"LoadField"}) /\ Run(LoadFieldOut(Stepped, Instr))

StoreField == Fetched({"StoreField"}) /\ Run(StoreFieldOut(Stepped, Instr))

Arithmetic ==
    Fetched({"Add", "Sub", "Mul", "Div", "Mod"}) /\ Run(ArithOut(Stepped, Instr.op))

Comparison ==
    Fetched({"Eq", "Ne", "Lt", "Le", "Gt", "Ge"}) /\ Run(CompareOut(Stepped, Instr.op))

Logic == Fetched({"Not", "And", "Or"}) /\ Run(LogicOut(Stepped, Instr.op))

NewStruct == Fetched({"NewStruct"}) /\ Run(NewStructOut(Stepped, Instr))

GetField == Fetched({"GetField"}) /\ Run(GetFieldOut(Stepped, Instr.name))

UnpackStruct == Fetched({"UnpackStruct"}) /\ Run(UnpackStructOut(Stepped, Instr.names))

Pop == Fetched({"Pop"}) /\ Run(Need(Stepped, 1, Fine(Put(Stepped, 1, <<>>))))

Dup == Fetched({"Dup"}) /\ Run(Need(Stepped, 1, Fine(Put(Stepped, 0, <<Last(Stepped.stack)>>))))

Jump == Fetched({"Jump"}) /\ Run(JumpTo(Stepped, Instr.off))

Branch ==
    Fetched({"JumpIf", "JumpIfNot"}) /\ Run(BranchOut(Stepped, Instr.off, Instr.op = "JumpIf"))

MakeTuple ==
    /\ Fetched({"MakeTuple"})
    /\ Run(Need(Stepped, Instr.n, Fine(Put(Stepped, Instr.n, <<TupleV(Args(Stepped, Instr.n))>>))))

UnpackTuple == Fetched({"UnpackTuple"}) /\ Run(UnpackTupleOut(Stepped, Instr.n))

Call == Fetched({"Call"}) /\ ~IsNativeCall(Instr.f, Here) /\ Run(CallOut(Stepped, Instr.f))

\* Both charges fail alike, so they are one.
CallNative ==
    /\ Fetched({"Call"}) /\ IsNativeCall(Instr.f, Here)
    /\ \E rand \in U64Samples :
          Pay(CostOf(Instr) + Natives[Instr.f[2]].gas, Native(Stepped, Instr.f[2], rand))

\* Running off the end returns too, at no cost.
Return ==
    /\ status = "running"
    /\ AtEnd \/ Instr.op = "Return"
    /\ Pay(IF AtEnd THEN 0 ELSE CostOf(Instr), ReturnOut(Frame))

Step ==
    \/ Literal \/ LoadLocal \/ StoreLocal \/ LoadField \/ StoreField
    \/ Arithmetic \/ Comparison \/ Logic
    \/ NewStruct \/ GetField \/ UnpackStruct \/ Pop \/ Dup
    \/ Jump \/ Branch \/ MakeTuple \/ UnpackTuple
    \/ Call \/ CallNative \/ Return
=============================================================================
