------------------------------ MODULE Contract ------------------------------
(***************************************************************************)
(* The life of a function of a contract: its module is published if both   *)
(* verification passes accept it, a transaction calls it, and the effects  *)
(* on objects are collected when the call succeeds.                        *)
(*                                                                         *)
(* The code of the function is arbitrary: Emit adds any instruction of its *)
(* alphabet and runs one iteration of both passes.  A rejected prefix is   *)
(* not continued, as an error once found rejects the module; and no dead   *)
(* instruction is added, as neither pass looks at one beyond its shape.    *)
(***************************************************************************)
EXTENDS ObjectVerifier, Vm

CONSTANTS
    Shapes,      \* [params, ret, locals, alphabet, len]: what Main may be
    MaxStack,    \* bound on the operand stack of Main
    GasLimits,   \* budgets left for the call after the base cost
    Unlimited    \* the budget of system transactions, more than any call needs

VARIABLES
    scan,      \* the language pass over the code so far
    shadow,    \* the adapter's pass over the code so far
    states,    \* the abstract states before the instructions of Main
    inputs,    \* ids of the objects passed as arguments
    effects    \* [created, changed, destroyed]: ids, once collected

vars == <<vmVars, scan, shadow, states, inputs, effects>>

App == Main[1]

NoEffects == [created |-> <<>>, changed |-> <<>>, destroyed |-> <<>>]

(***************************************************************************)
(* Publishing.                                                             *)
(***************************************************************************)
\* The library was verified when it was published.
LibStates == [fn \in DOMAIN Funs |-> Arrivals(ScanStart(Funs[fn]), Funs[fn], 1, fn[1])]

StatesOf(fn) == IF fn = Main THEN states ELSE LibStates[fn]

Init ==
    \E s \in Shapes :
        /\ main = [pub |-> TRUE, params |-> s.params, ret |-> s.ret, locals |-> s.locals,
                   code |-> <<>>, alphabet |-> s.alphabet, len |-> s.len]
        /\ SignatureOk(s, App)
        /\ scan = ScanStart(s)
        /\ shadow = ShadowStart(s, App)
        /\ states = <<>> /\ inputs = {} /\ effects = NoEffects
        /\ frames = <<>> /\ gas = [limit |-> 0, spent |-> 0] /\ status = "draft"
        /\ ctx = [fresh |-> <<>>, transfers |-> <<>>, destroyed |-> <<>>]
        /\ owned = {}

Emit ==
    /\ status = "draft" /\ Len(main.code) < main.len
    /\ LET pc == Len(main.code) + 1
       IN  /\ Arriving(scan, pc).reachable
           /\ \E i \in main.alphabet :
                 /\ scan' = Scan(scan, i, pc, main, App)
                 /\ scan'.ok /\ Len(scan'.cur.stack) <= MaxStack
                 /\ shadow' = ShadowScan(shadow, i, pc, App)
                 /\ shadow'.ok
                 /\ main' = [main EXCEPT !.code = Append(@, i)]
           /\ states' = Append(states, Arriving(scan, pc))
    /\ UNCHANGED <<frames, gas, status, ctx, owned, inputs, effects>>

Publish ==
    /\ status = "draft" /\ Accepted(scan, Len(main.code)) /\ shadow.ok
    /\ status' = "published"
    /\ UNCHANGED <<main, frames, gas, ctx, owned, scan, shadow, states, inputs, effects>>

(***************************************************************************)
(* Calling.  A raw argument has the declared type; an object argument is   *)
(* an object of the sender, taken to have it.  Arguments are not aliased.  *)
(***************************************************************************)
\* object_to_vm_object_value: the j-th argument, with its id put back in.
InputObject(t, j, n) ==
    StructV(t, [name \in ToSet(FieldNames(t)) |->
                   IF name = "id" THEN StructV(IdName, [inner |-> AddressV(j)], 2 * j)
                   ELSE U64V(n)], 2 * j - 1)

ArgValues(ty, j) ==
    CASE ty = U64T -> {U64V(n) : n \in U64Samples}
      [] ty = BoolT -> {BoolV(b) : b \in BOOLEAN}
      [] ty = AddressT -> {AddressV(Sender)}
      [] ty.k = "struct" -> {InputObject(Qualify(ty.t, App), j, n) : n \in U64Samples}

ObjectArgs == {j \in DOMAIN main.params : main.params[j].k = "struct"}

\* execute_meow_call up to Vm::call: no struct may be returned.
Invoke ==
    /\ status = "published"
    /\ ~IsLinear(main.ret)
    /\ \E limit \in GasLimits : gas' = [limit |-> limit, spent |-> 0]
    /\ \E args \in [DOMAIN main.params -> UNION {ArgValues(main.params[j], j) : j \in DOMAIN main.params}] :
          /\ \A j \in DOMAIN args : args[j] \in ArgValues(main.params[j], j)
          /\ frames' = <<NewFrame(Main, args)>>
    /\ inputs' = ObjectArgs
    /\ owned' = UNION {{2 * j - 1, 2 * j} : j \in ObjectArgs}
    /\ status' = "running"
    /\ UNCHANGED <<main, ctx, scan, shadow, states, effects>>

(***************************************************************************)
(* collect_object_effects.                                                 *)
(***************************************************************************)
Transferred == [i \in DOMAIN ctx.transfers |-> ObjectAddress(ctx.transfers[i][1])]

Accounted == ToSet(Transferred) \cup ToSet(ctx.destroyed)

IsFresh(id) == id \in ToSet(ctx.fresh)

\* What the code refuses with an error, and where it would panic.
EffectsRefused == ~(ToSet(ctx.fresh) \cup inputs \subseteq Accounted)

EffectsPanic == ~(Accounted \subseteq ToSet(ctx.fresh) \cup inputs)

CollectEffects ==
    /\ status = "ok"
    /\ IF EffectsRefused THEN status' = "refused" /\ UNCHANGED effects
       ELSE IF EffectsPanic THEN status' = "panic" /\ UNCHANGED effects
       ELSE /\ status' = "committed"
            /\ effects' = [created |-> SelectSeq(Transferred, IsFresh),
                           changed |-> SelectSeq(Transferred, LAMBDA id : ~IsFresh(id)),
                           destroyed |-> SelectSeq(ctx.destroyed, LAMBDA id : ~IsFresh(id))]
    /\ UNCHANGED <<main, frames, gas, ctx, owned, scan, shadow, states, inputs>>

Next ==
    \/ Emit \/ Publish \/ Invoke \/ CollectEffects
    \/ Step /\ UNCHANGED <<scan, shadow, states, inputs, effects>>

Spec == Init /\ [][Next]_vars

(***************************************************************************)
(* Properties.                                                             *)
(***************************************************************************)
\* The errors that arguments, budget or the contract's own asserts may cause.
\* NativeError is none of them: it is how a native defends itself against a
\* value that the verifiers should not have let through.
RunTimeErrors ==
    {"ArithmeticOverflow", "DivisionByZero", "Aborted", "OutOfGas", "CallStackOverflow"}

\* The field an instruction names exists in the type its operand has.
PathResolves(s, i, here) ==
    /\ i.op \in {"LoadField", "StoreField"} =>
          PathType(s.locals[i.slot], i.path, here) # Unknown
    /\ i.op = "GetField" => FieldType(Last(s.stack), i.name, here) # Unknown

\* What an instruction transfers, if it does, is an on-chain object by the type
\* it has on the verifier's stack, below the new owner's address.
TransfersObject(s, i, here) ==
    i.op = "Call" /\ i.f = <<Local, "meow_vm_transfer">> =>
        IsObject(Qualify(s.stack[Len(s.stack) - 1].t, here))

\* Verified code is never stopped by the defences of the interpreter or of a
\* native: of all the errors of call_inner only those of the computation itself
\* remain.  There are two exceptions.  An instruction that names a field its
\* operand does not have is not rejected, as the verifier takes the field for
\* an address.  And meow_vm_transfer may meet a struct that is not an object,
\* where the adapter's shadow stack is out of step with the machine's (see
\* TransfersAreObjects); it always succeeds on one that is.
VerifiedCodeIsSafe ==
    [][status = "running" /\ status' \notin {"running", "ok"} \cup RunTimeErrors =>
          LET s == StatesOf(Frame.fn)[Frame.pc]
          IN  /\ ~AtEnd
              /\ \/ ~PathResolves(s, Instr, Here)
                 \/ status' = "NativeError" /\ ~TransfersObject(s, Instr, Here)]_vars

\* The value has the type, given with qualified names.
RECURSIVE Typed(_, _)
Typed(v, ty) ==
    CASE ty.k = "struct" ->
            /\ v.k = "struct" /\ v.t = ty.t /\ DOMAIN v.fs = ToSet(FieldNames(ty.t))
            /\ \A i \in DOMAIN FieldNames(ty.t) :
                  Typed(v.fs[FieldNames(ty.t)[i]], QualifyType(FieldTypes(ty.t)[i], ty.t[1]))
      [] ty.k = "tuple" ->
            /\ v.k = "tuple" /\ Len(v.vs) = Len(ty.ts)
            /\ \A i \in DOMAIN v.vs : Typed(v.vs[i], ty.ts[i])
      [] OTHER -> v.k = ty.k

Conforms(f, s, depth) ==
    /\ Len(f.stack) = depth
    /\ \A i \in 1..depth : Typed(f.stack[i], QualifyType(s.stack[i], f.fn[1]))
    /\ \A l \in DOMAIN f.locals :
          IF s.locals[l] = Dead THEN ~IsLinearV(f.locals[l])
          ELSE Typed(f.locals[l], QualifyType(s.locals[l], f.fn[1]))

\* The abstract interpretation of check_function describes every frame of
\* every call: same stack depth, values of the predicted types, nothing of
\* value in a dead slot.  A frame that waits for a call is past it, its
\* arguments popped.
AbstractionSound ==
    \A j \in DOMAIN frames :
        LET f == frames[j]
            waits == j < Len(frames)
            pc == IF waits THEN f.pc - 1 ELSE f.pc
            popped == IF waits THEN Len(CallSig(f.code[pc].f, f.fn[1]).params) ELSE 0
            s == StatesOf(f.fn)[pc]
        IN  pc <= Len(f.code) /\ Conforms(f, s, Len(s.stack) - popped)

\* Move semantics over the whole machine: each struct that was made and not
\* consumed is in exactly one place, and a successful call has consumed all.
LinearValues ==
    LET uids == UidsOf(FlattenSeq([j \in DOMAIN frames |-> frames[j].stack \o frames[j].locals]))
    IN  status \in {"running", "ok", "committed"} =>
            IsInjective(uids) /\ ToSet(uids) = owned

\* The run-time checks of collect_object_effects never fire for verified
\* code, and every input and every fresh id has exactly one fate.
OneFatePerObject ==
    LET fates == effects.created \o effects.changed \o effects.destroyed
                    \o SelectSeq(ctx.destroyed, IsFresh)
    IN  /\ status \notin {"refused", "panic"}
        /\ status = "committed" =>
              IsInjective(fates) /\ ToSet(fates) = inputs \cup ToSet(ctx.fresh)

\* Without loops and with a bounded call depth, a call under the unlimited
\* meter of system transactions comes to its end.
UnmeteredCallsEnd == gas.limit = Unlimited => status # "OutOfGas"

(***************************************************************************)
(* What the documentation says of the adapter's verifier, and the code     *)
(* does not do.                                                            *)
(***************************************************************************)
\* docs/adapter.md: every argument of meow_vm_transfer "must be an on-chain
\* object struct", and "a non-object struct is rejected at publish time", also
\* one that was unpacked.  The language's verifier admits structs of the module
\* itself only, so the type of each is known.
TransfersAreObjects ==
    status \notin {"writing", "draft"} =>
        \A pc \in DOMAIN states :
            states[pc].reachable => TransfersObject(states[pc], main.code[pc], App)
=============================================================================
