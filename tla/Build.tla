-------------------------------- MODULE Build --------------------------------
(***************************************************************************)
(* From source to effects: a function of a module is written, compiled,    *)
(* published, called and its effects collected.  Main comes from one of    *)
(* two authors: any bytecode (Contract), or the compiler.                  *)
(*                                                                         *)
(* Write adds any top-level statement of the shape's alphabet and takes    *)
(* the type checker, the code generator and the verifier through it.  A    *)
(* prefix one of them rejects is not continued, as no continuation of it   *)
(* is published; and no statement is added where none can be reached.      *)
(***************************************************************************)
EXTENDS Contract, Source

CONSTANT
    SourceShapes   \* name -> [params: Seq([name, ty]), ret, alphabet, len]

VARIABLES
    source,    \* [shape, body]: the function as written; shape is "" for bytecode
    env,       \* the type checker's variables
    gen,       \* the code generator's state
    expected   \* ghost: the outcome by the source, once the function is called

buildVars == <<vars, source, env, gen, expected>>

Unit == Input(Units, Units[App])

Shape == SourceShapes[source.shape]

NoEnv == [ok |-> TRUE, vars |-> <<>>]

NoGen == CodegenStart(Unit, [params |-> <<>>])

NoOutcome == [err |-> "", val |-> VoidV, ctx |-> NoContext]

FunctionAsWritten == [pub |-> TRUE, params |-> Shape.params, ret |-> Shape.ret, body |-> source.body]

\* The function with the code generated so far.
FunctionSoFar(f, c) ==
    LET g == Compiled(Unit, f, c)
    IN  [pub |-> g.pub, params |-> g.params, ret |-> g.ret, locals |-> g.locals, code |-> g.code,
         alphabet |-> {}, len |-> MaxCode]

\* While it is written, with as many slots as a function may have.
Draft(c) == [FunctionSoFar(FunctionAsWritten, c) EXCEPT !.locals = MaxLocals]

BuildInit ==
    \/ /\ Init
       /\ source = [shape |-> "", body |-> <<>>]
       /\ env = NoEnv /\ gen = NoGen /\ expected = NoOutcome
    \/ \E n \in DOMAIN SourceShapes :
          /\ source = [shape |-> n, body |-> <<>>]
          /\ FunctionTypeRefsOk(Unit, FunctionAsWritten)
          /\ env = CheckStart(FunctionAsWritten)
          /\ gen = CodegenStart(Unit, FunctionAsWritten)
          /\ gen.ok
          /\ main = Draft(gen)
          /\ scan = ScanStart(main) /\ shadow = ShadowStart(main, App)
          /\ states = <<>>
          /\ inputs = {} /\ effects = NoEffects /\ owned = {} /\ ctx = NoContext
          /\ frames = <<>> /\ gas = [limit |-> 0, spent |-> 0] /\ status = "writing"
          /\ expected = NoOutcome

Write ==
    /\ status = "writing" /\ Len(source.body) < Shape.len
    /\ Arriving(scan, Len(gen.code) + 1).reachable
    /\ \E s \in Shape.alphabet :
          /\ env' = CheckStmt(Unit, Shape.ret, s, env)
          /\ env'.ok
          /\ gen' = CompileStmt(Unit, gen, s)
          /\ gen'.ok
          /\ scan' = ScanOn(scan, Draft(gen'), Len(gen.code) + 1, App)
          /\ scan'.ok
          /\ source' = [source EXCEPT !.body = Append(@, s)]
    /\ UNCHANGED <<vmVars, shadow, states, inputs, effects, expected>>

\* The end of compile_function.  What was compiled is verified when it is
\* published.
Compile ==
    /\ status = "writing"
    /\ CodegenEnd(gen).ok
    /\ main' = FunctionSoFar(FunctionAsWritten, CodegenEnd(gen))
    /\ scan' = [ScanAll(main', App) EXCEPT !.ok = @ /\ SignatureOk(main', App)]
    /\ shadow' = ShadowRun(main', App)
    /\ states' = Arrivals(ScanStart(main'), main', 1, App)
    /\ status' = "draft" /\ env' = NoEnv /\ gen' = NoGen
    /\ UNCHANGED <<frames, gas, ctx, owned, inputs, effects, source, expected>>

Argument(j) == Plain(frames'[1].locals[j])

InvokeMain ==
    /\ Invoke
    /\ expected' = IF source.shape = "" THEN NoOutcome
                   ELSE Evaluate(App, FunctionAsWritten, [j \in DOMAIN main.params |-> Argument(j)])
    /\ UNCHANGED <<source, env, gen>>

BuildNext ==
    \/ Write \/ Compile \/ InvokeMain
    \/ Emit /\ UNCHANGED <<source, env, gen, expected>>
    \/ Publish /\ UNCHANGED <<source, env, gen, expected>>
    \/ CollectEffects /\ UNCHANGED <<source, env, gen, expected>>
    \/ Step /\ UNCHANGED <<scan, shadow, states, inputs, effects, source, env, gen, expected>>

BuildSpec == BuildInit /\ [][BuildNext]_buildVars

(***************************************************************************)
(* Properties.                                                             *)
(***************************************************************************)
\* Three analyses follow a function as it is written, each in its own terms:
\* the type checker by name, the code generator by slot and for structs only,
\* the verifier by slot over all paths.  Where the code can be reached they
\* agree: a variable the verifier takes for live has the type the checker gave
\* its name, one the generator still tracks is live, a slot it takes for moved
\* out is dead, and the only live structs it does not track are ids.
AnalysesAgree ==
    LET at == Arriving(scan, Len(gen.code) + 1)
        Shown(ty) == QualifyType(TranslateType(Unit, ty), App)
        Agrees(x) ==
            LET slot == gen.locals[x].slot
                live == at.locals[slot]
                guess == TypeAt(gen, slot)
            IN  /\ live # Dead => QualifyType(live, App) = Shown(env.vars[x])
                /\ guess # NoType => live # Dead
                /\ slot \in gen.moved => live = Dead
                /\ IsLinear(live) => guess # NoType \/ live = IdT
    IN  status = "writing" /\ at.reachable =>
            DOMAIN gen.locals = DOMAIN env.vars /\ \A x \in DOMAIN gen.locals : Agrees(x)

\* The compiled function does what its source says: same result or same
\* run-time error, same fresh ids, transfers and destructions in the same
\* order; and the source of verified code breaks no rule of the language.
RunsAsWritten ==
    [][source.shape # "" /\ status = "running" /\ status' \notin {"running", "OutOfGas"} =>
          LET stack == Frame.stack
          IN  /\ expected.err = IF status' = "ok" THEN "" ELSE status'
              /\ status' = "ok" =>
                    /\ expected.val = IF stack = <<>> THEN VoidV ELSE Plain(Last(stack))
                    /\ expected.ctx.fresh = ctx.fresh /\ expected.ctx.destroyed = ctx.destroyed
                    /\ expected.ctx.transfers =
                          [i \in DOMAIN ctx.transfers |->
                              <<Plain(ctx.transfers[i][1]), ctx.transfers[i][2]>>]]_buildVars
=============================================================================
