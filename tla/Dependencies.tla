---------------------------- MODULE Dependencies ----------------------------
(***************************************************************************)
(* Modules and the modules they import: how they get on the chain, and how *)
(* the command-line client gathers them from a node, one awaited request   *)
(* at a time, to compile a source (load_deps_async, Compiler::compile) or  *)
(* to execute a transaction locally (collect_inputs_async), while the      *)
(* chain it asks goes on and reorganises.                                  *)
(*                                                                         *)
(* What a module imports is fixed with its address, which is derived from  *)
(* the transaction that publishes it; graph says what a publication at an  *)
(* address would import.  A request that fails (meow/src/builder.rs and    *)
(* transaction/mod.rs turn errors into None) is as good as no object.      *)
(***************************************************************************)
EXTENDS Integers, FiniteSets, Sequences, SequencesExt

CONSTANTS
    Modules,        \* addresses at which modules may be published
    GasCoin, Arg,   \* addresses of two objects that are no modules
    Names,          \* module address -> name of the module
    Graphs,         \* what the addresses may import: Modules -> Seq(Modules)
    UseLists,       \* the use declarations of sources: Seq([name, addr])
    MaxImports,     \* CompilerConfig::max_imports
    MaxDepModules,  \* max_dep_modules, of the compiler and of the VM
    MaxReorgs       \* bound on the reorganisations of a behaviour

VARIABLES
    graph,   \* address -> its imports
    order,   \* the modules on the chain, as published
    reorgs,
    task,    \* what the client is doing
    done     \* what it did last, with the outcome

vars == <<graph, order, reorgs, task, done>>

OnChain == ToSet(order)

\* get_object at the node.
Stored == OnChain \cup {GasCoin, Arg}

\* The content of an object that is no module does not decode to one.
ImportsOf(a) == IF a \in Modules THEN graph[a] ELSE <<>>

(***************************************************************************)
(* The inputs of a transaction.                                            *)
(*   [kind |-> "call", root: module called, args: Seq(address)]            *)
(*   [kind |-> "publish", imports: imports of the module published]        *)
(***************************************************************************)
CallTx(root) == [kind |-> "call", root |-> root, imports |-> <<>>, args |-> <<Arg>>]

PublishTx(imports) == [kind |-> "publish", root |-> GasCoin, imports |-> imports, args |-> <<>>]

Present(as, got) == SelectSeq(as, LAMBDA a : a \in got)

\* A slip: a module is put before the modules it imports.
RECURSIVE DepModulesPreOrder(_, _, _)
DepModulesPreOrder(as, got, c) ==
    IF as = <<>> THEN c
    ELSE LET a == Head(as)
             seen == [c EXCEPT !.seen = @ \cup {a}]
         IN  DepModulesPreOrder(Tail(as), got,
                IF a \in c.seen THEN c ELSE IF a \notin got THEN seen
                ELSE DepModulesPreOrder(ImportsOf(a), got, [seen EXCEPT !.inputs = Append(@, a)]))

\* The modules as and what they import, each behind its imports; c has the
\* inputs so far and the addresses seen.
RECURSIVE DepModules(_, _, _)
DepModules(as, got, c) ==
    IF as = <<>> THEN c
    ELSE LET a == Head(as)
             seen == [c EXCEPT !.seen = @ \cup {a}]
             below == DepModules(ImportsOf(a), got, seen)
         IN  DepModules(Tail(as), got,
                IF a \in c.seen THEN c ELSE IF a \notin got THEN seen
                ELSE [below EXCEPT !.inputs = Append(@, a)])

\* collect_inputs, when get_object finds the objects in got.
CollectInputs(tx, got) ==
    LET gas == Present(<<GasCoin>>, got)
    IN  IF tx.kind = "publish" THEN DepModules(tx.imports, got, [inputs |-> gas, seen |-> {}]).inputs
        ELSE IF tx.root \notin got THEN gas \o Present(tx.args, got)
        ELSE DepModules(ImportsOf(tx.root), got, [inputs |-> gas, seen |-> {tx.root}]).inputs
                \o <<tx.root>> \o Present(tx.args, got)

\* A slip: only what the module itself imports is resolved.
ResolveDirectModules(queue, given, deps) ==
    IF ToSet(queue) \subseteq given THEN ToSet(queue) ELSE {GasCoin}

\* A slip: a module that is missing is skipped, as it is when inputs are collected.
RECURSIVE ResolvePresentModules(_, _, _)
ResolvePresentModules(queue, given, deps) ==
    IF queue = <<>> THEN deps
    ELSE LET a == Last(queue)
         IN  ResolvePresentModules(IF a \in given \ deps THEN Front(queue) \o ImportsOf(a) ELSE Front(queue),
                                   given, deps \cup ({a} \cap given))

\* resolve_dep_modules on the modules given: all that can be reached, or a
\* set with GasCoin in it when one is missing.
RECURSIVE ResolveDepModules(_, _, _)
ResolveDepModules(queue, given, deps) ==
    IF queue = <<>> THEN deps
    ELSE LET a == Last(queue)
         IN  IF a \in deps THEN ResolveDepModules(Front(queue), given, deps)
             ELSE IF a \notin given THEN {GasCoin}
             ELSE ResolveDepModules(Front(queue) \o SelectSeq(ImportsOf(a), LAMBDA b : b \notin deps),
                                    given, deps \cup {a})

DepsOf(tx, inputs) ==
    ResolveDepModules(IF tx.kind = "call" THEN ImportsOf(tx.root) ELSE tx.imports,
                      ToSet(inputs) \cap Modules, {})

\* How far execute gets with the inputs; past them is module Contract.
Execute(tx, inputs) ==
    LET has == ToSet(inputs)
        deps == DepsOf(tx, inputs)
    IN  CASE GasCoin \notin has -> "GasCoinNotFound"
          [] tx.kind = "call" /\ tx.root \notin has \cap Modules -> "ModuleNotFound"
          [] GasCoin \in deps -> "MissingDependency"
          [] ~(ToSet(tx.args) \subseteq has) -> "ArgumentNotFound"
          [] tx.kind = "publish" /\ Len(tx.imports) > MaxImports -> "TooManyImports"
          [] tx.kind = "call" /\ Cardinality(deps) > MaxDepModules -> "TooManyDepModules"
          [] OTHER -> "ok"

(***************************************************************************)
(* The checks of compile on the modules deps it is given.                  *)
(***************************************************************************)
AddressesOf(uses) == [i \in DOMAIN uses |-> uses[i].addr]

\* A use names a module that was given, by address and by name.
UseFound(use, deps) == use.addr \in ToSet(deps) /\ Names[use.addr] = use.name

\* Whether all that the queue leads to was given, breadth first.
RECURSIVE ClosureGiven(_, _, _)
ClosureGiven(queue, visited, given) ==
    IF queue = <<>> THEN TRUE
    ELSE LET a == Head(queue)
             now == visited \cup {a}
         IN  IF a \in visited THEN ClosureGiven(Tail(queue), visited, given)
             ELSE a \in given
                  /\ ClosureGiven(Tail(queue) \o SelectSeq(graph[a], LAMBDA b : b \notin now), now, given)

\* dfs_module_cycle over the imports as of one module; d holds the modules
\* visited, those on the stack, and whether a cycle was found.
RECURSIVE DfsModules(_, _, _)
DfsModules(as, given, d) ==
    IF as = <<>> \/ d.cycle THEN d
    ELSE LET a == Head(as)
             in == DfsModules(graph[a], given, [d EXCEPT !.visited = @ \cup {a}, !.stack = @ \cup {a}])
         IN  DfsModules(Tail(as), given,
                IF a \notin given THEN d
                ELSE IF a \notin d.visited THEN [in EXCEPT !.stack = d.stack]
                ELSE [d EXCEPT !.cycle = a \in d.stack])

\* A slip: a module seen twice is taken for a cycle.
HasCycleDiamond(deps) ==
    \E a, b \in ToSet(deps) : a # b /\ \E c \in ToSet(deps) : c \in ToSet(graph[a]) \cap ToSet(graph[b])

\* detect_module_dep_cycles, from each of the modules in turn.
HasCycle(deps) == DfsModules(deps, ToSet(deps), [visited |-> {}, stack |-> {}, cycle |-> FALSE]).cycle

CheckDeps(uses, deps) ==
    CASE Len(uses) > MaxImports -> "TooManyImports"
      [] Len(deps) > MaxDepModules -> "TooManyDepModules"
      [] ~IsInjective(deps) -> "DuplicateDependency"
      [] \E i \in DOMAIN uses : ~UseFound(uses[i], deps) -> "UnknownDependency"
      [] ~ClosureGiven(AddressesOf(uses), {}, ToSet(deps)) -> "MissingDependency"
      [] HasCycle(deps) -> "Cycle"
      [] OTHER -> "ok"

(***************************************************************************)
(* The chain.                                                              *)
(***************************************************************************)
NoTask == [op |-> "none", uses |-> <<>>, tx |-> PublishTx(<<>>), queue |-> <<>>, stage |-> "",
           seen |-> {}, got |-> {}, steady |-> TRUE]

NothingDone == [of |-> NoTask, deps |-> <<>>, inputs |-> <<>>, out |-> ""]

Init ==
    /\ graph \in Graphs /\ order = <<>> /\ reorgs = 0
    /\ task = NoTask /\ done = NothingDone

\* Ghost: the client no longer deals with one chain state only.
ChainChanges ==
    /\ task' = IF task.op = "none" THEN task ELSE [task EXCEPT !.steady = FALSE]
    /\ done' = IF done.out = "" THEN done ELSE [done EXCEPT !.of.steady = FALSE]

\* A block with a publication at a; the node collects the inputs itself.
PublishModule ==
    \E a \in Modules \ OnChain :
        /\ Execute(PublishTx(graph[a]), CollectInputs(PublishTx(graph[a]), Stored)) = "ok"
        /\ order' = Append(order, a)
        /\ ChainChanges
        /\ UNCHANGED <<graph, reorgs>>

\* A longer branch that forked before the last publications.
Reorg ==
    /\ reorgs < MaxReorgs /\ reorgs' = reorgs + 1
    /\ \E n \in 0..(Len(order) - 1) : order' = SubSeq(order, 1, n)
    /\ ChainChanges
    /\ UNCHANGED graph

(***************************************************************************)
(* The client.                                                             *)
(***************************************************************************)
\* What a request for a may add to the cache, and whether it is what the node has.
Answers(a) == IF a \in Stored THEN {{a}, {}} ELSE {{}}

Expected(a, ans) == a \in Stored => ans # {}

Idle == task.op = "none"

StartBuild ==
    /\ Idle
    /\ \E uses \in UseLists :
          task' = [NoTask EXCEPT !.op = "build", !.uses = uses, !.queue = AddressesOf(uses)]
    /\ done' = NothingDone
    /\ UNCHANGED <<graph, order, reorgs>>

\* A slip: what was loaded is not followed.
AfterLoadDirect(rest, a) == rest

\* The queue of load_deps_async after a was loaded.
AfterLoad(rest, a) == rest \o SelectSeq(graph[a], LAMBDA b : b \notin task.got)

\* One iteration of load_deps_async.
LoadDep ==
    LET a == Last(task.queue)
        rest == Front(task.queue)
    IN  /\ task.op = "build" /\ task.queue # <<>>
        /\ IF a \in task.got THEN task' = [task EXCEPT !.queue = rest]
           ELSE \E ans \in Answers(a) :
                  task' = [task EXCEPT
                     !.queue = IF ans # {} THEN AfterLoad(rest, a) ELSE rest,
                     !.got = @ \cup ans, !.steady = @ /\ Expected(a, ans)]
        /\ UNCHANGED <<graph, order, reorgs, done>>

\* A slip: a build waits for something to be loaded.
FinishBuildLoaded ==
    /\ task.op = "build" /\ task.queue = <<>> /\ task.got # {}
    /\ \E deps \in SetToSeqs(task.got) :
          done' = [NothingDone EXCEPT !.of = task, !.deps = deps, !.out = CheckDeps(task.uses, deps)]
    /\ task' = NoTask
    /\ UNCHANGED <<graph, order, reorgs>>

\* build with what was loaded; the map hands it over in any order.
FinishBuild ==
    /\ task.op = "build" /\ task.queue = <<>>
    /\ \E deps \in SetToSeqs(task.got) :
          done' = [NothingDone EXCEPT !.of = task, !.deps = deps, !.out = CheckDeps(task.uses, deps)]
    /\ task' = NoTask
    /\ UNCHANGED <<graph, order, reorgs>>

\* compile is public: any source with any modules, whatever the chain.
CompileWith ==
    /\ Idle /\ order = <<>> /\ done.out = ""
    /\ \E uses \in UseLists, deps \in SetToAllKPermutations(Modules) \cup {<<a, a>> : a \in Modules} :
          done' = [NothingDone EXCEPT !.of = [NoTask EXCEPT !.op = "compile", !.uses = uses],
                                      !.deps = deps, !.out = CheckDeps(uses, deps)]
    /\ UNCHANGED <<graph, order, reorgs, task>>

\* ExecuteLocally with a call or a publication.
StartInputs ==
    /\ Idle
    /\ \E tx \in {CallTx(a) : a \in Modules \cup {Arg}} \cup {PublishTx(graph[a]) : a \in Modules} :
          task' = [NoTask EXCEPT !.op = "inputs", !.tx = tx, !.stage = "gas",
                                 !.queue = IF tx.kind = "call" THEN <<tx.root>> ELSE tx.imports]
    /\ done' = NothingDone
    /\ UNCHANGED <<graph, order, reorgs>>

FetchGasCoin ==
    /\ task.op = "inputs" /\ task.stage = "gas"
    /\ \E ans \in Answers(GasCoin) :
          task' = [task EXCEPT !.stage = "modules", !.got = ans, !.steady = @ /\ Expected(GasCoin, ans)]
    /\ UNCHANGED <<graph, order, reorgs, done>>

\* A slip: an import that already waits in the queue stands for all of them.
AfterFetchOnce(rest, a) == IF rest # <<>> THEN rest ELSE ImportsOf(a)

\* The queue of bfs_fetch_modules after a was fetched.
AfterFetch(rest, a) == rest \o ImportsOf(a)

\* One iteration of bfs_fetch_modules.
FetchModule ==
    LET a == Last(task.queue)
        rest == Front(task.queue)
    IN  /\ task.op = "inputs" /\ task.stage = "modules" /\ task.queue # <<>>
        /\ IF a \in task.seen THEN task' = [task EXCEPT !.queue = rest]
           ELSE \E ans \in Answers(a) :
                  task' = [task EXCEPT
                     !.queue = IF ans # {} THEN AfterFetch(rest, a) ELSE rest,
                     !.seen = @ \cup {a}, !.got = @ \cup ans,
                     !.steady = @ /\ Expected(a, ans)]
        /\ UNCHANGED <<graph, order, reorgs, done>>

\* The arguments, and the synchronous pass over what was gathered.
FetchArgs ==
    /\ task.op = "inputs" /\ task.stage = "modules" /\ task.queue = <<>>
    /\ \E ans \in IF task.tx.args = <<>> THEN {{}} ELSE Answers(Arg) :
          LET inputs == CollectInputs(task.tx, task.got \cup ans)
          IN  done' = [NothingDone EXCEPT
                 !.of = [task EXCEPT !.got = @ \cup ans, !.steady = @ /\ ans = ToSet(task.tx.args)],
                 !.inputs = inputs, !.out = Execute(task.tx, inputs)]
    /\ task' = NoTask
    /\ UNCHANGED <<graph, order, reorgs>>

Client == LoadDep \/ FinishBuild \/ FetchGasCoin \/ FetchModule \/ FetchArgs

Next == PublishModule \/ Reorg \/ StartBuild \/ CompileWith \/ StartInputs \/ Client

\* Requests are answered or fail, and a future that can go on is polled.
Spec == Init /\ [][Next]_vars /\ WF_vars(Client)

(***************************************************************************)
(* Properties.                                                             *)
(***************************************************************************)
\* The modules a set of modules needs: the least set with it that is closed
\* under imports.
Closed(S) == \A a \in S : ToSet(graph[a]) \subseteq S

Needs(S) == {m \in Modules : \A C \in SUBSET Modules : S \subseteq C /\ Closed(C) => m \in C}

Acyclic(S) == \A C \in SUBSET S : C # {} => \E a \in C : ToSet(graph[a]) \cap C = {}

UsesOf(d) == ToSet(AddressesOf(d.of.uses))

RootsOf(tx) == IF tx.kind = "call" THEN ToSet(ImportsOf(tx.root)) ELSE ToSet(tx.imports)

\* Whatever is published, in any order and across reorganisations, every chain
\* state has with a module all it imports, and imports have no cycle: a
\* publication resolves its imports among what is there.
ChainIsClosed == Closed(OnChain) /\ Acyclic(OnChain)

\* compile accepts exactly the sources whose imports are given by name and
\* address, with all they need, and without a cycle among what is given.
AcceptsExactly ==
    done.of.op \in {"build", "compile"} =>
        (done.out = "ok" <=>
            LET given == ToSet(done.deps)
            IN  /\ Len(done.of.uses) <= MaxImports /\ Len(done.deps) <= MaxDepModules
                /\ Cardinality(given) = Len(done.deps)
                /\ \A i \in DOMAIN done.of.uses : UseFound(done.of.uses[i], done.deps)
                /\ Needs(UsesOf(done)) \subseteq given /\ Acyclic(given))

\* A build loads what its uses need and nothing else.  It loads all of it from
\* a chain that stands still and answers; from one that moves, or does not,
\* it has all of it or fails.
BuildsLoadTheClosure ==
    done.of.op = "build" =>
        /\ done.of.got \subseteq Needs(UsesOf(done))
        /\ done.out = "ok" => done.of.got = Needs(UsesOf(done))
        /\ done.of.steady => done.of.got = Needs(UsesOf(done) \cap OnChain)

\* What was built against an earlier chain state can be published and then
\* called on any later one that has its imports: the node finds for it the
\* modules it was compiled with.
BuiltModulesRun ==
    done.of.op = "build" /\ done.out = "ok" /\ UsesOf(done) \subseteq OnChain =>
        LET tx == PublishTx(AddressesOf(done.of.uses))
            inputs == CollectInputs(tx, Stored)
        IN  /\ Execute(tx, inputs) = "ok"
            /\ DepsOf(tx, inputs) = done.of.got
            /\ Cardinality(done.of.got) <= MaxDepModules

\* Executing locally goes as executing at the node: the inputs are the same if
\* the chain stood still, and if it did not an execution that finds its inputs
\* has exactly the modules it needs.
LocalInputsAreTheNodes ==
    done.of.op = "inputs" =>
        /\ done.of.steady => done.inputs = CollectInputs(done.of.tx, Stored)
        /\ done.out \in {"ok", "TooManyDepModules", "TooManyImports"} =>
              DepsOf(done.of.tx, done.inputs) = Needs(RootsOf(done.of.tx))

\* collect_dep_modules puts a module behind what it imports, and no module
\* twice, also when requests failed.
DependenciesFirst ==
    LET mods == SelectSeq(done.inputs, LAMBDA a : a \in Modules)
    IN  /\ IsInjective(mods)
        /\ \A i, j \in DOMAIN mods : mods[i] \in ToSet(graph[mods[j]]) => i < j

\* A client that asks comes to an end, whatever the chain does meanwhile.
ClientFinishes == task.op # "none" ~> task.op = "none"
=============================================================================
