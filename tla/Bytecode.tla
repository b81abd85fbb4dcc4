------------------------------ MODULE Bytecode ------------------------------
(***************************************************************************)
(* What the compiler, the verifiers and the interpreter of meow share: the *)
(* types and values of the VM, module and struct lookups, native function  *)
(* signatures and the gas schedule (crates meow-vm-types and meow-vm).     *)
(*                                                                         *)
(* A name of the bytecode is a pair <<module, name>>; the module is Local  *)
(* for an unqualified name and an address for "@0xHEX::name".  Slots and   *)
(* program counters are numbered from 1.                                   *)
(***************************************************************************)
EXTENDS Integers, Sequences, SequencesExt

CONSTANTS
    Structs,   \* <<module, name>> -> [pub, fields: Seq([name, ty])]
    Funs,      \* <<module, name>> -> [pub, params, ret, locals, code]
    MaxU64     \* the largest u64

Local == "local"

(***************************************************************************)
(* Types and values.  A struct value carries a ghost identity, uid, which  *)
(* the code does not have: it tells two equal structs apart.               *)
(***************************************************************************)
BoolT == [k |-> "bool"]
U64T == [k |-> "u64"]
AddressT == [k |-> "address"]
StrT == [k |-> "str"]
VoidT == [k |-> "void"]
StructT(t) == [k |-> "struct", t |-> t]
TupleT(ts) == [k |-> "tuple", ts |-> ts]

BoolV(b) == [k |-> "bool", b |-> b]
U64V(n) == [k |-> "u64", n |-> n]
AddressV(a) == [k |-> "address", a |-> a]
StrV(s) == [k |-> "str", s |-> s]
VoidV == [k |-> "void"]
StructV(t, fs, uid) == [k |-> "struct", t |-> t, fs |-> fs, uid |-> uid]
TupleV(vs) == [k |-> "tuple", vs |-> vs]

\* Structs move; a tuple moves when one of its elements does.
RECURSIVE IsLinear(_)
IsLinear(ty) ==
    CASE ty.k = "struct" -> TRUE
      [] ty.k = "tuple" -> \E i \in DOMAIN ty.ts : IsLinear(ty.ts[i])
      [] OTHER -> FALSE

RECURSIVE IsLinearV(_)
IsLinearV(v) ==
    CASE v.k = "struct" -> TRUE
      [] v.k = "tuple" -> \E i \in DOMAIN v.vs : IsLinearV(v.vs[i])
      [] OTHER -> FALSE

(***************************************************************************)
(* Names.                                                                  *)
(***************************************************************************)
IsQualified(t) == t[1] # Local

Qualify(t, addr) == IF IsQualified(t) THEN t ELSE <<addr, t[2]>>

\* The types of a dependency's signature as its caller names them.
RECURSIVE QualifyType(_, _)
QualifyType(ty, addr) ==
    CASE ty.k = "struct" -> StructT(Qualify(ty.t, addr))
      [] ty.k = "tuple" -> TupleT([i \in DOMAIN ty.ts |-> QualifyType(ty.ts[i], addr)])
      [] OTHER -> ty

FieldNames(t) == [i \in DOMAIN Structs[t].fields |-> Structs[t].fields[i].name]

FieldTypes(t) == [i \in DOMAIN Structs[t].fields |-> Structs[t].fields[i].ty]

(***************************************************************************)
(* Native functions.                                                       *)
(***************************************************************************)
MeowObject == "0x10"   \* the address of the module meow_object
IdName == <<MeowObject, "Id">>
IdT == StructT(IdName)
LocalStructP == [k |-> "local_struct"]   \* NativeParam::LocalStruct

Natives ==
    [ meow_vm_abort |-> [params |-> <<BoolT, U64T, StrT>>, ret |-> VoidT, gas |-> 0],
      meow_vm_fresh_id |-> [params |-> <<>>, ret |-> IdT, gas |-> 10],
      meow_vm_transfer |-> [params |-> <<LocalStructP, AddressT>>, ret |-> VoidT, gas |-> 20],
      meow_vm_destroy |-> [params |-> <<IdT>>, ret |-> VoidT, gas |-> 10],
      meow_vm_sender |-> [params |-> <<>>, ret |-> AddressT, gas |-> 1],
      meow_vm_rand |-> [params |-> <<>>, ret |-> U64T, gas |-> 10],
      meow_vm_timestamp |-> [params |-> <<>>, ret |-> U64T, gas |-> 1] ]

\* A native is called by its bare name, and only when the calling module has
\* no function of that name.
IsNativeCall(f, here) ==
    ~IsQualified(f) /\ Qualify(f, here) \notin DOMAIN Funs /\ f[2] \in DOMAIN Natives

\* A struct is an on-chain object when its first field is id: meow_object::Id.
IsObject(t) ==
    t \in DOMAIN Structs /\ Structs[t].fields # <<>>
        /\ Head(Structs[t].fields) = [name |-> "id", ty |-> IdT]

(***************************************************************************)
(* Instructions.                                                           *)
(***************************************************************************)
Op(op) == [op |-> op]
PushI(v) == [op |-> IF v.k = "str" THEN "PushStr" ELSE "Push", v |-> v]
LoadI(s) == [op |-> "Load", slot |-> s]
StoreI(s) == [op |-> "Store", slot |-> s]
LoadFieldI(s, p) == [op |-> "LoadField", slot |-> s, path |-> p]
StoreFieldI(s, p) == [op |-> "StoreField", slot |-> s, path |-> p]
NewI(t, names) == [op |-> "NewStruct", t |-> t, names |-> names]
UnpackI(t, names) == [op |-> "UnpackStruct", t |-> t, names |-> names]
GetFieldI(name) == [op |-> "GetField", name |-> name]
JumpI(op, off) == [op |-> op, off |-> off]
CallI(f) == [op |-> "Call", f |-> f]
MakeTupleI(n) == [op |-> "MakeTuple", n |-> n]
UnpackTupleI(n) == [op |-> "UnpackTuple", n |-> n]

(***************************************************************************)
(* The default gas schedule.                                               *)
(***************************************************************************)
CostOf(i) ==
    CASE i.op \in {"Push", "Load", "Store", "Not", "And", "Or", "Pop", "Dup"} -> 1
      [] i.op \in {"PushStr", "LoadField", "Add", "Sub", "Mul", "Jump", "JumpIf", "JumpIfNot",
                   "Eq", "Ne", "Lt", "Le", "Gt", "Ge", "Return"} -> 2
      [] i.op = "GetField" -> 3
      [] i.op \in {"StoreField", "Div", "Mod"} -> 5
      [] i.op = "NewStruct" -> 10 + 2 * Len(i.names)
      [] i.op = "UnpackStruct" -> Len(i.names)
      [] i.op \in {"MakeTuple", "UnpackTuple"} -> i.n
      [] i.op = "Call" -> 20
=============================================================================
