------------------------------ MODULE Compiler ------------------------------
(***************************************************************************)
(* The passes of the compiler qbc (lib/qbc.cpp) over the statements of one *)
(* module: what they collect from the statements and pass on to Passes.    *)
(***************************************************************************)
EXTENDS Integers, Sequences, FiniteSets, Assembler, Passes

CONSTANT AtomOrder \* the atoms strings are made of, in ascending order

Byte(atom) == CHOOSE i \in DOMAIN AtomOrder : AtomOrder[i] = atom

-----------------------------------------------------------------------------
(***************************************************************************)
(* AsmCmp orders the resources by their keys.                              *)
(***************************************************************************)
key_string(s) == [i \in DOMAIN s.value |-> Byte(s.value[i])] \o <<0>>
key_modsym(ms) == key_string(ms.module) \o key_string(ms.symbol)

RECURSIVE key_typespecs(_)
key_typespec(t) ==
    key_modsym(t.name) \o IF t.args = <<>> THEN <<0>> ELSE <<1>> \o key_typespecs(t.args)
key_typespecs(types) ==
    <<Len(types)>> \o FlattenSeq([i \in DOMAIN types |->
        key_modsym(types[i].name)
        \o IF types[i].args = <<>> THEN <<0>> ELSE <<1>> \o key_typespecs(types[i].args)])

key_polymorph(p) == key_modsym(p.protocol) \o key_typespecs(p.types)

(* Defect: the types of an override are not compared.                      *)
key_func_untyped(f) ==
    <<PFC_TYPE(f.fcontext)>>
    \o CASE PFC_TYPE(f.fcontext) = FCT_TRADITIONAL -> key_string(f.name)
         [] PFC_TYPE(f.fcontext) = FCT_PROTOCOL -> key_string(f.ctx[1].name) \o key_string(f.name)
         [] PFC_TYPE(f.fcontext) = FCT_POLYMORPH -> key_modsym(f.ctx[1].protocol) \o key_string(f.name)

key_func(f) ==
    <<PFC_TYPE(f.fcontext)>>
    \o CASE PFC_TYPE(f.fcontext) = FCT_TRADITIONAL -> key_string(f.name)
         [] PFC_TYPE(f.fcontext) = FCT_PROTOCOL -> key_string(f.ctx[1].name) \o key_string(f.name)
         [] PFC_TYPE(f.fcontext) = FCT_POLYMORPH ->
              key_modsym(f.ctx[1].protocol) \o key_string(f.name) \o key_string(f.param_types)

key(r) ==
    <<r.type>>
    \o CASE r.type = RESOURCE_IMPORT -> <<>>
         [] r.type \in {RESOURCE_STRING, RESOURCE_HASHTAG} -> key_string(r)
         [] r.type \in {RESOURCE_CONSTRUCT, RESOURCE_DATATYPE, RESOURCE_PROTOCOL} -> key_string(r.name)
         [] r.type = RESOURCE_FUNCTION -> key_func(r)
         [] r.type = RESOURCE_MODSYM -> key_modsym(r)
         [] r.type = RESOURCE_TYPESPEC -> key_typespec(r)
         [] r.type = RESOURCE_POLYMORPH -> key_polymorph(r)

ResourceLess(a, b) == KeyLess(a, b)

-----------------------------------------------------------------------------
(***************************************************************************)
(* ResourceSet.  index maps a key to the first resource collected with it; *)
(* names are the modules to be imported.                                   *)
(***************************************************************************)
collect(rs, r) ==
    IF key(r) \in DOMAIN rs.index THEN rs
    ELSE [rs EXCEPT !.index = (key(r) :> r) @@ rs.index]

(* Neither "*", the module of type variables, nor the module itself.       *)
import(rs, module) ==
    collect(IF module.value \in {<<"*">>, rs.module_name} THEN rs
            ELSE [rs EXCEPT !.names = @ \cup {module.value}],
            module)

collect_modsym(rs, ms) == collect(collect(import(rs, ms.module), ms.symbol), ms)

RECURSIVE collect_typespec(_, _)
collect_typespec(rs, t) ==
    FoldLeft(collect_typespec,
             collect(collect_modsym(collect(rs, fullname(t)), t.name), t),
             t.args)

collect_resource(rs, r) ==
    CASE r.type = RESOURCE_MODSYM -> collect_modsym(rs, r)
      [] r.type = RESOURCE_TYPESPEC -> collect_typespec(rs, r)
      [] OTHER -> collect(rs, r)

(* The set before any statement: the imports and the module's name.        *)
ResourceSet(module_name) ==
    collect(collect([index |-> <<>>, order |-> <<>>, names |-> {}, module_name |-> module_name],
                    AsmImport({})),
            AsmString(module_name))
set_module_version(rs) == collect(rs, AsmString(<<"bbd">>))

collect_resources(rs, stmts) ==
    FoldLeft(collect_resource, rs, FlattenSeq([i \in DOMAIN stmts |-> TopResources(stmts[i])]))

(* Indices count from 1 in the order of the keys; the AsmImport has the    *)
(* modules by then.                                                        *)
index_resources(rs) ==
    [rs EXCEPT
        !.index = (<<RESOURCE_IMPORT>> :> AsmImport(rs.names)) @@ rs.index,
        !.order = Ascending(DOMAIN rs.index)]

NULL_INDEX == 0
(* The index of a resource that has been collected.                        *)
index(rs, r) == LET k == key(r) IN CHOOSE i \in DOMAIN rs.order : rs.order[i] = k
Resource(rs, i) == rs.index[rs.order[i]]

-----------------------------------------------------------------------------
(***************************************************************************)
(* The functions.                                                          *)
(***************************************************************************)
(* The registers of a function; parameters are named by their text.        *)
allocate_registers(f) ==
    Allocation([k \in DOMAIN f.params |-> f.params[k].name.value[1]], Code(f.stmts).regs)
argc(f) == argc_of(f.params)
regc(f) == IF f.stmts = <<>> THEN 0 ELSE (allocate_registers(f).counter - argc(f)) % 256

Operand(rs, registry, kind, x) ==
    CASE kind = "reg" -> reg_t(registry, x)
      [] kind = "id" -> index(rs, x)
      [] OTHER -> x

Instruction_(rs, registry, do) ==
    [do EXCEPT !.args =
        [k \in DOMAIN do.args |-> Operand(rs, registry, WRITER[do.op].fields[k], do.args[k])]]

generate_codeblock(rs, f) ==
    LET registry == allocate_registers(f).registry
        dos == Code(f.stmts).code
    IN  Gather([k \in DOMAIN dos |-> Instruction_(rs, registry, dos[k])])

(* The code of every function that is in the resource set.                 *)
generate_code(rs) ==
    [k \in {k \in DOMAIN rs.index : rs.index[k].type = RESOURCE_FUNCTION} |->
        measure_function_jumps(generate_codeblock(rs, rs.index[k]))]
=============================================================================
