----------------------------- MODULE Inspector -----------------------------
(***************************************************************************)
(* The inspector qbi (lib/qbi.cpp): what it prints of an object file.  A   *)
(* line is the sequence of what is printed in it, the fixed words of its   *)
(* layout left out.                                                        *)
(***************************************************************************)
EXTENDS Integers, Sequences, FiniteSets, ObjectFile

(* How a register is called: constants other than these are not known.     *)
pretty_reg(r) ==
    CASE REG_IS_PRIMARY(r) -> <<"r", REG_EXTRACT_PRIMARY(r)>>
      [] REG_IS_SECONDARY(r) -> <<"r", REG_EXTRACT_SECONDARY1(r), REG_EXTRACT_SECONDARY2(r)>>
      [] r = SPECIAL_REG(REG_RESULT) -> <<"result">>
      [] r = CONST_REG(REG_VOID) -> <<"void">>
      [] r = SPECIAL_REG(REG_PID) -> <<"pid">>
      [] r = CONST_REG(REG_TRUE) -> <<"true">>
      [] r = CONST_REG(REG_FALSE) -> <<"false">>
      [] OTHER -> <<"wtf?", r>>

-----------------------------------------------------------------------------
(***************************************************************************)
(* One printer per struct.  A jump is a count of bytes, a resource its     *)
(* index.                                                                  *)
(***************************************************************************)
print_registers(regs) == [k \in DOMAIN regs |-> pretty_reg(regs[k])]
print_jump_delta(delta) == IF delta > 0 THEN <<"+", delta>> ELSE <<delta>>

print_binaryop(i) == <<i.op>> \o print_registers(i.args)
print_call(i) == <<"call">> \o print_registers(i.args)
print_call1(i) == <<"call1">> \o print_registers(i.args)
print_call2(i) == <<"call2">> \o print_registers(i.args)
print_lcontext(i) == <<"lcontext", pretty_reg(i.args[1]), <<"#", i.args[2]>>>>
print_lconstruct(i) == <<"lconstruct", pretty_reg(i.args[1]), <<"modsym", i.args[2]>>>>
print_lfunc(i) == <<"lfunc", pretty_reg(i.args[1]), <<"modsym", i.args[2]>>>>
print_match(i) == <<"match">> \o print_registers(Tail(i.args)) \o <<print_jump_delta(jump(i))>>
print_matchargs(i) == <<"matchargs">> \o print_registers(Tail(i.args)) \o <<print_jump_delta(jump(i))>>
print_newproc(i) == <<"newproc">> \o print_registers(i.args)
print_patternvar(i) == <<"patternvar">> \o print_registers(i.args)
print_recv(i) == <<"recv">> \o print_registers(i.args)
print_stracc(i) == <<"stracc">> \o print_registers(i.args)
print_loadobj(i) == <<"loadobj", <<"s", i.args[1]>>>>
print_move(i) == <<"move">> \o print_registers(i.args)
print_ref(i) == <<"ref">> \o print_registers(i.args)
print_copy(i) == <<"copy">> \o print_registers(i.args)
print_consts(i) == <<"consts", pretty_reg(i.args[1]), <<"s", i.args[2]>>>>
print_consthash(i) == <<"consthash", pretty_reg(i.args[1]), <<"#", i.args[2]>>>>
print_return(i) == <<"ret">>
print_cfailure(i) == <<"cfailure", pretty_reg(i.args[1]), <<"#", i.args[2]>>>>
print_cmp(i) == <<i.op>> \o print_registers(i.args)
print_consti(i) == <<"consti", pretty_reg(i.args[1]), i.args[2]>>
(* Nothing is printed between the register and the size.                   *)
print_ctuple(i) == <<"ctuple", Append(pretty_reg(i.args[1]), i.args[2])>>
print_fieldget(i) == <<"fieldget", pretty_reg(i.args[1]), pretty_reg(i.args[2]), <<"s", i.args[3]>>>>
print_fieldset(i) == <<"fieldset", pretty_reg(i.args[1]), <<"s", i.args[2]>>, pretty_reg(i.args[3])>>
print_fork(i) == <<"fork", print_jump_delta(jump(i)), pretty_reg(i.args[2])>>
print_goto(i) == <<"goto", print_jump_delta(jump(i))>>
print_if(i) == <<i.op, print_jump_delta(jump(i)), pretty_reg(i.args[2])>>
print_iffail(i) == <<i.op, print_jump_delta(jump(i)), pretty_reg(i.args[2])>>

(* PRINTER; an opcode without a printer ends the program.                  *)
NoPrinter == {"loadtype", "stuple", "clist", "cons"}

print_instruction(i) ==
    CASE i.op \in {"iadd", "isub", "imult", "idiv"} -> print_binaryop(i)
      [] i.op \in {"cmp_eq", "cmp_noteq", "cmp_gt", "cmp_gteq", "cmp_lt", "cmp_lteq"} -> print_cmp(i)
      [] i.op \in {"if", "ifnot"} -> print_if(i)
      [] i.op \in {"iffail", "ifnotfail"} -> print_iffail(i)
      [] i.op = "call" -> print_call(i)             [] i.op = "call1" -> print_call1(i)
      [] i.op = "call2" -> print_call2(i)           [] i.op = "cfailure" -> print_cfailure(i)
      [] i.op = "fieldget" -> print_fieldget(i)     [] i.op = "fieldset" -> print_fieldset(i)
      [] i.op = "lcontext" -> print_lcontext(i)     [] i.op = "lconstruct" -> print_lconstruct(i)
      [] i.op = "lfunc" -> print_lfunc(i)           [] i.op = "loadobj" -> print_loadobj(i)
      [] i.op = "match" -> print_match(i)           [] i.op = "matchargs" -> print_matchargs(i)
      [] i.op = "consts" -> print_consts(i)         [] i.op = "consthash" -> print_consthash(i)
      [] i.op = "ctuple" -> print_ctuple(i)         [] i.op = "return" -> print_return(i)
      [] i.op = "move" -> print_move(i)             [] i.op = "ref" -> print_ref(i)
      [] i.op = "copy" -> print_copy(i)             [] i.op = "consti" -> print_consti(i)
      [] i.op = "fork" -> print_fork(i)             [] i.op = "goto" -> print_goto(i)
      [] i.op = "newproc" -> print_newproc(i)       [] i.op = "patternvar" -> print_patternvar(i)
      [] i.op = "recv" -> print_recv(i)             [] i.op = "stracc" -> print_stracc(i)

-----------------------------------------------------------------------------
(***************************************************************************)
(* Functions.                                                              *)
(***************************************************************************)
fcontext_name(fc) ==
    CASE fc = PFC_NONE -> "traditional"         [] fc = PFC_ABSTRACT -> "abstract protocol"
      [] fc = PFC_DEFAULT -> "default protocol" [] fc = PFC_OVERRIDE -> "polymorph"

(* The protocol a function belongs to, as it is printed before its name.   *)
protocol_of(tbl, f) ==
    CASE f.fcontext = PFC_NONE -> <<>>
      [] f.fcontext \in {PFC_ABSTRACT, PFC_DEFAULT} ->
             <<ProtocolResource(tbl, ptr(tbl, f.context_idx)).name>>
      [] f.fcontext = PFC_OVERRIDE -> PolymorphResource(tbl, ptr(tbl, f.context_idx)).protocol

print_function_header(tbl, f) ==
    <<<<fcontext_name(f.fcontext), protocol_of(tbl, f), f.name, f.argc, f.regc>>,
      <<f.param_types, f.result_type>>>>
    \o IF f.fcontext = PFC_OVERRIDE
       THEN <<PolymorphResource(tbl, ptr(tbl, f.context_idx)).types>> ELSE <<>>

(* Defect: the parameters are taken off the size of the code twice.        *)
print_function_code_short(tbl, i) ==
    LET f == FunctionHeader(tbl, ptr(tbl, i))
        code == SubSeq(tbl.data, f.code + 1, tbl.data_size)
        RECURSIVE lines(_)
        lines(pc) ==
            IF pc >= size(tbl, i) - FUNCTION_SIZE - 8 * f.argc THEN <<>>
            ELSE LET at == InstructionAt(code, pc)
                 IN  <<<<pc, print_instruction(at)>>>> \o lines(pc + isize(at))
    IN  IF f.fcontext = PFC_ABSTRACT THEN <<>> ELSE f.params \o lines(0)

(* From the code on, instruction by instruction, as long as pc is inside   *)
(* the resource.                                                           *)
print_function_code(tbl, i) ==
    LET f == FunctionHeader(tbl, ptr(tbl, i))
        code == SubSeq(tbl.data, f.code + 1, tbl.data_size)
        RECURSIVE lines(_)
        lines(pc) ==
            IF pc >= size(tbl, i) - FUNCTION_SIZE - 4 * f.argc THEN <<>>
            ELSE LET at == InstructionAt(code, pc)
                 IN  <<<<pc, print_instruction(at)>>>> \o lines(pc + isize(at))
    IN  IF f.fcontext = PFC_ABSTRACT THEN <<>> ELSE f.params \o lines(0)

OfType(tbl, t) == SelectSeq([k \in Indices(tbl) |-> k], LAMBDA k: type(tbl, k) = t)

print_code(tbl) ==
    [k \in DOMAIN OfType(tbl, RESOURCE_FUNCTION) |->
        LET i == OfType(tbl, RESOURCE_FUNCTION)[k]
        IN  <<print_function_header(tbl, FunctionHeader(tbl, ptr(tbl, i))),
              offset(tbl, i), print_function_code(tbl, i)>>]

-----------------------------------------------------------------------------
(***************************************************************************)
(* Resources: imports, constructs, and one line for every resource.        *)
(***************************************************************************)
print_imports(tbl, i) == <<Len(fetch_imports(tbl, i))>> \o fetch_imports(tbl, i)
print_constructure(tbl, i) ==
    LET c == ConstructResource(tbl, ptr(tbl, i)) IN <<c.name, Len(c.fields)>> \o c.fields
print_constructs(tbl) ==
    [k \in DOMAIN OfType(tbl, RESOURCE_CONSTRUCT) |->
        print_constructure(tbl, OfType(tbl, RESOURCE_CONSTRUCT)[k])]

print_hashtag(tbl, i) == <<"#", fetch_string(tbl, i)>>
print_import_line(tbl, i) == <<"import", Len(fetch_imports(tbl, i))>>
(* The bytes of a string include the NUL.                                  *)
print_escaped_string(tbl, i) ==
    <<"str", FromHost(SubSeq(tbl.data, ptr(tbl, i) + 1, ptr(tbl, i) + 2)), fetch_string(tbl, i)>>
print_modsym(tbl, i) == <<"modsym", fetch_modsym(tbl, i)>>
print_typespec(tbl, i) == <<"typespec", fetch_typespec(tbl, i)>>
print_construct(tbl, i) ==
    LET c == ConstructResource(tbl, ptr(tbl, i)) IN <<"construct", c.name, Len(c.fields)>>
print_datatype(tbl, i) ==
    LET d == DataTypeResource(tbl, ptr(tbl, i)) IN <<"datatype", d.name, d.argc>>
print_function_resource_line(tbl, i) ==
    LET f == FunctionHeader(tbl, ptr(tbl, i))
    IN  <<fcontext_name(f.fcontext), protocol_of(tbl, f), f.name, f.argc>>
(* The first type variable, whether or not there is one.                   *)
print_protocol_resource_line(tbl, i) ==
    LET p == ProtocolResource(tbl, ptr(tbl, i))
    IN  <<"protocol", p.name, p.argc, fetch_string(tbl, field(tbl, ptr(tbl, i), 8))>>
print_polymorph_resource_line(tbl, i) ==
    LET p == PolymorphResource(tbl, ptr(tbl, i)) IN <<"polymorph", p.protocol>> \o p.types

print_resource_line(tbl, i) ==
    <<i>> \o
    CASE type(tbl, i) = RESOURCE_CONSTRUCT -> print_construct(tbl, i)
      [] type(tbl, i) = RESOURCE_DATATYPE -> print_datatype(tbl, i)
      [] type(tbl, i) = RESOURCE_FUNCTION -> print_function_resource_line(tbl, i)
      [] type(tbl, i) = RESOURCE_HASHTAG -> print_hashtag(tbl, i)
      [] type(tbl, i) = RESOURCE_IMPORT -> print_import_line(tbl, i)
      [] type(tbl, i) = RESOURCE_MODSYM -> print_modsym(tbl, i)
      [] type(tbl, i) = RESOURCE_POLYMORPH -> print_polymorph_resource_line(tbl, i)
      [] type(tbl, i) = RESOURCE_PROTOCOL -> print_protocol_resource_line(tbl, i)
      [] type(tbl, i) = RESOURCE_STRING -> print_escaped_string(tbl, i)
      [] type(tbl, i) = RESOURCE_TYPESPEC -> print_typespec(tbl, i)
print_resources(tbl) == [i \in Indices(tbl) |-> print_resource_line(tbl, i)]

-----------------------------------------------------------------------------
(* Everything qbi prints of a file.                                        *)
show_object_info(bytes) ==
    LET header == read_header(bytes)
        resource == read_resource_table(bytes)
    IN  [application |-> header.application,
         library     |-> fetch_string(resource, header.name),
         version     |-> <<header.version, fetch_string(resource, header.iteration)>>,
         data_size   |-> resource.data_size,
         resources   |-> resource.resource_count - 1,
         index       |-> index_offset(resource),
         imports     |-> print_imports(resource, header.imports),
         lines       |-> print_resources(resource),
         constructs  |-> print_constructs(resource),
         code        |-> print_code(resource)]
=============================================================================
