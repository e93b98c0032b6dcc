----------------------------- MODULE Toolchain -----------------------------
(***************************************************************************)
(* The compiler qbc and the inspector qbi: Qbc with what its phases        *)
(* compute, and the files they leave read by the runtime and by qbi        *)
(* (lib/qbc.cpp, lib/qbi.cpp).  A configuration gives Qbc's constants the  *)
(* operators defined here and in Compiler and ObjectFile.                  *)
(***************************************************************************)
EXTENDS Qbc, Inspector, Module

VARIABLE listing   \* what qbi printed last
vars == <<qbc_vars, listing>>

Nothing == [module |-> <<>>, info |-> <<>>]

(* What compile_module() collects and indexes.                             *)
resources_of(m, stmts) == index_resources(collect_resources(set_module_version(ResourceSet(m)), stmts))

Functions(stmts) == FlattenSeq([i \in DOMAIN stmts |-> TopFunctions(stmts[i])])
Allocates(stmts) ==
    \A i \in DOMAIN Functions(stmts) : ~allocate_registers(Functions(stmts)[i]).died

Precedes(m, n) == ResourceLess(key_string(AsmString(m)), key_string(AsmString(n)))

-----------------------------------------------------------------------------
Init == QbcInit /\ listing = Nothing

qbi(m) ==
    /\ ~Running /\ file[m] # NoFile
    /\ listing' = [module |-> m, info |-> show_object_info(file[m])]
    /\ UNCHANGED qbc_vars

(* A listing is of files as the last run of qbc left them.                 *)
Next ==
    \/ (compile_module \/ overflow) /\ UNCHANGED listing
    \/ \E m \in Name : \/ qbc(m) /\ listing' = Nothing
                       \/ edit(m) /\ UNCHANGED listing
                       \/ qbi(m)

Spec == Init /\ [][Next]_vars

-----------------------------------------------------------------------------
(***************************************************************************)
(* Properties.                                                             *)
(***************************************************************************)
(* The files are looked at right after one of them has been written.       *)
JustWritten ==
    {m \in Name : /\ written # <<>> /\ m = Last(written)
                  /\ ~Running \/ Top.phase = "reload"}

(* What the reader finds at a resource, and what the source meant.         *)
Found(tbl, i) ==
    LET at == ptr(tbl, i)
        type_ == type(tbl, i)
    IN  CASE type_ \in {RESOURCE_STRING, RESOURCE_HASHTAG} -> fetch_string(tbl, i)
          [] type_ = RESOURCE_IMPORT -> Range(fetch_imports(tbl, i))
          [] type_ = RESOURCE_MODSYM -> fetch_modsym(tbl, i)
          [] type_ = RESOURCE_TYPESPEC -> fetch_typespec(tbl, i)
          [] type_ = RESOURCE_PROTOCOL -> <<ProtocolResource(tbl, at).name, ProtocolResource(tbl, at).typevars>>
          [] type_ = RESOURCE_POLYMORPH -> <<PolymorphResource(tbl, at).protocol, PolymorphResource(tbl, at).types>>
          [] type_ = RESOURCE_DATATYPE -> <<DataTypeResource(tbl, at).name, DataTypeResource(tbl, at).argc>>
          [] type_ = RESOURCE_CONSTRUCT ->
                LET c == ConstructResource(tbl, at) IN <<c.name, NameAt(tbl, c.datatype_idx), c.fields>>
          [] type_ = RESOURCE_FUNCTION ->
                LET f == FunctionHeader(tbl, at)
                IN  <<f.name, protocol_of(tbl, f), f.fcontext, f.params, f.param_types, f.result_type>>

Meant_params(ps) == [k \in DOMAIN ps |-> <<ps[k].name.value, serialize(ps[k].type)>>]
Meant_protocol(f) ==
    IF f.ctx = <<>> THEN <<>>
    ELSE IF f.ctx[1].type = RESOURCE_PROTOCOL THEN <<f.ctx[1].name.value>>
    ELSE <<f.ctx[1].protocol.module.value, f.ctx[1].protocol.symbol.value>>

Meant(r) ==
    CASE r.type \in {RESOURCE_STRING, RESOURCE_HASHTAG} -> r.value
      [] r.type = RESOURCE_IMPORT -> r.modules
      [] r.type = RESOURCE_MODSYM -> <<r.module.value, r.symbol.value>>
      [] r.type = RESOURCE_TYPESPEC -> serialize(r)
      [] r.type = RESOURCE_PROTOCOL -> <<r.name.value, [k \in DOMAIN r.typevar |-> r.typevar[k].value]>>
      [] r.type = RESOURCE_POLYMORPH ->
            <<<<r.protocol.module.value, r.protocol.symbol.value>>, [k \in DOMAIN r.types |-> serialize(r.types[k])]>>
      [] r.type = RESOURCE_DATATYPE -> <<r.name.value, r.argc>>
      [] r.type = RESOURCE_CONSTRUCT -> <<r.name.value, r.datatype.name.value, Meant_params(r.fields)>>
      [] r.type = RESOURCE_FUNCTION ->
            <<r.name.value, Meant_protocol(r), r.fcontext, Meant_params(r.params), r.param_types.value,
              serialize(r.result_type)>>

(* The runtime reads from an object file, through indices, offsets and     *)
(* sizes, exactly what write_object() was given: every resource, with the  *)
(* names and types it refers to, and the header.                           *)
ReadsBack ==
    \A m \in JustWritten :
        LET rs == built[m].rs
            tbl == read_resource_table(file[m])
            header == read_header(file[m])
        IN  /\ ~read_module(m, file[m]).died
            /\ header.magic = magic /\ header.qbrt_version = 13 /\ header.application
            /\ Range(fetch_imports(tbl, header.imports)) = rs.names
            /\ tbl.resource_count = Len(rs.order) + 1
            /\ \A i \in DOMAIN rs.order :
                  type(tbl, i) = Resource(rs, i).type /\ Found(tbl, i) = Meant(Resource(rs, i))

(* The instructions of a function in a file, each with its offset.         *)
Decoded(tbl, i) ==
    LET f == FunctionHeader(tbl, ptr(tbl, i))
        code == SubSeq(tbl.data, f.code + 1, ptr(tbl, i) + size(tbl, i))
        RECURSIVE from(_)
        from(pc) == IF pc >= Len(code) THEN <<[at |-> pc, i |-> <<>>]>>
                    ELSE LET it == InstructionAt(code, pc)
                         IN  <<[at |-> pc, i |-> it]>> \o from(pc + isize(it))
    IN  from(0)

(* How the runtime asks for a function of a source.                        *)
Lookup(mod, f) ==
    CASE f.fcontext = PFC_NONE -> fetch_function(mod, f.name.value)
      [] f.fcontext \in {PFC_ABSTRACT, PFC_DEFAULT} ->
            fetch_protocol_function(mod, f.ctx[1].name.value, f.name.value)
      [] f.fcontext = PFC_OVERRIDE ->
            fetch_override(mod, f.ctx[1].protocol.module.value, f.ctx[1].protocol.symbol.value,
                           f.name.value, f.param_types.value)

Instructions(f) == SelectSeq(Code(f.stmts).code, LAMBDA do: do.do # "label")

(* Every function of a source is found in its object file by the search    *)
(* the runtime uses for its kind, although functions, protocol functions   *)
(* and overrides share names: the file has one function for each, and the  *)
(* order of the resources lets the search meet the right one first.        *)
EveryFunctionFound ==
    \A m \in JustWritten :
        LET mod == read_module(m, file[m])
            functions == Functions(Source[m][built[m].source])
        IN  \A k \in DOMAIN functions :
                LET i == Lookup(mod, functions[k])
                IN  /\ i # 0
                    /\ Found(mod.resource, i) = Meant(functions[k])
                    /\ LET ops == Decoded(mod.resource, i)
                       IN  [n \in 1 .. Len(ops) - 1 |-> ops[n].i.op]
                             = [n \in DOMAIN Instructions(functions[k]) |-> Instructions(functions[k])[n].op]

(* The place of a label: how many instructions come before it.             *)
Place(f, name) ==
    LET dos == Code(f.stmts).code
    IN  Ahead(dos, CHOOSE k \in DOMAIN dos : dos[k].do = "label" /\ dos[k].label = name)

(* In the file every jump, forward or back, over instructions of any size, *)
(* ends at the first instruction behind its label.                         *)
JumpsLand ==
    \A m \in JustWritten :
        LET tbl == read_resource_table(file[m])
            rs == built[m].rs
        IN  \A i \in DOMAIN rs.order :
              Resource(rs, i).type = RESOURCE_FUNCTION =>
                LET f == Resource(rs, i)
                    dos == Instructions(f)
                    ops == Decoded(tbl, i)
                IN  /\ IsCode(Code(f.stmts).code)
                    /\ \A k \in DOMAIN dos :
                          dos[k].do = "jump" => ops[k].at + jump(ops[k].i) = ops[Place(f, dos[k].label) + 1].at

(* The registers of a function: the parameters come first, in order, every *)
(* other variable has a register of its own and is written before it is    *)
(* read, and the frame the runtime makes from the header of the function   *)
(* has room for all of them.                                               *)
RegistersApart ==
    \A m \in JustWritten :
        LET tbl == read_resource_table(file[m])
            rs == built[m].rs
        IN  \A i \in DOMAIN rs.order :
              Resource(rs, i).type = RESOURCE_FUNCTION /\ Resource(rs, i).stmts # <<>> =>
                LET f == Resource(rs, i)
                    header == FunctionHeader(tbl, ptr(tbl, i))
                    names == [k \in DOMAIN f.params |-> f.params[k].name.value[1]]
                    regs == Code(f.stmts).regs
                IN  /\ IsAsked(regs) /\ Apart(names, regs) /\ WrittenFirst(names, regs)
                    /\ header.argc = Len(names) /\ header.argc + header.regc = Room(names, regs)

(* qbi lists the instructions qbc generated, each at its offset and with   *)
(* its operands, and no other.                                             *)
ListsCode ==
    listing # Nothing =>
        LET rs == built[listing.module].rs
            functions == SelectSeq(rs.order, LAMBDA k: rs.index[k].type = RESOURCE_FUNCTION)
            offset_of(code, n) == FoldLeft(LAMBDA sum, i: sum + isize(i), 0, SubSeq(code, 1, n - 1))
        IN  /\ Len(listing.info.lines) = Len(rs.order)
            /\ Len(listing.info.code) = Len(functions)
            /\ \A k \in DOMAIN functions :
                 LET f == rs.index[functions[k]]
                     code == built[listing.module].code[functions[k]].code
                 IN  listing.info.code[k][3] =
                       IF f.fcontext = PFC_ABSTRACT THEN <<>>
                       ELSE Meant_params(f.params)
                            \o [n \in DOMAIN code |-> <<offset_of(code, n), print_instruction(code[n])>>]
=============================================================================
