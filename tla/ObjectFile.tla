----------------------------- MODULE ObjectFile -----------------------------
(***************************************************************************)
(* The object file: how qbc writes it (lib/qbc.cpp, lib/stmt.cpp) and how  *)
(* the runtime reads it and finds things in it (lib/module.cpp,            *)
(* lib/qbrt/module.h).                                                     *)
(*                                                                         *)
(* A file is a sequence of bytes; an atom of a string is one byte.         *)
(* Resources are written in the order of their indices; numbers are big    *)
(* endian, but the length of a string and the code are as on the host.     *)
(***************************************************************************)
EXTENDS Integers, Sequences, FiniteSets, Compiler

write16(v) == BigBytes(v, 2)
write32(v) == BigBytes(v, 4)
Bytes(s) == [i \in DOMAIN s.value |-> Byte(s.value[i])]

line_no == 0
doc == write16(NULL_INDEX)
filename == write16(NULL_INDEX)

AsmString_write(s) == HostBytes(Len(s.value) + 1, 2) \o Bytes(s) \o <<0>>
AsmHashTag_write(h) == HostBytes(Len(h.value), 2) \o Bytes(h) \o <<0>>
AsmImport_write(rs, m) ==
    LET named == SelectSeq(rs.order, LAMBDA k: rs.index[k].type = RESOURCE_STRING
                                               /\ rs.index[k].value \in m.modules)
    IN  write16(Len(named)) \o FlattenSeq([i \in DOMAIN named |-> write16(index(rs, rs.index[named[i]]))])
AsmModSym_write(rs, ms) == write16(index(rs, ms.module)) \o write16(index(rs, ms.symbol))
AsmTypeSpec_write(rs, t) ==
    write16(index(rs, t.name)) \o write16(index(rs, fullname(t)))
    \o FlattenSeq([i \in DOMAIN t.args |-> write16(index(rs, t.args[i]))])

write_params(rs, params) ==
    FlattenSeq([i \in DOMAIN params |->
        write16(index(rs, params[i].name)) \o write16(index(rs, params[i].type))])

AsmFunc_write(rs, code, f) ==
    write16(index(rs, f.name)) \o doc \o write16(line_no)
    \o write16(IF f.ctx = <<>> THEN 0 ELSE index(rs, f.ctx[1]))
    \o write16(index(rs, f.param_types)) \o write16(index(rs, f.result_type))
    \o <<f.fcontext, argc(f), regc(f), 0>>
    \o write_params(rs, f.params)
    \o FlattenSeq([i \in DOMAIN code |-> write_instruction(code[i])])

AsmProtocol_write(rs, p) ==
    write16(index(rs, p.name)) \o doc \o write16(line_no) \o write16(Len(p.typevar) * 1024)
    \o FlattenSeq([i \in DOMAIN p.typevar |-> write16(index(rs, p.typevar[i]))])
AsmPolymorph_write(rs, p) ==
    write16(index(rs, p.protocol)) \o doc \o write16(line_no) \o write16(Len(p.types)) \o write16(0)
    \o FlattenSeq([i \in DOMAIN p.types |-> write16(index(rs, p.types[i]))])
AsmConstruct_write(rs, c) ==
    write16(index(rs, c.name)) \o doc \o filename \o write16(line_no)
    \o write16(index(rs, c.datatype)) \o <<Len(c.fields) % 256, 0>> \o write_params(rs, c.fields)
AsmDataType_write(rs, d) ==
    write16(index(rs, d.name)) \o doc \o filename \o write16(line_no) \o <<d.argc % 256>>

write(rs, code, r) ==
    CASE r.type = RESOURCE_STRING -> AsmString_write(r)
      [] r.type = RESOURCE_HASHTAG -> AsmHashTag_write(r)
      [] r.type = RESOURCE_IMPORT -> AsmImport_write(rs, r)
      [] r.type = RESOURCE_MODSYM -> AsmModSym_write(rs, r)
      [] r.type = RESOURCE_TYPESPEC -> AsmTypeSpec_write(rs, r)
      [] r.type = RESOURCE_FUNCTION -> AsmFunc_write(rs, code[key(r)].code, r)
      [] r.type = RESOURCE_PROTOCOL -> AsmProtocol_write(rs, r)
      [] r.type = RESOURCE_POLYMORPH -> AsmPolymorph_write(rs, r)
      [] r.type = RESOURCE_CONSTRUCT -> AsmConstruct_write(rs, r)
      [] r.type = RESOURCE_DATATYPE -> AsmDataType_write(rs, r)

-----------------------------------------------------------------------------
(***************************************************************************)
(* The file: header, table header, data of the resources, their index.    *)
(***************************************************************************)
HEADER_SIZE == 26
INFO_SIZE == 6
DATA_OFFSET == HEADER_SIZE + 6

magic == <<113, 98, 114, 116>>
OFLAG_APP == <<128, 0, 0, 0, 0, 0, 0, 0>>

write_header(rs) ==
    magic \o write32(13) \o OFLAG_APP
    \o write16(index(rs, AsmString(rs.module_name))) \o write16(22)
    \o write16(index(rs, AsmString(<<"bbd">>)))
    \o write16(index(rs, AsmImport({}))) \o write16(0)

(* Defect: every entry holds the end of its resource.                      *)
write_resource_index_ends(rs, data) ==
    [i \in 1 .. INFO_SIZE |-> 0]
    \o FlattenSeq([i \in DOMAIN data |->
          write32(Len(FlattenSeq(SubSeq(data, 1, i)))) \o write16(Resource(rs, i).type)])

(* Entry 0 is null; the entry of a resource is its offset and its type.    *)
write_resource_index(rs, data) ==
    [i \in 1 .. INFO_SIZE |-> 0]
    \o FlattenSeq([i \in DOMAIN data |->
          write32(Len(FlattenSeq(SubSeq(data, 1, i - 1)))) \o write16(Resource(rs, i).type)])

(* The count in the table header includes the null entry.                  *)
write_object(rs, code) ==
    LET data == [i \in DOMAIN rs.order |-> write(rs, code, Resource(rs, i))]
    IN  write_header(rs)
        \o write32(Len(FlattenSeq(data))) \o write16(Len(rs.order) + 1)
        \o FlattenSeq(data) \o write_resource_index(rs, data)

-----------------------------------------------------------------------------
(***************************************************************************)
(* Reading.                                                                *)
(***************************************************************************)
read(bytes, at, w) == FromBig(SubSeq(bytes, at + 1, at + w))

read_header(bytes) ==
    [magic |-> SubSeq(bytes, 1, 4), qbrt_version |-> read(bytes, 4, 4),
     application |-> bytes[9] >= 128, name |-> read(bytes, 16, 2), version |-> read(bytes, 18, 2),
     iteration |-> read(bytes, 20, 2), imports |-> read(bytes, 22, 2)]

read_resource_table(bytes) ==
    LET data_size == read(bytes, HEADER_SIZE, 4)
        resource_count == read(bytes, HEADER_SIZE + 4, 2)
        index_at == DATA_OFFSET + data_size
    IN  [data_size |-> data_size, resource_count |-> resource_count,
         data  |-> SubSeq(bytes, DATA_OFFSET + 1, index_at),
         info  |-> SubSeq(bytes, index_at + 1, index_at + resource_count * INFO_SIZE)]

(* ResourceTable: the type and the place of a resource; NULL is no place.  *)
info_offset(tbl, i) == read(tbl.info, i * INFO_SIZE, 4)
type(tbl, i) == read(tbl.info, i * INFO_SIZE + 4, 2)
ptr(tbl, i) == info_offset(tbl, i)
field(tbl, p, at) == read(tbl.data, p + at, 2)
Indices(tbl) == 1 .. tbl.resource_count - 1

offset(tbl, i) == info_offset(tbl, i) + DATA_OFFSET
size(tbl, i) ==
    IF i + 1 >= tbl.resource_count THEN tbl.data_size - info_offset(tbl, i)
    ELSE info_offset(tbl, i + 1) - info_offset(tbl, i)
index_offset(tbl) == DATA_OFFSET + tbl.data_size

(* The characters up to the next NUL, behind the length.                   *)
fetch_string(tbl, i) ==
    LET first == ptr(tbl, i) + 3
        end == CHOOSE e \in first .. tbl.data_size :
                   tbl.data[e] = 0 /\ \A b \in first .. e - 1 : tbl.data[b] # 0
    IN  [b \in 1 .. end - first |-> AtomOrder[tbl.data[first + b - 1]]]

fetch_modsym(tbl, i) ==
    <<fetch_string(tbl, field(tbl, ptr(tbl, i), 0)), fetch_string(tbl, field(tbl, ptr(tbl, i), 2))>>
fetch_typespec(tbl, i) == fetch_string(tbl, field(tbl, ptr(tbl, i), 2))

(* ImportResource *)
fetch_imports(tbl, i) ==
    LET p == ptr(tbl, i)
    IN  [k \in 1 .. field(tbl, p, 0) |-> fetch_string(tbl, field(tbl, p, 2 * k))]

param(tbl, at) == <<fetch_string(tbl, field(tbl, at, 0)), fetch_typespec(tbl, field(tbl, at, 2))>>
params(tbl, at, n) == [k \in 1 .. n |-> param(tbl, at + 4 * (k - 1))]

(* FunctionHeader; p is where it lies in the data.                         *)
FUNCTION_SIZE == 16
FunctionHeader(tbl, p) ==
    [name |-> fetch_string(tbl, field(tbl, p, 0)), context_idx |-> field(tbl, p, 6),
     param_types |-> fetch_string(tbl, field(tbl, p, 8)),
     result_type |-> fetch_typespec(tbl, field(tbl, p, 10)),
     fcontext |-> tbl.data[p + 13], argc |-> tbl.data[p + 14], regc |-> tbl.data[p + 15],
     params |-> params(tbl, p + FUNCTION_SIZE, tbl.data[p + 14]),
     code |-> p + FUNCTION_SIZE + 4 * tbl.data[p + 14]]

(* ProtocolResource *)
ProtocolResource(tbl, p) ==
    [name |-> fetch_string(tbl, field(tbl, p, 0)), argc |-> field(tbl, p, 6) \div 1024,
     typevars |-> [k \in 1 .. field(tbl, p, 6) \div 1024 |-> fetch_string(tbl, field(tbl, p, 6 + 2 * k))]]

(* PolymorphResource *)
PolymorphResource(tbl, p) ==
    [protocol |-> fetch_modsym(tbl, field(tbl, p, 0)),
     types |-> [k \in 1 .. field(tbl, p, 6) |-> fetch_typespec(tbl, field(tbl, p, 8 + 2 * k))]]

(* ConstructResource and DataTypeResource *)
ConstructResource(tbl, p) ==
    [name |-> fetch_string(tbl, field(tbl, p, 0)), datatype_idx |-> field(tbl, p, 8),
     fields |-> params(tbl, p + 12, tbl.data[p + 11])]
DataTypeResource(tbl, p) ==
    [name |-> fetch_string(tbl, field(tbl, p, 0)), argc |-> tbl.data[p + 9]]
=============================================================================
