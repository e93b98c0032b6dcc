------------------------------- MODULE Module -------------------------------
(***************************************************************************)
(* A loaded module and what the runtime finds in it (lib/module.cpp,       *)
(* lib/qbrt/module.h, lib/function.cpp).                                   *)
(*                                                                         *)
(* A module is its name, its header, the table of its resources and the C  *)
(* functions the runtime added to it, in the order they were added.  A     *)
(* function is the module's name with the index of its header, or with     *)
(* the place of the C function, counted from -1 down.                      *)
(***************************************************************************)
EXTENDS Integers, Sequences, FiniteSets, ObjectFile

NoTable == [data_size |-> 0, resource_count |-> 0, data |-> <<>>, info |-> <<>>]
NewModule(name) == [name |-> name, resource |-> NoTable, cfunction |-> <<>>, died |-> FALSE]

(* A file that has no name, or another name, ends the program.             *)
read_module(objname, bytes) ==
    LET header == read_header(bytes)
        tbl == read_resource_table(bytes)
    IN  [NewModule(objname) EXCEPT
            !.resource = tbl,
            !.died = header.name = 0 \/ fetch_string(tbl, header.name) # objname]

(* proto: the module and the name of a protocol, for an override.          *)
CFunction(name, arity, param_types, proto) ==
    [name |-> name, argc |-> arity, param_types |-> param_types, proto |-> proto]
add_c_function(m, name, arity, param_types) ==
    [m EXCEPT !.cfunction = Append(@, CFunction(name, arity, param_types, <<>>))]
add_c_override(m, protomod, protoname, name, arity, param_types) ==
    [m EXCEPT !.cfunction = Append(@, CFunction(name, arity, param_types, <<protomod, protoname>>))]

-----------------------------------------------------------------------------
(***************************************************************************)
(* Searches go through the table from the first resource; the first match  *)
(* is taken.  0 is NULL.                                                   *)
(***************************************************************************)
First(indices) == IF indices = {} THEN 0 ELSE Min(indices)

find(tbl, type_id, Matches(_)) == First({i \in Indices(tbl) : type(tbl, i) = type_id /\ Matches(i)})

Header(tbl, i) == FunctionHeader(tbl, ptr(tbl, i))
protocol_at(tbl, i) == ProtocolResource(tbl, ptr(tbl, i))
polymorph_at(tbl, i) == PolymorphResource(tbl, ptr(tbl, i))
NameAt(tbl, i) == fetch_string(tbl, field(tbl, ptr(tbl, i), 0))

(* By name alone: a function, an abstract or default function of a         *)
(* protocol, an override, whichever comes first.                           *)
fetch_function(m, name) ==
    First({i \in Indices(m.resource) : /\ type(m.resource, i) = RESOURCE_FUNCTION
                                       /\ NameAt(m.resource, i) = name})

fetch_protocol(m, name) ==
    find(m.resource, RESOURCE_PROTOCOL, LAMBDA i: NameAt(m.resource, i) = name)

fetch_protocol_function(m, protoname, fname) ==
    find(m.resource, RESOURCE_FUNCTION,
         LAMBDA i: LET f == Header(m.resource, i)
                   IN  /\ PFC_TYPE(f.fcontext) = FCT_PROTOCOL
                       /\ protocol_at(m.resource, f.context_idx).name = protoname
                       /\ f.name = fname)

(* The types of some values against the types of parameters, character by  *)
(* character.  A type variable with arguments stands for any type with     *)
(* arguments: both sides go on from the next ")".  Without one the search  *)
(* runs past the string (Overruns).                                        *)
Closing(s) == {k \in 2 .. Len(s) : s[k] = ")"}
IsVariable(types) == Len(types) >= 2 /\ types[1] = "*" /\ types[2] = "/"

RECURSIVE compare_types(_, _)
compare_types(values, types) ==
    IF values = <<>> \/ types = <<>> THEN values = types
    ELSE IF Head(values) = Head(types) THEN compare_types(Tail(values), Tail(types))
    ELSE /\ IsVariable(types)
         /\ Closing(values) # {} /\ Closing(types) # {}
         /\ compare_types(SubSeq(values, Min(Closing(values)), Len(values)),
                          SubSeq(types, Min(Closing(types)), Len(types)))

RECURSIVE Overruns(_, _)
Overruns(values, types) ==
    IF values = <<>> \/ types = <<>> THEN FALSE
    ELSE IF Head(values) = Head(types) THEN Overruns(Tail(values), Tail(types))
    ELSE /\ IsVariable(types)
         /\ \/ Closing(values) = {} \/ Closing(types) = {}
            \/ Overruns(SubSeq(values, Min(Closing(values)), Len(values)),
                        SubSeq(types, Min(Closing(types)), Len(types)))

fetch_override(m, protomod, protoname, fname, value_types) ==
    find(m.resource, RESOURCE_FUNCTION,
         LAMBDA i: LET f == Header(m.resource, i)
                   IN  /\ f.fcontext = PFC_OVERRIDE
                       /\ polymorph_at(m.resource, f.context_idx).protocol = <<protomod, protoname>>
                       /\ f.name = fname
                       /\ compare_types(value_types, f.param_types))

find_construct(m, name) ==
    find(m.resource, RESOURCE_CONSTRUCT, LAMBDA i: NameAt(m.resource, i) = name)

(* C functions: the plain one of a name, the override for some types.      *)
fetch_c_function(m, name) ==
    LET found == {k \in DOMAIN m.cfunction : m.cfunction[k].name = name /\ m.cfunction[k].proto = <<>>}
    IN  0 - First(found)
fetch_c_override(m, protomod, protoname, name, value_types) ==
    LET found == {k \in DOMAIN m.cfunction :
                     /\ m.cfunction[k].name = name
                     /\ m.cfunction[k].proto = <<protomod, protoname>>
                     /\ m.cfunction[k].param_types = value_types}
    IN  0 - First(found)

-----------------------------------------------------------------------------
(***************************************************************************)
(* What is asked of a function of module m, by its number.                 *)
(***************************************************************************)
fcontext(m, f) ==
    IF f < 0 THEN IF m.cfunction[0 - f].proto = <<>> THEN PFC_NONE ELSE PFC_OVERRIDE
    ELSE Header(m.resource, f).fcontext

protocol_name(m, f) ==
    IF f < 0 THEN m.cfunction[0 - f].proto[2]
    ELSE LET h == Header(m.resource, f)
         IN  CASE PFC_TYPE(h.fcontext) = FCT_PROTOCOL -> protocol_at(m.resource, h.context_idx).name
               [] PFC_TYPE(h.fcontext) = FCT_POLYMORPH -> polymorph_at(m.resource, h.context_idx).protocol[2]

protocol_module(m, f) ==
    IF f < 0 THEN m.cfunction[0 - f].proto[1]
    ELSE LET h == Header(m.resource, f)
         IN  CASE PFC_TYPE(h.fcontext) = FCT_PROTOCOL -> m.name
               [] PFC_TYPE(h.fcontext) = FCT_POLYMORPH -> polymorph_at(m.resource, h.context_idx).protocol[1]
=============================================================================
