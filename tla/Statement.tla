----------------------------- MODULE Statement -----------------------------
(***************************************************************************)
(* What the parser hands to the compiler: the statements of a module       *)
(* (lib/qbrt/stmt.h), the registers they name and the resources they refer *)
(* to (lib/qbc.h).                                                         *)
(*                                                                         *)
(* A string is a sequence of atoms.  A list pointer that may be NULL is a  *)
(* sequence: the grammar makes no empty list.  What a struct holds to      *)
(* remember a result of the compiler (an index, the AsmFunc of a           *)
(* dfunc_stmt) is computed in Compiler instead.                            *)
(***************************************************************************)
EXTENDS Integers, Sequences, SequencesExt, TLC, Instruction

RESOURCE_IMPORT    == 1
RESOURCE_STRING    == 2
RESOURCE_CONSTRUCT == 3
RESOURCE_FUNCTION  == 4
RESOURCE_MODSYM    == 5
RESOURCE_HASHTAG   == 6
RESOURCE_DATATYPE  == 7
RESOURCE_TYPESPEC  == 8
RESOURCE_PROTOCOL  == 9
RESOURCE_POLYMORPH == 10

FCT_TRADITIONAL == 0
FCT_PROTOCOL    == 2
FCT_POLYMORPH   == 6

PFC_NONE     == 1
PFC_ABSTRACT == 2
PFC_DEFAULT  == 3
PFC_OVERRIDE == 7
PFC_TYPE(pfc) == 2 * (pfc \div 2)

-----------------------------------------------------------------------------
(***************************************************************************)
(* AsmReg.  A variable gets its index when registers are allocated, an     *)
(* argument has it from the start: an int8_t, made from a uint16_t.        *)
(***************************************************************************)
AsmReg == [reg_type |-> "$", name |-> "", idx |-> -1, ext |-> -1, specialid |-> 0]
int8(i) == ((i + 128) % 256) - 128

var(name) == [AsmReg EXCEPT !.name = name]
arg(i) == [AsmReg EXCEPT !.reg_type = "%", !.name = "%" \o ToString(i), !.idx = int8(i)]
parse_subindex(r, i) == [r EXCEPT !.ext = int8(i)]
create_special(id) == [AsmReg EXCEPT !.reg_type = "s", !.specialid = SPECIAL_REG(id)]
create_const(id) == [AsmReg EXCEPT !.reg_type = "c", !.specialid = CONST_REG(id)]
create_void == create_const(REG_VOID)
create_result == create_special(REG_RESULT)

-----------------------------------------------------------------------------
(***************************************************************************)
(* Resources.                                                              *)
(***************************************************************************)
AsmString(value) == [type |-> RESOURCE_STRING, value |-> value]
AsmHashTag(value) == [type |-> RESOURCE_HASHTAG, value |-> value]
AsmModSym(module, symbol) ==
    [type |-> RESOURCE_MODSYM, module |-> AsmString(module), symbol |-> AsmString(symbol)]
AsmTypeSpec(name, args) == [type |-> RESOURCE_TYPESPEC, name |-> name, args |-> args]
AsmProtocol(name, typevar) == [type |-> RESOURCE_PROTOCOL, name |-> name, typevar |-> typevar]
AsmPolymorph(protocol, types) ==
    [type |-> RESOURCE_POLYMORPH, protocol |-> protocol, types |-> types]
AsmParam(name, type) == [name |-> name, type |-> type]
AsmConstruct(name, datatype, fields) ==
    [type |-> RESOURCE_CONSTRUCT, name |-> name, datatype |-> datatype, fields |-> fields]
AsmDataType(name, argc) == [type |-> RESOURCE_DATATYPE, name |-> name, argc |-> argc]
AsmImport(modules) == [type |-> RESOURCE_IMPORT, modules |-> modules]
(* ctx: the protocol or the polymorph of the function, in a sequence.      *)
AsmFunc(name, result, fcontext, ctx, params, param_types, stmts) ==
    [type |-> RESOURCE_FUNCTION, name |-> name, result_type |-> result,
     fcontext |-> fcontext, ctx |-> ctx, params |-> params,
     param_types |-> param_types, stmts |-> stmts]

-----------------------------------------------------------------------------
(***************************************************************************)
(* Statements of a function.                                               *)
(***************************************************************************)
binaryop_stmt(op, result, a, b) ==
    [class |-> "binaryop", op |-> op, result |-> result, a |-> a, b |-> b]
if_stmt(check, reg, label) == [class |-> "if", check |-> check, reg |-> reg, label |-> label]
iffail_stmt(check, reg, label) ==
    [class |-> "iffail", check |-> check, reg |-> reg, label |-> label]
(* args: no, one or two registers; only the first form has an executioner. *)
call_stmt(result, function, args) ==
    [class |-> "call", result |-> result, function |-> function, args |-> args]
cfailure_stmt(dst, type) == [class |-> "cfailure", dst |-> dst, tag |-> AsmHashTag(type)]
cmp_stmt(op, result, a, b) ==
    [class |-> "cmp", op |-> op, result |-> result, a |-> a, b |-> b]
consti_stmt(dst, value) == [class |-> "consti", dst |-> dst, int |-> value]
consts_stmt(dst, value) == [class |-> "consts", dst |-> dst, string |-> AsmString(value)]
consthash_stmt(dst, value) == [class |-> "consthash", dst |-> dst, tag |-> AsmHashTag(value)]
copy_stmt(dst, src) == [class |-> "copy", dst |-> dst, src |-> src]
ctuple_stmt(dst, size) == [class |-> "ctuple", dst |-> dst, size |-> size]
fieldget_stmt(dst, src, name) ==
    [class |-> "fieldget", dst |-> dst, src |-> src, string |-> AsmString(name)]
fieldset_stmt(dst, name, src) ==
    [class |-> "fieldset", dst |-> dst, src |-> src, string |-> AsmString(name)]
fork_stmt(dst, code) == [class |-> "fork", dst |-> dst, code |-> code]
goto_stmt(label) == [class |-> "goto", label |-> label]
label_stmt(label) == [class |-> "label", label |-> label]
lcontext_stmt(dst, name) == [class |-> "lcontext", dst |-> dst, tag |-> AsmHashTag(name)]
lconstruct_stmt(dst, modsym) == [class |-> "lconstruct", dst |-> dst, modsym |-> modsym]
lfunc_stmt(dst, modsym) == [class |-> "lfunc", dst |-> dst, modsym |-> modsym]
match_stmt(result, pattern, input, nonmatch) ==
    [class |-> "match", result |-> result, a |-> pattern, b |-> input, label |-> nonmatch]
matchargs_stmt(result, pattern, nonmatch) ==
    [class |-> "matchargs", result |-> result, a |-> pattern, label |-> nonmatch]
newproc_stmt(pid, func) == [class |-> "newproc", pid |-> pid, func |-> func]
patternvar_stmt(dst) == [class |-> "patternvar", dst |-> dst]
recv_stmt(dst) == [class |-> "recv", dst |-> dst]
stracc_stmt(dst, src) == [class |-> "stracc", dst |-> dst, src |-> src]
ref_stmt(dst, src) == [class |-> "ref", dst |-> dst, src |-> src]
return_stmt == [class |-> "return"]

-----------------------------------------------------------------------------
(***************************************************************************)
(* Statements of a module.  The grammar ends the code of a function and of *)
(* a fork with a return; an abstract function has no code.                 *)
(***************************************************************************)
dparam_stmt(name, type) == [class |-> "dparam", name |-> AsmString(name), type |-> type]
dfunc_stmt(name, result, abstract, params, code) ==
    [class |-> "dfunc", name |-> AsmString(name), result |-> result,
     abstract |-> abstract, params |-> params,
     code |-> IF abstract THEN <<>> ELSE Append(code, return_stmt)]
fork_block(dst, code) == fork_stmt(dst, Append(code, return_stmt))
protocol_stmt(name, typevar, functions) ==
    [class |-> "protocol", name |-> AsmString(name),
     typevar |-> [i \in DOMAIN typevar |-> AsmString(typevar[i])], functions |-> functions]
bind_stmt(protocol, types, functions) ==
    [class |-> "bind", protocol |-> protocol, types |-> types, functions |-> functions]
datatype_stmt(name, argc, constructs) ==
    [class |-> "datatype", name |-> AsmString(name), argc |-> argc, constructs |-> constructs]
construct_stmt(name, fields) ==
    [class |-> "construct", name |-> AsmString(name), fields |-> fields]
=============================================================================
