---------------------------- MODULE Instruction ----------------------------
(***************************************************************************)
(* Instructions: the packed structs of lib/instruction/, the two tables    *)
(* indexed by opcode in lib/instruction.cpp, and the 16-bit encoding of    *)
(* registers (lib/qbrt/core.h).                                            *)
(*                                                                         *)
(* An instruction is a record [op, args]: op is the name of its opcode and *)
(* args the values of the fields of its struct, in the order of the        *)
(* struct.  A jump_instruction has its jump first.  In memory and in an    *)
(* object file an instruction is the bytes of the struct, as the host      *)
(* stores them.                                                            *)
(***************************************************************************)
EXTENDS Integers, Sequences, SequencesExt

(***************************************************************************)
(* Registers.                                                              *)
(***************************************************************************)
PRIMARY_REG(r)      == 128 + (r % 128)
SECONDARY_REG(p, s) == (p % 128) * 256 + (s % 128)
CONST_REG(id)       == 32768 + (id % 16384)
SPECIAL_REG(id)     == 49152 + (id % 16384)

REG_IS_CONST(r)     == r \div 16384 = 2
REG_IS_SPECIAL(r)   == r \div 16384 = 3
REG_IS_PRIMARY(r)   == r \div 32768 = 0 /\ (r \div 128) % 2 = 1
REG_IS_SECONDARY(r) == r \div 32768 = 0 /\ (r \div 128) % 2 = 0

REG_EXTRACT_PRIMARY(r)    == r % 128
REG_EXTRACT_SECONDARY1(r) == (r \div 256) % 128
REG_EXTRACT_SECONDARY2(r) == r % 128
REG_EXTRACT_CONST(r)      == r % 16384
REG_EXTRACT_SPECIAL(r)    == r % 16384

REG_RESULT == 0
REG_PID    == 1

REG_VOID     == 0
REG_FALSE    == 16
REG_TRUE     == 17
REG_FZERO    == 18
REG_EMPTYSTR == 19
REG_NEWLINE  == 20
CONST_REG_COUNT == 64

-----------------------------------------------------------------------------
(***************************************************************************)
(* The structs: the kind of every field behind the opcode, and SIZE, which *)
(* the source states as a number beside the fields.                        *)
(***************************************************************************)
Width == [reg |-> 2, id |-> 2, jump |-> 2, int32 |-> 4, uint8 |-> 1]

binaryop_instruction   == [fields |-> <<"reg", "reg", "reg">>, SIZE |-> 7]
consti_instruction     == [fields |-> <<"reg", "int32">>, SIZE |-> 7]
call_instruction       == [fields |-> <<"reg", "reg">>, SIZE |-> 5]
call1_instruction      == [fields |-> <<"reg", "reg", "reg">>, SIZE |-> 7]
call2_instruction      == [fields |-> <<"reg", "reg", "reg", "reg">>, SIZE |-> 9]
return_instruction     == [fields |-> <<>>, SIZE |-> 1]
cfailure_instruction   == [fields |-> <<"reg", "id">>, SIZE |-> 5]
lcontext_instruction   == [fields |-> <<"reg", "id">>, SIZE |-> 5]
lfunc_instruction      == [fields |-> <<"reg", "id">>, SIZE |-> 5]
loadtype_instruction   == [fields |-> <<"reg", "id", "id">>, SIZE |-> 7]
loadobj_instruction    == [fields |-> <<"id">>, SIZE |-> 3]
move_instruction       == [fields |-> <<"reg", "reg">>, SIZE |-> 5]
ref_instruction        == [fields |-> <<"reg", "reg">>, SIZE |-> 5]
copy_instruction       == [fields |-> <<"reg", "reg">>, SIZE |-> 5]
goto_instruction       == [fields |-> <<"jump">>, SIZE |-> 3]
if_instruction         == [fields |-> <<"jump", "reg">>, SIZE |-> 5]
iffail_instruction     == [fields |-> <<"jump", "reg">>, SIZE |-> 5]
match_instruction      == [fields |-> <<"jump", "reg", "reg", "reg">>, SIZE |-> 9]
matchargs_instruction  == [fields |-> <<"jump", "reg", "reg">>, SIZE |-> 7]
cmp_instruction        == [fields |-> <<"reg", "reg", "reg">>, SIZE |-> 7]
fork_instruction       == [fields |-> <<"jump", "reg">>, SIZE |-> 5]
newproc_instruction    == [fields |-> <<"reg", "reg">>, SIZE |-> 5]
recv_instruction       == [fields |-> <<"reg">>, SIZE |-> 3]
consts_instruction     == [fields |-> <<"reg", "id">>, SIZE |-> 5]
consthash_instruction  == [fields |-> <<"reg", "id">>, SIZE |-> 5]
stracc_instruction     == [fields |-> <<"reg", "reg">>, SIZE |-> 5]
ctuple_instruction     == [fields |-> <<"reg", "uint8">>, SIZE |-> 4]
fieldget_instruction   == [fields |-> <<"reg", "reg", "id">>, SIZE |-> 7]
fieldset_instruction   == [fields |-> <<"reg", "id", "reg">>, SIZE |-> 7]
lconstruct_instruction == [fields |-> <<"reg", "id">>, SIZE |-> 5]
patternvar_instruction == [fields |-> <<"reg">>, SIZE |-> 3]
stuple_instruction     == [fields |-> <<"id", "id", "id">>, SIZE |-> 7]
clist_instruction      == [fields |-> <<"reg">>, SIZE |-> 3]
cons_instruction       == [fields |-> <<"reg", "reg">>, SIZE |-> 5]

-----------------------------------------------------------------------------
(***************************************************************************)
(* The opcodes.  A struct may share its opcode with others (binaryop, cmp, *)
(* if, iffail); the constructors of loadtype and cons name the opcode of   *)
(* another struct, and no statement makes either.                          *)
(***************************************************************************)
OP == [
    call |-> 1, return |-> 3, ref |-> 4, copy |-> 5, move |-> 6, consti |-> 8,
    consts |-> 9, lfunc |-> 10, loadobj |-> 11, loadtype |-> 12, lcontext |-> 15,
    goto |-> 17, if |-> 18, ifnot |-> 19, iffail |-> 26, ifnotfail |-> 27,
    cmp_eq |-> 28, cmp_noteq |-> 29, cmp_gt |-> 30, cmp_gteq |-> 31,
    cmp_lt |-> 32, cmp_lteq |-> 33, iadd |-> 48, isub |-> 49, imult |-> 50,
    idiv |-> 51, ctuple |-> 64, stuple |-> 65, clist |-> 66, cons |-> 67, consthash |-> 68,
    stracc |-> 70, cfailure |-> 71, fork |-> 74, newproc |-> 76, recv |-> 77,
    match |-> 78, lconstruct |-> 79, patternvar |-> 80, matchargs |-> 81,
    fieldget |-> 82, fieldset |-> 83, call1 |-> 84, call2 |-> 85]

(* WRITER: the struct whose bytes are written for an opcode.               *)
WRITER == [
    call |-> call_instruction, return |-> return_instruction,
    ref |-> ref_instruction, copy |-> copy_instruction, move |-> move_instruction,
    consti |-> consti_instruction, consts |-> consts_instruction,
    lfunc |-> lfunc_instruction, loadobj |-> loadobj_instruction,
    loadtype |-> loadtype_instruction, lcontext |-> lcontext_instruction,
    goto |-> goto_instruction, if |-> if_instruction, ifnot |-> if_instruction,
    iffail |-> iffail_instruction, ifnotfail |-> iffail_instruction,
    cmp_eq |-> cmp_instruction, cmp_noteq |-> cmp_instruction,
    cmp_gt |-> cmp_instruction, cmp_gteq |-> cmp_instruction,
    cmp_lt |-> cmp_instruction, cmp_lteq |-> cmp_instruction,
    iadd |-> binaryop_instruction, isub |-> binaryop_instruction,
    imult |-> binaryop_instruction, idiv |-> binaryop_instruction,
    ctuple |-> ctuple_instruction, stuple |-> stuple_instruction,
    clist |-> clist_instruction,
    cons |-> cons_instruction, consthash |-> consthash_instruction,
    stracc |-> stracc_instruction, cfailure |-> cfailure_instruction,
    fork |-> fork_instruction, newproc |-> newproc_instruction,
    recv |-> recv_instruction, match |-> match_instruction,
    lconstruct |-> lconstruct_instruction, patternvar |-> patternvar_instruction,
    matchargs |-> matchargs_instruction, fieldget |-> fieldget_instruction,
    fieldset |-> fieldset_instruction, call1 |-> call1_instruction,
    call2 |-> call2_instruction]

(* INSTRUCTION_SIZE lists the same struct for every opcode.                *)
INSTRUCTION_SIZE == [op \in DOMAIN WRITER |-> WRITER[op].SIZE]
isize(i) == INSTRUCTION_SIZE[i.op]

IsJump(i) == WRITER[i.op].fields # <<>> /\ WRITER[i.op].fields[1] = "jump"
jump(i) == i.args[1]
setjump(i, jmp) == [i EXCEPT !.args[1] = jmp]

-----------------------------------------------------------------------------
(* The bytes of a value in w bytes, lowest first, in two's complement.     *)
HostBytes(v, w) == [k \in 1 .. w |-> (v \div 256 ^ (k - 1)) % 256]
(* htobe16() and htobe32() before a write.                                 *)
BigBytes(v, w) == Reverse(HostBytes(v, w))

FromHost(bytes) ==
    FoldLeft(LAMBDA sum, k: sum + bytes[k] * 256 ^ (k - 1), 0, [k \in 1 .. Len(bytes) |-> k])
FromHostSigned(bytes) ==
    LET top == IF Last(bytes) >= 128 THEN Last(bytes) - 256 ELSE Last(bytes)
    IN  FromHost(Front(bytes)) + top * 256 ^ (Len(bytes) - 1)
FromBig(bytes) == FromHost(Reverse(bytes))

(* The opcode, then SIZE - 1 bytes of fields: iwriter() writes SIZE bytes  *)
(* of the struct, whatever its fields need.                                *)
write_instruction(i) ==
    LET fields == WRITER[i.op].fields
        bytes == [k \in 1 .. Len(fields) |-> HostBytes(i.args[k], Width[fields[k]])]
    IN  SubSeq(<<OP[i.op]>> \o FlattenSeq(bytes), 1, isize(i))

(* The instruction whose struct lies at an offset of some bytes.           *)
InstructionAt(bytes, at) ==
    LET op == CHOOSE o \in DOMAIN OP : OP[o] = bytes[at + 1]
        fields == WRITER[op].fields
        offset(k) == FoldLeft(LAMBDA sum, f: sum + Width[f], at + 1, SubSeq(fields, 1, k - 1))
        field(k) == SubSeq(bytes, offset(k) + 1, offset(k) + Width[fields[k]])
    IN  [op   |-> op,
         args |-> [k \in 1 .. Len(fields) |->
                      IF fields[k] \in {"jump", "int32"}
                      THEN FromHostSigned(field(k)) ELSE FromHost(field(k))]]
=============================================================================
