----------------------------- MODULE Assembler -----------------------------
(***************************************************************************)
(* What every class of statement asks of the compiler (lib/stmt.cpp).  A   *)
(* statement of a function is described by                                 *)
(*   regs   the registers allocate_registers() passes to RegAlloc, in      *)
(*          order, each as a source or a destination;                      *)
(*   res    the resources collect_resources() collects, in order;          *)
(*   code   what generate_code() does to the AsmFunc: instructions, jumps  *)
(*          to labels, labels.                                             *)
(* An argument of an instruction is a register, a resource (it stands for  *)
(* its index) or a number.                                                 *)
(***************************************************************************)
EXTENDS Integers, Sequences, FiniteSets, SequencesExt, Statement

src(r) == [use |-> "src", reg |-> r]
dst(r) == [use |-> "dst", reg |-> r]

asm_instruction(op, args) == [do |-> "instruction", op |-> op, args |-> args, label |-> ""]
asm_jump(label, op, args) == [do |-> "jump", op |-> op, args |-> <<0>> \o args, label |-> label]
label_next(label) == [do |-> "label", op |-> "", args |-> <<>>, label |-> label]

Stmt(regs, res, code) == [regs |-> regs, res |-> res, code |-> code]

-----------------------------------------------------------------------------
binaryop(s) == Stmt(<<src(s.a), src(s.b), dst(s.result)>>, <<>>,
                    <<asm_instruction(s.op, <<s.result, s.a, s.b>>)>>)
(* The grammar takes up to two arguments; b is there only with a.          *)
call(s) == Stmt(<<src(s.function), dst(s.result)>> \o [i \in DOMAIN s.args |-> src(s.args[i])], <<>>,
                <<asm_instruction(CASE Len(s.args) = 0 -> "call"
                                    [] Len(s.args) = 1 -> "call1"
                                    [] Len(s.args) = 2 -> "call2",
                                  <<s.result, s.function>> \o s.args)>>)
cfailure(s) == Stmt(<<dst(s.dst)>>, <<s.tag>>, <<asm_instruction("cfailure", <<s.dst, s.tag>>)>>)
consti(s) == Stmt(<<dst(s.dst)>>, <<>>, <<asm_instruction("consti", <<s.dst, s.int>>)>>)
consts(s) == Stmt(<<dst(s.dst)>>, <<s.string>>, <<asm_instruction("consts", <<s.dst, s.string>>)>>)
consthash(s) == Stmt(<<dst(s.dst)>>, <<s.tag>>, <<asm_instruction("consthash", <<s.dst, s.tag>>)>>)
copy(s) == Stmt(<<src(s.src), dst(s.dst)>>, <<>>, <<asm_instruction("copy", <<s.dst, s.src>>)>>)
cmp(s) == Stmt(<<dst(s.result), src(s.a), src(s.b)>>, <<>>,
               <<asm_instruction(s.op, <<s.result, s.a, s.b>>)>>)
ctuple(s) == Stmt(<<dst(s.dst)>>, <<>>, <<asm_instruction("ctuple", <<s.dst, s.size>>)>>)
fieldget(s) == Stmt(<<src(s.src), dst(s.dst)>>, <<s.string>>,
                    <<asm_instruction("fieldget", <<s.dst, s.src, s.string>>)>>)
fieldset(s) == Stmt(<<src(s.src), dst(s.dst)>>, <<s.string>>,
                    <<asm_instruction("fieldset", <<s.dst, s.string, s.src>>)>>)
goto(s) == Stmt(<<>>, <<>>, <<asm_jump(s.label, "goto", <<>>)>>)
if(s) == Stmt(<<src(s.reg)>>, <<>>,
              <<asm_jump(s.label, IF s.check THEN "if" ELSE "ifnot", <<s.reg>>)>>)
iffail(s) == Stmt(<<src(s.reg)>>, <<>>,
                  <<asm_jump(s.label, IF s.check THEN "iffail" ELSE "ifnotfail", <<s.reg>>)>>)
label(s) == Stmt(<<>>, <<>>, <<label_next(s.label)>>)
lcontext(s) == Stmt(<<dst(s.dst)>>, <<s.tag>>, <<asm_instruction("lcontext", <<s.dst, s.tag>>)>>)
(* core/True and core/False are copies of constant registers.              *)
lconstruct(s) ==
    Stmt(<<dst(s.dst)>>, <<s.modsym>>,
         <<CASE s.modsym = AsmModSym(<<"core">>, <<"True">>) ->
                  asm_instruction("copy", <<s.dst, create_const(REG_TRUE)>>)
             [] s.modsym = AsmModSym(<<"core">>, <<"False">>) ->
                  asm_instruction("copy", <<s.dst, create_const(REG_FALSE)>>)
             [] OTHER -> asm_instruction("lconstruct", <<s.dst, s.modsym>>)>>)
lfunc(s) == Stmt(<<dst(s.dst)>>, <<s.modsym>>, <<asm_instruction("lfunc", <<s.dst, s.modsym>>)>>)
match(s) == Stmt(<<dst(s.result), src(s.a), src(s.b)>>, <<>>,
                 <<asm_jump(s.label, "match", <<s.result, s.a, s.b>>)>>)
matchargs(s) == Stmt(<<dst(s.result), src(s.a)>>, <<>>,
                     <<asm_jump(s.label, "matchargs", <<s.result, s.a>>)>>)
newproc(s) == Stmt(<<src(s.func), dst(s.pid)>>, <<>>, <<asm_instruction("newproc", <<s.pid, s.func>>)>>)
patternvar(s) == Stmt(<<dst(s.dst)>>, <<>>, <<asm_instruction("patternvar", <<s.dst>>)>>)
recv(s) == Stmt(<<dst(s.dst)>>, <<>>, <<asm_instruction("recv", <<s.dst>>)>>)
ref(s) == Stmt(<<src(s.src), dst(s.dst)>>, <<>>, <<asm_instruction("ref", <<s.dst, s.src>>)>>)
return(s) == Stmt(<<>>, <<>>, <<asm_instruction("return", <<>>)>>)
stracc(s) == Stmt(<<dst(s.dst), src(s.src)>>, <<>>, <<asm_instruction("stracc", <<s.dst, s.src>>)>>)

(* The code of a fork lies between the fork and the label "postfork".      *)
fork(s, block) == Stmt(<<dst(s.dst)>> \o block.regs, block.res,
                       <<asm_jump("postfork", "fork", <<s.dst>>)>> \o block.code \o <<label_next("postfork")>>)

-----------------------------------------------------------------------------
(* The virtual call of a statement, and the loops over a list of them.     *)
RECURSIVE Code(_)

Dispatch(s) ==
    CASE s.class = "binaryop" -> binaryop(s)     [] s.class = "call" -> call(s)
      [] s.class = "cfailure" -> cfailure(s)     [] s.class = "consti" -> consti(s)
      [] s.class = "consts" -> consts(s)         [] s.class = "consthash" -> consthash(s)
      [] s.class = "copy" -> copy(s)             [] s.class = "cmp" -> cmp(s)
      [] s.class = "ctuple" -> ctuple(s)         [] s.class = "fieldget" -> fieldget(s)
      [] s.class = "fieldset" -> fieldset(s)     [] s.class = "goto" -> goto(s)
      [] s.class = "if" -> if(s)                 [] s.class = "iffail" -> iffail(s)
      [] s.class = "label" -> label(s)           [] s.class = "lcontext" -> lcontext(s)
      [] s.class = "lconstruct" -> lconstruct(s) [] s.class = "lfunc" -> lfunc(s)
      [] s.class = "match" -> match(s)           [] s.class = "matchargs" -> matchargs(s)
      [] s.class = "newproc" -> newproc(s)       [] s.class = "patternvar" -> patternvar(s)
      [] s.class = "recv" -> recv(s)             [] s.class = "ref" -> ref(s)
      [] s.class = "return" -> return(s)         [] s.class = "stracc" -> stracc(s)
      [] s.class = "fork" -> fork(s, Code(s.code))

Code(stmts) ==
    LET each == [i \in DOMAIN stmts |-> Dispatch(stmts[i])]
    IN  Stmt(FlattenSeq([i \in DOMAIN each |-> each[i].regs]),
             FlattenSeq([i \in DOMAIN each |-> each[i].res]),
             FlattenSeq([i \in DOMAIN each |-> each[i].code]))

-----------------------------------------------------------------------------
(***************************************************************************)
(* Types.  A type is written out as module/name(type,...).                 *)
(***************************************************************************)
Join(seqs, separator) ==
    FlattenSeq([i \in DOMAIN seqs |-> IF i = 1 THEN seqs[i] ELSE separator \o seqs[i]])

modsym_text(ms) == ms.module.value \o <<"/">> \o ms.symbol.value

RECURSIVE serialize(_)
serialize(t) ==
    modsym_text(t.name)
    \o IF t.args = <<>> THEN <<>>
       ELSE <<"(">> \o Join([i \in DOMAIN t.args |-> serialize(t.args[i])], <<",">>) \o <<")">>

fullname(t) == AsmString(serialize(t))

(* dparam_stmt::collect(): the parameters, and the string of their types.  *)
collect_params(params) ==
    [fields      |-> [i \in DOMAIN params |-> AsmParam(params[i].name, params[i].type)],
     param_types |-> AsmString(Join([i \in DOMAIN params |-> serialize(params[i].type)], <<" -> ">>))]

dparam(s) == <<s.name, s.type>>

-----------------------------------------------------------------------------
(***************************************************************************)
(* Statements of a module: set_function_context() and collect_resources(). *)
(* They give the resources to be collected, in order.                      *)
(***************************************************************************)
func_of(s, fct, ctx) ==
    LET p == collect_params(s.params)
    IN  AsmFunc(s.name, s.result,
                CASE fct = FCT_TRADITIONAL -> PFC_NONE
                  [] fct = FCT_PROTOCOL -> IF s.abstract THEN PFC_ABSTRACT ELSE PFC_DEFAULT
                  [] fct = FCT_POLYMORPH -> PFC_OVERRIDE,
                ctx, p.fields, p.param_types, s.code)

dfunc(s, fct, ctx) ==
    <<s.name, s.result, func_of(s, fct, ctx).param_types>>
    \o FlattenSeq([i \in DOMAIN s.params |-> dparam(s.params[i])])
    \o Code(s.code).res
    \o <<func_of(s, fct, ctx)>>

protocol(s) ==
    LET it == AsmProtocol(s.name, s.typevar)
    IN  <<s.name>> \o s.typevar
        \o FlattenSeq([i \in DOMAIN s.functions |-> dfunc(s.functions[i], FCT_PROTOCOL, <<it>>)])
        \o <<it>>

(* The types of the polymorph are those of the bindtype statements.        *)
bind(s) ==
    LET it == AsmPolymorph(s.protocol, s.types)
    IN  <<s.protocol>>
        \o FlattenSeq([i \in DOMAIN s.functions |-> dfunc(s.functions[i], FCT_POLYMORPH, <<it>>)])
        \o s.types
        \o <<it>>

construct(s, datatype_) ==
    <<s.name, AsmConstruct(s.name, datatype_, collect_params(s.fields).fields)>>
    \o FlattenSeq([i \in DOMAIN s.fields |-> dparam(s.fields[i])])

datatype(s) ==
    LET it == AsmDataType(s.name, s.argc)
    IN  <<s.name, it>> \o FlattenSeq([i \in DOMAIN s.constructs |-> construct(s.constructs[i], it)])

TopResources(s) ==
    CASE s.class = "dfunc" -> dfunc(s, FCT_TRADITIONAL, <<>>)
      [] s.class = "protocol" -> protocol(s)
      [] s.class = "bind" -> bind(s)
      [] s.class = "datatype" -> datatype(s)

(* The functions of a statement, as allocate_registers() reaches them.     *)
TopFunctions(s) ==
    CASE s.class = "dfunc" -> <<func_of(s, FCT_TRADITIONAL, <<>>)>>
      [] s.class = "protocol" ->
           [i \in DOMAIN s.functions |->
                func_of(s.functions[i], FCT_PROTOCOL, <<AsmProtocol(s.name, s.typevar)>>)]
      [] s.class = "bind" ->
           [i \in DOMAIN s.functions |->
                func_of(s.functions[i], FCT_POLYMORPH, <<AsmPolymorph(s.protocol, s.types)>>)]
      [] s.class = "datatype" -> <<>>
=============================================================================
