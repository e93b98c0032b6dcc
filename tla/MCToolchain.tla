---------------------------- MODULE MCToolchain ----------------------------
(* A project of four modules: core has the types of the runtime, base      *)
(* defines a protocol and data types, lib binds the protocol, app uses     *)
(* both; base and lib may import each other.                               *)
EXTENDS Toolchain

MCAtomOrder ==
    <<" -> ", "(", ")", "*", ",", "/", "Int", "Just", "Maybe", "None", "Print", "String", "True", "Void",
      "a", "again", "app", "base", "bbd", "core", "done", "item", "left", "lib", "main", "n", "none",
      "other", "postfork", "right", "show", "str", "text", "value", "wrong", "x">>

app == <<"app">>
base == <<"base">>
lib == <<"lib">>
core == <<"core">>
MCName == {app, base, core, lib}

Type(module, name) == AsmTypeSpec(AsmModSym(module, name), <<>>)
TypeOf(module, name, args) == AsmTypeSpec(AsmModSym(module, name), args)
AType == Type(<<"*">>, <<"a">>)
IntType == Type(<<"core">>, <<"Int">>)
StringType == Type(<<"core">>, <<"String">>)
VoidType == Type(<<"core">>, <<"Void">>)

(* Data types, a protocol with an abstract and a default function, and a   *)
(* plain function that shares a name with both.                            *)
BaseText == <<
    datatype_stmt(<<"Maybe">>, 1,
        <<construct_stmt(<<"None">>, <<>>),
          construct_stmt(<<"Just">>, <<dparam_stmt(<<"value">>, AType), dparam_stmt(<<"other">>, IntType)>>)>>),
    protocol_stmt(<<"Print">>, <<<<"a">>>>,
        <<dfunc_stmt(<<"str">>, StringType, TRUE, <<dparam_stmt(<<"x">>, AType)>>, <<>>),
          dfunc_stmt(<<"show">>, StringType, FALSE, <<dparam_stmt(<<"x">>, AType)>>,
             <<lfunc_stmt(var("text"), AsmModSym(base, <<"str">>)),
               copy_stmt(parse_subindex(var("text"), 0), arg(0)),
               call_stmt(create_result, var("text"), <<>>)>>)>>),
    dfunc_stmt(<<"str">>, StringType, FALSE, <<>>, <<consts_stmt(create_result, <<"text">>)>>)>>

CoreText == <<datatype_stmt(<<"Int">>, 0, <<>>), datatype_stmt(<<"String">>, 0, <<>>)>>

(* Overrides of one protocol function for two types.                       *)
LibText == <<
    bind_stmt(AsmModSym(base, <<"Print">>), <<IntType>>,
        <<dfunc_stmt(<<"str">>, StringType, FALSE, <<dparam_stmt(<<"x">>, IntType)>>,
             <<consts_stmt(var("item"), <<"n">>),
               stracc_stmt(var("item"), arg(0)),
               ref_stmt(create_result, var("item"))>>)>>),
    bind_stmt(AsmModSym(base, <<"Print">>), <<TypeOf(base, <<"Maybe">>, <<AType>>)>>,
        <<dfunc_stmt(<<"str">>, StringType, FALSE, <<dparam_stmt(<<"x">>, TypeOf(base, <<"Maybe">>, <<AType>>))>>,
             <<lconstruct_stmt(var("item"), AsmModSym(base, <<"Just">>)),
               match_stmt(var("n"), var("item"), arg(0), "none"),
               fieldget_stmt(create_result, var("n"), <<"value">>),
               return_stmt,
               label_stmt("none"),
               cfailure_stmt(create_result, <<"wrong">>)>>)>>)>>

(* Loops, branches, a fork and a process.                                  *)
AppText == <<
    dfunc_stmt(<<"main">>, IntType, FALSE, <<dparam_stmt(<<"n">>, IntType)>>,
       <<consti_stmt(var("left"), 0 - 3),
         label_stmt("again"),
         binaryop_stmt("iadd", var("left"), var("left"), arg(0)),
         cmp_stmt("cmp_lt", var("right"), var("left"), arg(0)),
         if_stmt(TRUE, var("right"), "again"),
         fork_block(var("item"),
            <<lfunc_stmt(var("text"), AsmModSym(lib, <<"show">>)),
              newproc_stmt(var("other"), var("text")),
              copy_stmt(var("item"), create_special(REG_PID))>>),
         iffail_stmt(FALSE, var("item"), "done"),
         recv_stmt(arg(0)),
         goto_stmt("again"),
         label_stmt("done"),
         lconstruct_stmt(create_result, AsmModSym(<<"core">>, <<"True">>))>>),
    dfunc_stmt(<<"show">>, VoidType, FALSE, <<dparam_stmt(<<"x">>, IntType), dparam_stmt(<<"a">>, IntType)>>,
       <<lcontext_stmt(var("other"), <<"text">>),
         ctuple_stmt(var("item"), 2),
         patternvar_stmt(var("value")),
         fieldset_stmt(var("item"), <<"value">>, var("value")),
         matchargs_stmt(var("left"), var("item"), "done"),
         consthash_stmt(var("none"), <<"none">>),
         label_stmt("done")>>)>>

(* The same without its function show; lib with an import of app; texts    *)
(* with a register nobody writes and with two forks.                       *)
AppShort == <<Head(AppText)>>
LibBack == Append(LibText, dfunc_stmt(<<"main">>, IntType, FALSE, <<>>,
    <<lfunc_stmt(var("x"), AsmModSym(app, <<"main">>))>>))
BaseWrong == <<dfunc_stmt(<<"main">>, IntType, FALSE, <<>>, <<copy_stmt(var("x"), var("n"))>>)>>
LibForks == <<dfunc_stmt(<<"main">>, IntType, FALSE, <<>>,
    <<fork_block(var("left"), <<consti_stmt(var("left"), 1)>>),
      fork_block(var("right"), <<consti_stmt(var("right"), 70000)>>)>>)>>

MCSource == [m \in MCName |->
    CASE m = app -> <<AppText, AppShort, NoText>>
      [] m = core -> <<CoreText>>
      [] m = base -> <<BaseText, BaseWrong>>
      [] m = lib -> <<LibText, LibBack, LibForks>>]
=============================================================================
