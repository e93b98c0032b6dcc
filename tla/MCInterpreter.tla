--------------------------- MODULE MCInterpreter ---------------------------
(* Small programs: joined and nested forks, failures that are handled or   *)
(* not, one function value called with arguments of several types,         *)
(* processes that send each other messages, and the programs the code has  *)
(* no good answer to.                                                      *)
EXTENDS Interpreter

consti(dst, n) == [op |-> "consti", dst |-> dst, n |-> n]
consts(dst, s) == [op |-> "consts", dst |-> dst, s |-> s]
consthash(dst, s) == [op |-> "consthash", dst |-> dst, s |-> s]
cfailure(dst, tag) == [op |-> "cfailure", dst |-> dst, tag |-> tag]
patternvar(dst) == [op |-> "patternvar", dst |-> dst]
ctuple(dst, size) == [op |-> "ctuple", dst |-> dst, size |-> size]
lconstruct(dst, cons) == [op |-> "lconstruct", dst |-> dst, cons |-> cons]
lcontext(dst, name) == [op |-> "lcontext", dst |-> dst, name |-> name]
move(dst, src) == [op |-> "move", dst |-> dst, src |-> src]
stracc(dst, src) == [op |-> "stracc", dst |-> dst, src |-> src]
match(op, dst, pattern, src, block) ==
    <<[op |-> op, dst |-> dst, pattern |-> pattern, src |-> src, jump |-> Len(block) + 1]>> \o block
copy(dst, src) == [op |-> "copy", dst |-> dst, src |-> src]
ref(dst, src) == [op |-> "ref", dst |-> dst, src |-> src]
binary(op, dst, a, b) == [op |-> op, dst |-> dst, a |-> a, b |-> b]
loadobj(module) == [op |-> "loadobj", module |-> module]
loadtype == [op |-> "loadtype"]
iadd(dst, a, b) == binary("iadd", dst, a, b)
idiv(dst, a, b) == binary("idiv", dst, a, b)
lfunc(dst, func) == [op |-> "lfunc", dst |-> dst, func |-> func]
call(dst, src) == [op |-> "call", dst |-> dst, src |-> src]
newproc(pid, func) == [op |-> "newproc", dst |-> pid, src |-> func]
recv(dst) == [op |-> "recv", dst |-> dst]
return == [op |-> "return"]
goto(jump) == [op |-> "goto", jump |-> jump]
if(op, src, block) == <<[op |-> op, src |-> src, jump |-> Len(block) + 1]>> \o block
iffail(src, block) == if("iffail", src, block)
fork(dst, block) == <<[op |-> "fork", dst |-> dst, jump |-> Len(block) + 2]>> \o block \o <<return>>

Traditional(params, regc, code) ==
    [module |-> "main", context |-> "traditional", family |-> "none", argc |-> Len(params), params |-> params,
     types |-> params, regc |-> regc, c |-> "none", code |-> Append(code, return)]
Of(context, family, module, params, regc, code) ==
    [Traditional(params, regc, code) EXCEPT !.context = context, !.family = family, !.module = module]
C(module, params, c) ==
    [Traditional(params, Len(params), <<>>) EXCEPT !.module = module, !.c = c]

getline == C("io", <<"Stream">>, "getline")
print == C("io", <<"String">>, "print")
write == C("io", <<"Stream", "String">>, "write")
open == C("io", <<"String", "String">>, "open")

send == C("core", <<"Int", "*">>, "send")
pid == C("core", <<>>, "pid")
wid == C("core", <<>>, "wid")

r0 == reg(0)  r1 == reg(1)  r2 == reg(2)  r3 == reg(3)  r4 == reg(4)  r5 == reg(5)

(* The protocol functions show and pair and their overrides; str is        *)
(* abstract and has an override in C.                                      *)
inc == Traditional(<<"Int">>, 2, fork(r1, <<consti(r2, 1), iadd(r1, r0, r2)>>) \o <<copy(result, r1)>>)
same == Traditional(<<"*">>, 0, <<copy(result, r0)>>)
show == Of("default", "show", "core", <<"*">>, 0, <<consti(result, 4)>>)
show_Int == Of("override", "show", "main", <<"Int">>, 1, <<consti(r1, 1), iadd(result, r0, r1)>>)
show_String ==
    Of("override", "show", "main", <<"String">>, 3,
       fork(r1, <<consti(r1, 1)>>) \o <<consti(r2, 1), iadd(r3, r1, r2), copy(result, r3)>>)
pair == Of("default", "pair", "core", <<"*", "*">>, 0, <<consti(result, 9)>>)
pair_String_Int == Of("override", "pair", "core", <<"String", "Int">>, 0, <<consti(result, 1)>>)
pair_Int_String == Of("override", "pair", "core", <<"Int", "String">>, 0, <<consti(result, 2)>>)
str == Of("abstract", "str", "core", <<"*">>, 0, <<>>)
str_from_int == [C("core", <<"Int">>, "str") EXCEPT !.context = "override", !.family = "str"]
str_from_str == [C("core", <<"String">>, "str") EXCEPT !.context = "override", !.family = "str"]
show_List ==
    [Of("override", "show", "main", <<"List">>, 0, <<consti(result, 6)>>) EXCEPT !.types = <<"List", "(", "*", ")">>]
show_Just ==
    [Of("override", "show", "main", <<"Maybe">>, 0, <<consti(result, 7)>>)
     EXCEPT !.types = <<"Maybe", "(", "Int", ")">>]

(* The example of the instruction set reference; two calls at once; one    *)
(* path within another.                                                    *)
forked == Traditional(<<>>, 4,
    fork(r0, <<consti(r1, 2), consti(r2, 3), iadd(r0, r1, r2)>>) \o <<consti(r3, 4), iadd(result, r3, r0)>>)
calls == Traditional(<<>>, 4,
    fork(r0, <<lfunc(r1, "inc"), consti(sub(1, 0), 1), call(r0, r1)>>)
    \o fork(r2, <<lfunc(r3, "inc"), consti(sub(3, 0), 5), call(r2, r3)>>) \o <<iadd(result, r0, r2)>>)
nested == Traditional(<<>>, 3,
    fork(r0, fork(r1, <<consti(r1, 2)>>) \o <<consti(r2, 3), iadd(r0, r1, r2)>>) \o <<copy(result, r0)>>)
promised == Traditional(<<>>, 2,
    fork(r0, <<consti(r0, 7)>>) \o <<lfunc(r1, "same"), ref(sub(1, 0), r0), call(result, r1)>>)

(* Lines are read while other paths run.  The last one reads a value its   *)
(* path has just written, and may end before the path does.                *)
gets(a) == <<lfunc(a, "getline"), lcontext(sub(a[2], 0), "stdin")>>
reading == Traditional(<<>>, 4,
    <<lfunc(r3, "same")>>
    \o fork(r0, gets(r1) \o <<call(r0, r1)>>)
    \o <<lfunc(r2, "show"), copy(sub(2, 0), r0), call(result, r2)>>)
readings == Traditional(<<>>, 6,
    fork(r0, gets(r3) \o <<call(r2, r3), lfunc(r3, "inc"), consti(sub(3, 0), 1), call(r0, r3)>>)
    \o fork(r1, gets(r4) \o <<call(r5, r4), consti(r1, 3)>>) \o <<iadd(result, r0, r1)>>)
line(a, b, c, d) ==
    fork(reg(a), gets(reg(b)) \o <<call(reg(c), reg(b)), lfunc(reg(d), "show"), copy(sub(d, 0), reg(c)),
                                   call(reg(a), reg(d))>>)
lines == Traditional(<<>>, 8,
    <<lfunc(r2, "same")>> \o line(0, 2, 3, 4) \o line(1, 5, 6, 7) \o <<iadd(result, r0, r1)>>)
late == Traditional(<<>>, 5,
    fork(r0, fork(r1, gets(r4) \o <<call(r4, r4), consti(r1, 2)>>) \o <<consti(r2, 3), iadd(r0, r1, r2)>>)
    \o gets(r3) \o <<call(r3, r3), copy(result, r0)>>)

(* Failures.                                                               *)
failing == Traditional(<<>>, 2, fork(r0, <<cfailure(r0, "bad")>>) \o <<consti(r1, 1), iadd(result, r0, r1)>>)
recovers == Traditional(<<>>, 2,
    <<lfunc(r0, "failing"), call(r1, r0)>> \o iffail(r1, <<consti(r1, 1)>>) \o <<copy(result, r1)>>)
argument == Traditional(<<>>, 1, <<lfunc(r0, "inc"), cfailure(sub(0, 0), "bad"), call(result, r0)>>)
divides == Traditional(<<>>, 3,
    <<consti(r0, 4), consti(r1, 2), idiv(r2, r0, r1), consti(r1, 0), idiv(r1, r2, r1), copy(void, r2), iadd(result, r2, r1)>>)

arithmetic == Traditional(<<>>, 4,
    <<consti(r0, 7), consti(r1, 4), binary("isub", r2, r0, r1), binary("imult", r2, r2, r1),
      lfunc(r3, "print"), copy(sub(3, 0), r2), call(void, r3)>>
    \o if("ifnotfail", r2, <<copy(result, r2), return>>) \o <<copy(result, r0)>>)
unwritten == Traditional(<<>>, 0, <<loadtype>>)

(* One function value, called again and again.                             *)
shows == Traditional(<<>>, 4,
    <<lfunc(r3, "same"), lfunc(r0, "show"), consti(sub(0, 0), 18), call(r1, r0),
      consts(sub(0, 0), "tacos"), call(r2, r0), iadd(r1, r1, r2),
      lfunc(sub(0, 0), "inc"), call(r2, r0), iadd(r1, r1, r2),
      consti(sub(0, 0), 30), call(r2, r0), iadd(result, r1, r2)>>)
pairs == Traditional(<<>>, 4,
    <<lfunc(r0, "pair"), consti(sub(0, 0), 3), consts(sub(0, 1), "tacos"), call(r1, r0),
      consti(sub(0, 1), 3), call(r2, r0), iadd(r1, r1, r2),
      consts(sub(0, 0), "tacos"), call(r2, r0), iadd(r1, r1, r2),
      consts(sub(0, 1), "tacos"), call(r2, r0), iadd(result, r1, r2)>>)
strs == Traditional(<<>>, 3,
    <<lfunc(r0, "str"), consti(sub(0, 0), 3), call(r1, r0), move(sub(0, 0), r1), call(r2, r0), copy(result, r2)>>)

(* An override for every list, one for what may be a number.               *)
lists == Traditional(<<>>, 5,
    <<lfunc(r4, "same"), lconstruct(r1, "Empty"), lconstruct(r2, "Node"), consts(sub(2, 0), "tacos"), copy(sub(2, 1), r1),
      lfunc(r0, "show"), copy(sub(0, 0), r2), call(r3, r0),
      lconstruct(sub(0, 0), "Just"), copy(r1, sub(0, 0)), consti(sub(1, 0), 5), call(r4, r0), iadd(r3, r3, r4),
      consts(sub(1, 0), "tacos"), call(r4, r0), iadd(result, r3, r4)>>)

(* Control: a loop, the comparisons of 3 with 4.                           *)
loop == Traditional(<<>>, 5,
    <<consti(r0, 0), consti(r1, 3), consti(r2, 0), consti(r4, -1), binary("gt", r3, r1, r2)>>
    \o if("if", r3, <<iadd(r0, r0, r1), iadd(r1, r1, r4), goto(-4)>>)
    \o <<binary("eq", r3, r1, r2)>> \o if("ifnot", r3, <<consti(r0, 99)>>) \o <<copy(result, r0)>>)
adds(op, n) == <<binary(op, r2, r0, r1)>> \o if("if", r2, <<consti(r3, n), iadd(r4, r4, r3)>>)
compares == Traditional(<<>>, 5,
    <<consti(r0, 3), consti(r1, 4), consti(r4, 0)>> \o adds("eq", 1) \o adds("noteq", 2) \o adds("gt", 4)
    \o adds("gteq", 8) \o adds("lt", 16) \o <<copy(result, r4)>>)

(* Tuples, constructs, patterns.                                           *)
on_axis == Traditional(<<"Int", "Int">>, 2,
    <<ctuple(r2, 2), ctuple(r3, 2), patternvar(sub(2, 0)), consti(sub(2, 1), 0)>>
    \o match("matchargs", r3, r2, void, <<copy(result, sub(3, 0)), return>>) \o <<consti(result, 99)>>)
axes == Traditional(<<>>, 3,
    <<lfunc(r0, "on_axis"), consti(sub(0, 0), 5), consti(sub(0, 1), 0), call(r1, r0),
      consti(sub(0, 1), 1), call(r2, r0), iadd(result, r1, r2)>>)
maybe == Traditional(<<>>, 3,
    <<lconstruct(r0, "Just"), consti(sub(0, 0), 5), lconstruct(r1, "Nothing")>>
    \o match("match", r2, r1, r0, <<consti(result, 99), return>>)
    \o <<lconstruct(r1, "Just"), patternvar(sub(1, 0))>>
    \o match("match", r2, r1, r0, <<copy(result, sub(2, 0)), return>>))
contexts == Traditional(<<>>, 2,
    <<lcontext(r0, "x"), consti(r0, 3), lfunc(r1, "counts"), call(void, r1), copy(result, r0)>>)
counts == Traditional(<<>>, 2, <<lcontext(r0, "x"), consti(r1, 1), iadd(r0, r0, r1)>>)

(* Strings that grow.                                                      *)
appends == Traditional(<<>>, 2, <<consts(r0, "a"), consti(r1, 7), stracc(r0, r1), stracc(r0, r0), copy(result, r0)>>)
appends_number == Traditional(<<>>, 2, <<consti(r0, 1), consts(r1, "a"), stracc(r0, r1)>>)
appends_void == Traditional(<<>>, 2, <<consts(r0, "a"), stracc(r0, r1), copy(result, r0)>>)
appends_failed == Traditional(<<>>, 2, <<cfailure(r0, "bad"), consts(r1, "a"), stracc(r0, r1)>>)

(* What the code does not do as one would think: a string that was copied  *)
(* grows too; any hashtag equals another; fields of a pattern do not       *)
(* count; a promise matches and is not copied; no value has named fields;  *)
(* a function given as an argument has the type of its own argument.       *)
aliases == Traditional(<<>>, 3,
    <<consts(r0, "a"), copy(r1, r0), consts(r2, "b"), stracc(r1, r2), copy(result, r0)>>)
tags == Traditional(<<>>, 3,
    <<consthash(r0, "a"), consthash(r1, "b"), binary("eq", r2, r0, r1)>>
    \o if("if", r2, <<consti(result, 1), return>>) \o <<consti(result, 2)>>)
loose == Traditional(<<>>, 3,
    <<lconstruct(r0, "Just"), consti(sub(0, 0), 5), lconstruct(r1, "Just"), consti(sub(1, 0), 3)>>
    \o match("match", r2, r1, r0, <<copy(result, sub(2, 0)), return>>))
impatient == Traditional(<<>>, 3,
    fork(r0, <<consti(r0, 7)>>) \o <<patternvar(r1)>>
    \o match("match", r2, r1, r0, <<>>) \o <<copy(void, r0), copy(result, r2)>>)
fields == Traditional(<<>>, 2, <<lconstruct(r0, "Just"), [op |-> "fieldget", dst |-> r1, src |-> r0]>>)
mistaken == Traditional(<<>>, 3,
    <<lfunc(r0, "show"), lfunc(r1, "same"), consti(sub(1, 0), 3), move(sub(0, 0), r1), call(r2, r0)>>)

(* The worker has not looked main up when it dispatches; a reference hides *)
(* the type; nothing fits an abstract function.                            *)
unknown == Traditional(<<>>, 1, <<lfunc(r0, "show"), consti(sub(0, 0), 18), call(result, r0)>>)
loads == Traditional(<<>>, 1, <<loadobj("main"), lfunc(r0, "show"), consti(sub(0, 0), 18), call(result, r0)>>)
referred == Traditional(<<>>, 3,
    <<lfunc(r2, "same"), consti(r0, 18), lfunc(r1, "show"), ref(sub(1, 0), r0), call(result, r1)>>)
abstract == Traditional(<<>>, 1, <<lfunc(r0, "str"), call(result, r0)>>)

(* Promises where the code does not wait: of a function that is called or  *)
(* given an argument, of an argument whose type is checked.                *)
called == Traditional(<<>>, 3,
    fork(r0, <<lfunc(r0, "inc")>>) \o <<call(r1, r0)>> \o iffail(r0, <<>>) \o <<copy(result, r1)>>)
given == Traditional(<<>>, 2, fork(r0, <<lfunc(r0, "inc")>>) \o <<consti(sub(0, 0), 1), call(result, r0)>>)
checked == Traditional(<<>>, 2,
    fork(r0, <<consti(r0, 7)>>) \o <<lfunc(r1, "inc"), ref(sub(1, 0), r0), call(result, r1)>>)

(* Nobody waits for the path; two calls on the registers of one value.     *)
unjoined == Traditional(<<>>, 1, fork(r0, <<consti(r0, 7)>>))
shared == Traditional(<<>>, 3,
    <<lfunc(r0, "inc")>> \o fork(r1, <<consti(sub(0, 0), 1), call(r1, r0)>>)
    \o <<consti(sub(0, 0), 5), call(r2, r0), iadd(result, r1, r2)>>)

(* A path that reads a failure runs for ever; one whose argument has       *)
(* failed ends, and its promise is never kept.                             *)
reads_failure == Traditional(<<>>, 2,
    fork(r0, <<cfailure(r1, "bad"), copy(r0, r1)>>) \o <<copy(result, r0)>>)
bad_argument == Traditional(<<>>, 2,
    fork(r0, <<lfunc(r1, "inc"), cfailure(sub(1, 0), "bad"), call(r0, r1)>>) \o <<copy(result, r0)>>)

(* References to registers that have moved, or that went with a frame.     *)
outgrown == Traditional(<<>>, 4,
    <<lfunc(r0, "same"), lfunc(r0, "show"), consts(sub(0, 0), "tacos"), ref(r1, sub(0, 0)), call(r2, r0), copy(r3, r1),
      consti(result, 1)>>)
outgrown_result == Traditional(<<>>, 2,
    <<lfunc(r0, "same"), lfunc(r0, "show"), consts(sub(0, 0), "tacos"), call(sub(0, 0), r0)>>)
outgrown_text == Traditional(<<>>, 2, <<lfunc(r0, "str"), consti(sub(0, 0), 3), call(sub(0, 0), r0), copy(result, sub(0, 0))>>)
outlived == Traditional(<<>>, 2, <<lfunc(r0, "remembers"), call(r1, r0), consti(r1, 3)>>)
remembers == Traditional(<<>>, 0, <<lcontext(result, "y")>>)

(* Registers that are not there, values of the wrong type.                 *)
absent == Traditional(<<>>, 1, <<ctuple(r0, 1), lfunc(sub(0, 5), "same")>>)
numbers == Traditional(<<>>, 2, <<consti(r0, 1), consti(sub(0, 0), 2)>>)
divides_text == Traditional(<<>>, 2, <<consts(r0, "a"), consti(r1, 2), idiv(r0, r0, r1)>>)
tests_number == Traditional(<<>>, 1, <<consti(r0, 2)>> \o if("if", r0, <<consti(result, 1)>>))
misdirected == Traditional(<<>>, 1, <<lfunc(r0, "getline"), consti(sub(0, 0), 1), call(result, r0)>>)

(* Files, and lines that are written.                                      *)
files == Traditional(<<>>, 4,
    <<lfunc(r0, "open"), consts(sub(0, 0), "name"), consts(sub(0, 1), "r"), call(r1, r0),
      lfunc(r2, "getline"), ref(sub(2, 0), r1), call(r3, r2), copy(result, r3)>>)
writes == Traditional(<<>>, 2, <<lfunc(r0, "write"), lcontext(sub(0, 0), "stdout"), consts(sub(0, 1), "a"), call(void, r0)>>)
hello == Traditional(<<>>, 5,
    fork(r2, gets(r1) \o <<call(r2, r1)>>)
    \o <<consts(r0, "hello"), stracc(r0, r2), lfunc(r4, "write"), lcontext(sub(4, 0), "stdout"), ref(sub(4, 1), r0),
          call(void, r4), copy(result, r0)>>)

(* What the reference says of a comparison and of a promise, and the code  *)
(* does not do: the digits are cmp<=, call and match.                      *)
disagrees == Traditional(<<>>, 6,
    <<consti(r0, 3), consti(r1, 4), consti(r5, 0), binary("lteq", r2, r0, r1)>> \o if("if", r2, <<consti(r5, 1)>>)
    \o fork(r3, <<lfunc(r3, "seven")>>)
    \o <<call(r4, r3), copy(void, r3)>> \o if("ifnotfail", r4, <<consti(r0, 20), iadd(r5, r5, r0)>>)
    \o fork(r3, <<consti(r3, 7)>>) \o <<consti(r1, 7)>>
    \o match("match", r2, r1, r3, <<copy(void, r3), copy(result, r5), return>>)
    \o <<copy(void, r3), consti(r0, 300), iadd(result, r5, r0)>>)
seven == Traditional(<<>>, 0, <<consti(result, 7)>>)

(* Processes.  lib is a module whose functions do not make main known; $0  *)
(* of a process is the pid it sends to.                                    *)
Child(regc, code) == [Traditional(<<"Int">>, regc, code) EXCEPT !.module = "lib"]
sends(a, x) == <<lfunc(a, "send"), copy(sub(a[2], 0), r0), copy(sub(a[2], 1), x), call(void, a)>>
start(dst, a, child) ==
    <<lfunc(a, "pid"), call(dst, a), lfunc(a, child), copy(sub(a[2], 0), dst), newproc(dst, a)>>

(* The test newproc.uqb: a process reads lines and sends them on.          *)
asks == Traditional(<<>>, 4,
    <<lfunc(r1, "asking"), lcontext(sub(1, 1), "stdin"), lfunc(r2, "pid"), call(sub(1, 0), r2), newproc(r3, r1),
      consts(r0, "hello"), recv(r1), recv(r2), stracc(r0, r1), stracc(r0, r2), copy(result, r0)>>)
asking == [Traditional(<<"Int", "Stream">>, 2,
    <<lfunc(r2, "getline"), ref(sub(2, 0), r1), lfunc(r3, "send"), copy(sub(3, 0), r0),
      call(sub(3, 1), r2), call(void, r3), call(sub(3, 1), r2), call(void, r3)>>) EXCEPT !.module = "lib"]

(* Messages keep their order, those of two senders mix; pids.uqb: workers  *)
(* take turns; a pid that is nobody's, a process that has ended.           *)
counts_down == Traditional(<<>>, 5,
    start(r2, r1, "counting")
    \o <<consti(r3, 10), recv(r0), recv(r1), recv(r2), binary("imult", r0, r0, r3), iadd(r0, r0, r1),
          binary("imult", r0, r0, r3), iadd(result, r0, r2)>>)
counting == Child(2,
    <<consti(r1, 3)>> \o sends(r2, r1) \o <<consti(r1, 2)>> \o sends(r2, r1) \o <<consti(r1, 1)>> \o sends(r2, r1))
mixes == Traditional(<<>>, 4,
    start(r2, r1, "one") \o start(r2, r1, "two")
    \o <<consti(r3, 10), recv(r0), recv(r1), binary("imult", r0, r0, r3), iadd(result, r0, r1)>>)
one == Child(2, <<consti(r1, 1)>> \o sends(r2, r1))
two == Child(2, <<consti(r1, 2)>> \o sends(r2, r1))
identifies == Traditional(<<>>, 3,
    start(r2, r1, "identity") \o <<recv(r0)>> \o start(r2, r1, "identity") \o <<recv(r1), iadd(result, r0, r1)>>)
identity == Child(3,
    <<lfunc(r1, "pid"), call(r2, r1), consti(r1, 10), binary("imult", r2, r2, r1), lfunc(r1, "wid"), call(r3, r1),
      iadd(r2, r2, r3)>>
    \o sends(r1, r2))
posts == Traditional(<<>>, 3,
    <<consti(r0, 9)>> \o sends(r1, r0) \o start(r0, r1, "one") \o sends(r1, r0) \o <<recv(r2), copy(result, r2)>>)
receives == Traditional(<<>>, 6,
    fork(r4, <<recv(r1), copy(r4, r1)>>) \o fork(r2, <<recv(r3), copy(r2, r3)>>)
    \o <<lfunc(r5, "pid"), call(r0, r5), consti(r1, 5)>> \o sends(r5, r1) \o <<consti(r1, 7)>> \o sends(r5, r1)
    \o <<iadd(result, r4, r2)>>)

(* A string is copied when it is sent; a construct is not, nor an argument *)
(* by reference.                                                           *)
sends_string == Traditional(<<>>, 4,
    start(r0, r1, "answers") \o <<consts(r2, "a")>> \o sends(r1, r2) \o <<stracc(r2, r2), recv(r3), copy(result, r3)>>)
answers == Child(2, <<recv(r1)>> \o sends(r2, r1))
sends_construct == Traditional(<<>>, 4,
    start(r0, r1, "alters") \o <<lconstruct(r2, "Just"), consti(sub(2, 0), 5)>> \o sends(r1, r2)
    \o <<recv(r3), copy(result, sub(2, 0))>>)
alters == Child(2, <<recv(r1), consti(sub(1, 0), 7)>> \o sends(r2, r1))
meddled == Traditional(<<>>, 3,
    <<consti(r0, 1), lfunc(r1, "meddles"), ref(sub(1, 0), r0), newproc(r2, r1), copy(result, r0)>>)
meddles == Child(0, <<consti(r0, 7)>>)

(* The override depends on the worker, and on what others have done there. *)
showing == Child(3, <<lfunc(r1, "show"), consti(sub(1, 0), 18), call(r2, r1)>> \o sends(r3, r2))
roams == Traditional(<<>>, 3,
    <<loadobj("main")>> \o start(r2, r1, "showing") \o <<recv(r0)>>
    \o start(r2, r1, "showing") \o <<recv(r1), iadd(result, r0, r1)>>)
load_races == Traditional(<<>>, 3, start(r2, r1, "one") \o start(r2, r1, "loading")
    \o <<recv(r0), lfunc(r0, "show"), consti(sub(0, 0), 18), call(result, r0)>>)
loading == Child(0, <<loadobj("main")>>)

(* A process has no result; a function value starts one process; what is   *)
(* started must be there, and not in C; nobody sends.                      *)
returns == Traditional(<<>>, 3, start(r0, r1, "returning") \o <<recv(r2)>>)
returning == Child(0, <<copy(result, r0)>>)
fails == Traditional(<<>>, 3, start(r0, r1, "failing_alone") \o <<recv(r2)>>)
failing_alone == Child(1, <<cfailure(r1, "bad"), copy(r0, r1)>>)
wonders == Traditional(<<>>, 2, start(r0, r1, "wondering"))
wondering == Child(0, <<patternvar(result)>>)
twice == Traditional(<<>>, 3, <<lfunc(r0, "meddles"), newproc(r1, r0), newproc(r2, r0), copy(result, r2)>>)
starts_promise == Traditional(<<>>, 2,
    fork(r0, <<lfunc(r0, "meddles")>>) \o <<newproc(r1, r0)>> \o iffail(r0, <<>>) \o <<copy(result, r1)>>)
starts_c == Traditional(<<>>, 2, <<lfunc(r0, "print"), newproc(r1, r0)>>)
waits == Traditional(<<>>, 1, <<recv(r0)>>)

MCFunction ==
    [getline |-> getline, print |-> print, write |-> write, open |-> open, send |-> send, pid |-> pid, wid |-> wid,
     inc |-> inc, same |-> same, show |-> show, show_Int |-> show_Int, show_String |-> show_String,
     show_List |-> show_List, show_Just |-> show_Just, pair |-> pair, pair_String_Int |-> pair_String_Int,
     pair_Int_String |-> pair_Int_String, str |-> str, str_from_int |-> str_from_int, str_from_str |-> str_from_str,
     seven |-> seven, on_axis |-> on_axis, counts |-> counts, remembers |-> remembers, asking |-> asking,
     counting |-> counting, one |-> one, two |-> two, identity |-> identity, answers |-> answers, alters |-> alters,
     meddles |-> meddles, showing |-> showing, loading |-> loading, returning |-> returning,
     failing_alone |-> failing_alone, wondering |-> wondering, forked |-> forked, calls |-> calls, nested |-> nested,
     promised |-> promised, reading |-> reading, readings |-> readings, lines |-> lines, hello |-> hello,
     writes |-> writes, failing |-> failing, recovers |-> recovers, argument |-> argument, divides |-> divides,
     arithmetic |-> arithmetic, loads |-> loads, shows |-> shows, pairs |-> pairs, strs |-> strs, lists |-> lists,
     loop |-> loop, compares |-> compares, axes |-> axes, maybe |-> maybe, contexts |-> contexts,
     appends |-> appends, appends_number |-> appends_number, appends_void |-> appends_void,
     appends_failed |-> appends_failed, asks |-> asks, counts_down |-> counts_down, mixes |-> mixes,
     identifies |-> identifies, posts |-> posts, receives |-> receives, sends_string |-> sends_string, late |-> late,
     unwritten |-> unwritten, aliases |-> aliases, tags |-> tags, loose |-> loose, impatient |-> impatient,
     fields |-> fields, mistaken |-> mistaken, unknown |-> unknown, referred |-> referred, abstract |-> abstract,
     called |-> called, given |-> given, checked |-> checked, unjoined |-> unjoined, shared |-> shared,
     reads_failure |-> reads_failure, bad_argument |-> bad_argument, outgrown |-> outgrown,
     outgrown_result |-> outgrown_result, outgrown_text |-> outgrown_text, outlived |-> outlived, absent |-> absent,
     numbers |-> numbers, divides_text |-> divides_text, tests_number |-> tests_number, misdirected |-> misdirected,
     files |-> files, sends_construct |-> sends_construct, meddled |-> meddled, roams |-> roams,
     load_races |-> load_races, returns |-> returns, fails |-> fails, wonders |-> wonders, twice |-> twice,
     starts_promise |-> starts_promise, starts_c |-> starts_c, waits |-> waits, disagrees |-> disagrees]
MCConstruct ==
    [Just |-> [type |-> "Maybe", module |-> "core", fields |-> 1, param |-> 1, generic |-> TRUE],
     Nothing |-> [type |-> "Maybe", module |-> "core", fields |-> 0, param |-> 0, generic |-> TRUE],
     Node |-> [type |-> "List", module |-> "core", fields |-> 2, param |-> 1, generic |-> TRUE],
     Empty |-> [type |-> "List", module |-> "core", fields |-> 0, param |-> 0, generic |-> TRUE]]
MCOverride ==
    <<"pair_Int_String", "pair_String_Int", "str_from_int", "str_from_str", "show_Int", "show_Just", "show_List",
      "show_String">>
Text(pieces) == <<"String", pieces>>

(* What the reference, a comment or a test says of these programs.         *)
MCMeaning ==
    [forked |-> {Num(9)}, calls |-> {Num(8)}, nested |-> {Num(5)}, promised |-> {Num(7)},
     reading |-> {Num(2)}, readings |-> {Num(5)}, lines |-> {Num(4)}, hello |-> {Text(<<"hello", "line">>)},
     writes |-> {Num(0)}, failing |-> {Failure("bad")}, recovers |-> {Num(1)}, argument |-> {Failure("bad")},
     divides |-> {Failure("divideby0")}, arithmetic |-> {Num(12)}, loads |-> {Num(19)}, shows |-> {Num(56)},
     pairs |-> {Num(21)}, strs |-> {Text(<<"3">>)}, lists |-> {Num(17)}, loop |-> {Num(6)}, compares |-> {Num(18)},
     axes |-> {Num(104)}, maybe |-> {Num(5)}, contexts |-> {Num(4)},
     appends |-> {Text(<<"a", "7", "a", "7">>)}, appends_number |-> {Failure("type")},
     appends_void |-> {Failure("type")}, appends_failed |-> {Failure("bad")},
     asks |-> {Text(<<"hello", "line", "line">>)}, counts_down |-> {Num(321)}, mixes |-> {Num(12), Num(21)},
     identifies |-> {Num(53)}, posts |-> {Num(1)}, receives |-> {Num(12)}, sends_string |-> {Text(<<"a">>)},
     disagrees |-> {Num(321)}]

(* Programs nothing is said of, or whose documented end the code misses.   *)
Unsaid ==
    {"late", "unwritten", "aliases", "tags", "loose", "impatient", "fields", "mistaken", "unknown", "referred",
     "abstract", "called", "given", "checked", "unjoined", "shared", "reads_failure", "bad_argument", "outgrown",
     "outgrown_result", "outgrown_text", "outlived", "absent", "numbers", "divides_text", "tests_number",
     "misdirected", "files", "sends_construct", "meddled", "roams", "load_races", "returns", "fails", "wonders",
     "twice", "starts_promise", "starts_c", "waits"}
MCMain == (DOMAIN MCMeaning \ {"disagrees"}) \cup Unsaid
Disagrees == {"disagrees"}
MCKnown == {"core"}
MCStuck == {"reads_failure", "bad_argument", "waits", "wonders"}
=============================================================================
