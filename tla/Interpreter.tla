---------------------------- MODULE Interpreter ----------------------------
(***************************************************************************)
(* The interpreter (lib/qbrt.cpp): registers, references, promises,        *)
(* failures, function values, the choice of an override when one of them   *)
(* is called, streams, processes and the messages they send each other.    *)
(*                                                                         *)
(* A register points at what is not in it: a function value, a tuple or a  *)
(* construct, which own registers, and the text of a string.  A call runs  *)
(* on the registers of the function value it was made from, and the paths  *)
(* it forks share them.  A place is a pointer: <<v, r, n>> is register r   *)
(* of the object v, as long as its registers have moved n times; later it  *)
(* dangles.  Registers move when a function value needs more of them, and  *)
(* those of a context variable go with the frame that made it.  Object 1   *)
(* stands for the result of main() and the drains of the workers.          *)
(*                                                                         *)
(* Frames are queued as in Worker.  Left open are when a stream is ready,  *)
(* which worker takes the next step and when the main thread hands out a   *)
(* process.  How new_process() and the loop of the main thread interleave  *)
(* is in Application, how two workers share a list in Channel.             *)
(***************************************************************************)
EXTENDS Integers, SequencesExt

CONSTANTS Function,  \* Function[n]: what the object file says of function n
          Construct, \* Construct[c]: its data type, module, fields and what its type says of them
          Override,  \* the overrides, in the order they are searched
          Main,      \* the functions a process may start with
          Known,     \* the modules every worker starts with
          Meaning,   \* Meaning[m]: what may come of m, for those the documentation speaks of
          Stuck,     \* those of Main whose paths fail before they keep a promise
          NumWorkers, \* main() makes two
          MaxFrames, \* bound: no run makes more frames
          MaxRefs    \* bound: no chain of references is longer

Worker == 1 .. NumWorkers
ASSUME BoundsAssumption == NumWorkers \in Nat \ {0} /\ MaxFrames \in Nat \ {0} /\ MaxRefs \in Nat

(* A register as an instruction names it: $i, $i.j, \result or \void.      *)
reg(i) == <<"reg", i>>
sub(i, j) == <<"sub", i, j>>
result == <<"result">>
void == <<"void">>

(* Values; the first component is the type.                                *)
Void == <<"Void">>
Bool(b) == <<"Bool", b>>
Num(n) == <<"Int", n>>
Failure(tag) == <<"Failure", tag>>
Promise == <<"Promise">>
PatternVar == <<"PatternVar">>
Hashtag(tag) == <<"Hashtag", tag>>
Ref(place) == <<"Ref", place>>
String(v) == <<"String", v>>
Tuple(v) == <<"Tuple", v>>
Stream(fd) == <<"Stream", fd>>
function_value(v) == <<"Function", v>>
construct(v, c) == <<Construct[c].type, v, c>>

VARIABLES program,   \* the function the first process has started with
          fifo,      \* stdin is a fifo: stdin and stdout are ByteStreams
          process,   \* the processes: worker, root frame, messages not yet received
          distributor, \* the worker that gets the next process
          value,     \* what the registers point at
          frame,     \* the frames made so far, those that are dead too
          current, fresh, stale, at,   \* each worker, as in Worker
          io,        \* the frames with an operation on a ByteStream
          known,     \* the modules each worker has looked up
          broken     \* how the program went wrong, "none" when it has not
queue == <<current, fresh, stale>>
vars == <<program, fifo, process, distributor, value, frame, queue, at, io, known, broken>>

NoPlace == <<>>
EmptyContext == [name \in {} |-> 0]
None == 0
Live == {f \in DOMAIN frame : frame[f].live}

(* An object that is no function value, and a function that is not in C,   *)
(* have "none" there.  argc: how many registers are arguments; of a        *)
(* construct, the first field that has the type its data type takes.       *)
Voids(n) == [r \in 1 .. n |-> Void]
NewIndex(n) ==
    [func |-> "none", family |-> "none", argc |-> 0, regs |-> Voids(n), moves |-> 0, text |-> <<>>]
NewString(text) == [NewIndex(0) EXCEPT !.text = text]
NewConstruct(c) == [NewIndex(Construct[c].fields) EXCEPT !.argc = Construct[c].param]

(* regtotal() registers, all of them void.  family is history: what the    *)
(* function value was made for, whatever it is reassigned to.              *)
regtotal(func) == Function[func].argc + Function[func].regc
NewValue(func) ==
    [NewIndex(regtotal(func)) EXCEPT !.func = func, !.family = func, !.argc = Function[func].argc]

NewFrame(type, parent, pid) ==
    [type |-> type, parent |-> parent, proc |-> pid, cfstate |-> "READY",
     pc |-> 1, live |-> TRUE, context |-> EmptyContext,
     value |-> 0, func |-> "none", result |-> NoPlace, call |-> 0, promised |-> NoPlace]
NewCall(parent, pid, res, v, func) ==
    [NewFrame("call", parent, pid) EXCEPT !.value = v, !.func = func, !.result = res]
NewPath(parent, pid, call, pc, place) ==
    [NewFrame("path", parent, pid) EXCEPT !.call = call, !.pc = pc, !.promised = place]

NewProcess(call) == [worker |-> 0, call |-> call, recv |-> <<>>]

(* stdin and stdout are context variables of the first frame.              *)
stdin == 3
stdout == 4
CONST_REGISTER == 5 \* of the constants, \void only
NewVariable(x) == [NewIndex(1) EXCEPT !.regs[1] = x]

Init ==
    /\ program \in Main /\ fifo \in BOOLEAN
    /\ process = <<NewProcess(1)>> /\ distributor = 1
    /\ value = <<[NewIndex(NumWorkers + 1) EXCEPT !.regs[1] = Num(0)], NewValue(program),
                 NewVariable(Stream(0)), NewVariable(Stream(1)), NewIndex(1)>>
    /\ frame = <<[NewCall(0, 1, <<1, 0, 0>>, 2, program)
                    EXCEPT !.context = [stdin |-> stdin, stdout |-> stdout]]>>
    /\ current = [w \in Worker |-> None] /\ at = [w \in Worker |-> "fetch"]
    /\ fresh = [w \in Worker |-> <<>>] /\ stale = [w \in Worker |-> <<>>]
    /\ io = [f \in {} |-> 0] /\ known = [w \in Worker |-> Known] /\ broken = "none"

(* The process of a frame, the worker it is on.                            *)
proc(f) == process[frame[f].proc]
on(f) == proc(f).worker

-----------------------------------------------------------------------------
(***************************************************************************)
(* Places.  A lookup finds a place, or it stops: at a promise, a failure,  *)
(* a register that is not there, a NULL pointer, a place that dangles, or  *)
(* a value of another type that is taken for one that owns registers.      *)
(***************************************************************************)
(* Defect: the call of a path is taken to be the frame that forked it.     *)
function_call_maker(f) == IF frame[f].type = "call" THEN f ELSE frame[f].parent

function_call(f) == IF frame[f].type = "call" THEN f ELSE frame[f].call

In(heap, place) == heap[place[1]].regs[place[2] + 1]
Alive(heap, place) == heap[place[1]].moves = place[3]
There(heap, v, r) == <<v, r, heap[v].moves>>
At(place) == In(value, place)

Found(place) == [stop |-> "none", place |-> place]
Stopped(why, place) == [stop |-> why, place |-> place]
Present(heap, place) == IF Alive(heap, place) THEN Found(place) ELSE Stopped("dangling", place)

(* A loop of references, which the code follows for ever, is not modelled: *)
(* MaxRefs cuts it.                                                        *)
Pursue(heap, found) ==
    IF found.stop = "none" /\ In(heap, found.place)[1] = "Ref"
    THEN Present(heap, In(heap, found.place)[2]) ELSE found
follow_ref(heap, place) ==
    LET chain[n \in 0 .. MaxRefs] == IF n = 0 THEN Present(heap, place) ELSE Pursue(heap, chain[n - 1])
    IN  chain[MaxRefs]
Followed(found) == IF found.stop = "none" THEN follow_ref(value, found.place) ELSE found

StopsAt(type, why, found) ==
    IF found.stop = "none" /\ At(found.place)[1] = type THEN Stopped(why, found.place) ELSE found
readable_failed_value(found) == StopsAt("Promise", "promise", found)
readable_value(found) == StopsAt("Failure", "failure", readable_failed_value(found))

(* What owns registers; and register j of x.                               *)
IsIndex(x) == x[1] \in {"Function", "Tuple"} \/ Len(x) = 3
NullData == {"Void", "PatternVar"}
Part(x, j, missing) ==
    IF x[1] \in NullData THEN Stopped("null", NoPlace)
    ELSE IF ~IsIndex(x) THEN Stopped("undefined", NoPlace)
    ELSE IF j >= Len(value[x[2]].regs) THEN Stopped(missing, NoPlace)
    ELSE Found(There(value, x[2], j))

Register(f, i) == There(value, frame[function_call(f)].value, i)
Result(f) ==
    LET place == frame[function_call(f)].result
    IN  IF place = NoPlace THEN Stopped("null", NoPlace) ELSE Present(value, place)
Drain(f) == Found(<<1, on(f), 0>>)
Constant == Found(<<CONST_REGISTER, 0, 0>>)

(* The code goes on with the NULL it gets for a register that is not       *)
(* there, or whose owner is promised or has failed.                        *)
Within(found, j) ==
    IF found.stop = "none" THEN Part(At(found.place), j, "null")
    ELSE IF found.stop = "dangling" THEN found
    ELSE Stopped("null", NoPlace)
secondary_reg(prim, j) == Within(readable_value(Followed(Found(prim))), j)

(* Of an operand, prim is the register it names, or that of the owner.     *)
read_reg(f, r, prim) ==
    CASE r[1] = "reg" -> Found(prim)
      [] r[1] = "sub" -> secondary_reg(prim, r[3])
      [] OTHER -> Result(f)

(* Here the owner is not behind a reference, nor is the result.            *)
Direct(r, prim) ==
    IF r[1] = "reg" THEN Found(prim)
    ELSE IF At(prim)[1] = "Failure" THEN Stopped("failure", prim)
    ELSE Part(At(prim), r[3], "register404")
dstvalue(f, r, prim) == IF r = result THEN Result(f) ELSE Followed(Direct(r, prim))

(* A reference to nothing ends the program here, not when it is followed.  *)
refvalue(r, prim) ==
    CASE r[1] = "reg" -> Found(prim)
      [] r[1] = "sub" -> Part(At(prim), r[3], "undefined")
      [] OTHER -> Stopped("null", NoPlace)

(* RETURN_FAILURE looks before a reference is followed.                    *)
returns_failure(r, prim) == r[1] = "reg" /\ At(prim)[1] = "Failure"

(* The registers an instruction looks up, in this order, and how.          *)
Instruction(f) == Function[frame[function_call(f)].func].code[frame[f].pc]
Arithmetic == {"iadd", "isub", "imult", "idiv"}
Comparison == {"eq", "noteq", "gt", "gteq", "lt", "lteq"}
Checked == {"lfunc", "lconstruct", "patternvar"}
Operands(op) ==
    CASE op \in Arithmetic \cup Comparison -> <<"a", "b", "dst">>
      [] op \in {"copy", "move", "stracc", "fieldget", "fieldset"} -> <<"src", "dst">>
      [] op \in {"if", "ifnot", "iffail", "ifnotfail"} -> <<"src">>
      [] op \in {"ref", "call", "newproc"} -> <<"dst", "src">>
      [] op = "match" -> <<"dst", "pattern", "src">>
      [] op = "matchargs" -> <<"pattern", "dst">>
      [] op \in {"goto", "return", "loadobj", "loadtype"} -> <<>>
      [] OTHER -> <<"dst">>
Mode(op, name) ==
    IF op \in {"iffail", "ifnotfail"} THEN "failed"
    ELSE IF op = "ref" THEN "ref"
    ELSE IF op = "stracc" /\ name = "dst" THEN "appended"
    ELSE IF op = "matchargs" /\ name = "pattern" THEN "src"
    ELSE IF \/ op \in Checked \cup {"match", "matchargs", "newproc", "fork", "recv"}
            \/ op \in Arithmetic /\ name = "dst"
            \/ op = "call" /\ name = "src"
         THEN "dst"
    ELSE IF name \in {"a", "b", "src"} THEN "read" ELSE "write"
constant(f, mode) ==
    CASE mode \in {"read", "src"} -> Constant
      [] mode = "failed" -> Stopped("register404", NoPlace)
      [] OTHER -> Drain(f)
Readable(mode, found) ==
    CASE mode = "read" -> readable_value(found)
      [] mode = "failed" -> readable_failed_value(found)
      [] mode = "write" -> found
Lookup(f, r, mode, prim) ==
    IF mode = "ref" THEN refvalue(r, prim)
    ELSE IF r = void THEN constant(f, mode)
    ELSE IF mode = "appended" /\ returns_failure(r, prim) THEN Stopped("failure", prim)
    ELSE IF mode \in {"src", "dst", "appended"} THEN dstvalue(f, r, prim)
    ELSE Readable(mode, Followed(read_reg(f, r, prim)))
Primary(f, r) == IF r[1] \in {"reg", "sub"} THEN Register(f, r[2]) ELSE NoPlace
Look(f, i, name) == Lookup(f, i[name], Mode(i.op, name), Primary(f, i[name]))
Target(f, i, name) == Look(f, i, name).place
Value(f, i, name) == At(Target(f, i, name))
Put(place, x) == [value EXCEPT ![place[1]].regs[place[2] + 1] = x]

(* What an object file keeps to: an instruction names registers of its own *)
(* function, functions and constructs that are there, and is followed by   *)
(* one of the same function, as are the targets of the jumps.  An override *)
(* is known by the function of its protocol, which is no override, and is  *)
(* loaded under no name of its own.                                        *)
Named(n, r) ==
    \/ r \in {result, void}
    \/ r[1] \in {"reg", "sub"} /\ r[2] \in 0 .. regtotal(n) - 1 /\ (r[1] = "sub" => r[3] \in Nat)
Loadable(n) == n \in DOMAIN Function /\ Function[n].context # "override"
Module == {Function[n].module : n \in DOMAIN Function}

ASSUME FunctionAssumption ==
    \A n \in DOMAIN Function :
        LET o == Function[n]
        IN  /\ n # "none" /\ o.argc \in Nat /\ o.regc \in Nat
            /\ 1 \in DOMAIN o.code
            /\ o.context = "override" => Loadable(o.family) /\ Function[o.family].context # "traditional"
            /\ o.c \in {"send", "open", "write"} => o.context = "traditional" /\ o.argc = 2
            /\ o.c = "getline" => o.context = "traditional" /\ o.argc = 1
            /\ o.c = "str" => o.argc = 1
ASSUME OverrideAssumption ==
    /\ Override \in Seq(DOMAIN Function)
    /\ \A k \in DOMAIN Override : Function[Override[k]].context = "override"
ASSUME ConstructAssumption ==
    \A c \in DOMAIN Construct :
        /\ Construct[c].module \in Module /\ Construct[c].fields \in Nat
        /\ Construct[c].param \in 0 .. Construct[c].fields
        /\ Construct[c].type \notin {"Void", "Bool", "Int", "Failure", "Promise", "PatternVar", "Hashtag",
                                     "Ref", "String", "Stream", "Tuple", "Function"}
ASSUME CodeAssumption ==
    \A n \in DOMAIN Function : \A k \in DOMAIN Function[n].code :
        LET i == Function[n].code[k]
        IN  /\ \A name \in Range(Operands(i.op)) : Named(n, i[name])
            /\ i.op \notin {"return", "goto"} => k + 1 \in DOMAIN Function[n].code
            /\ i.op \in {"goto", "fork", "if", "ifnot", "iffail", "ifnotfail", "match", "matchargs"} =>
                  k + i.jump \in DOMAIN Function[n].code
            /\ i.op = "consti" => i.n \in Int
            /\ i.op = "ctuple" => i.size \in Nat
            /\ i.op = "lconstruct" => i.cons \in DOMAIN Construct
            /\ i.op = "lfunc" => Loadable(i.func)
            /\ i.op = "loadobj" => i.module \in Module
ASSUME MainAssumption ==
    /\ \A n \in Main : Loadable(n) /\ Function[n].c = "none" /\ Function[n].argc = 0
    /\ Known \subseteq Module

(* The lookup that stops an instruction, when there is one.                *)
Looked(f, i) == IF i.op = "recv" /\ proc(f).recv = <<>> THEN <<>> ELSE Operands(i.op)
Stopping(f, i) == {k \in DOMAIN Looked(f, i) : Look(f, i, Looked(f, i)[k]).stop # "none"}
Earliest(places) == {k \in places : \A l \in places : k <= l}
Stops(f, i) == {Looked(f, i)[k] : k \in Earliest(Stopping(f, i))}
Runs(f) == on(f) # 0 /\ at[on(f)] = "fetch" /\ current[on(f)] = f /\ broken = "none"

-----------------------------------------------------------------------------
(***************************************************************************)
(* gotowork(): after an instruction come the streams that are ready, then  *)
(* the switch on the frame that is current by then.                        *)
(***************************************************************************)
findtask(w) ==
    LET round == IF fresh[w] = <<>> THEN stale[w] ELSE fresh[w]
    IN  /\ current' = [current EXCEPT ![w] = IF round = <<>> THEN None ELSE Head(round)]
        /\ fresh' = [fresh EXCEPT ![w] = IF round = <<>> THEN <<>> ELSE Tail(round)]
        /\ stale' = [stale EXCEPT ![w] = IF fresh[w] = <<>> THEN <<>> ELSE @]

idle(w) ==
    /\ at[w] = "fetch" /\ current[w] = None /\ broken = "none" /\ fresh[w] \o stale[w] # <<>>
    /\ findtask(w)
    /\ UNCHANGED <<program, fifo, process, distributor, value, frame, at, io, known, broken>>

(* A line that was read goes where getline has been told to, some time     *)
(* ago.  Only a descriptor that epoll knows of is ever ready.              *)
iopop(f) ==
    /\ f \in DOMAIN io /\ io[f].registered /\ at[on(f)] = "io" /\ broken = "none"
    /\ IF io[f].place = NoPlace THEN UNCHANGED <<value, broken>>
       ELSE IF Alive(value, io[f].place)
       THEN /\ value' = Append(Put(io[f].place, String(Len(value) + 1)), NewString(<<"line">>))
            /\ UNCHANGED broken
       ELSE broken' = "dangling" /\ UNCHANGED value
    /\ io' = [g \in DOMAIN io \ {f} |-> io[g]]
    /\ frame' = [frame EXCEPT ![f].cfstate = "READY"]
    /\ stale' = [stale EXCEPT ![on(f)] = Append(@, f)]
    /\ UNCHANGED <<program, fifo, process, distributor, current, fresh, at, known>>

iowork_done(w) ==
    /\ at[w] = "io" /\ broken = "none"
    /\ IF current[w] = None THEN findtask(w) ELSE UNCHANGED queue
    /\ at' = [at EXCEPT ![w] = "switch"]
    /\ broken' = IF current'[w] = None THEN "null" ELSE broken
    /\ UNCHANGED <<program, fifo, process, distributor, value, frame, io, known>>

Switch(w, states) ==
    /\ at[w] = "switch" /\ broken = "none" /\ frame[current[w]].cfstate \in states
    /\ at' = [at EXCEPT ![w] = "fetch"]

switch_ready(w) ==
    /\ Switch(w, {"READY"})
    /\ UNCHANGED <<program, fifo, process, distributor, value, frame, queue, io, known, broken>>

(* Defect: a frame that waits is forgotten.                                *)
switch_wait_drops(w) ==
    /\ Switch(w, {"PEERWAIT", "IOWAIT"})
    /\ current' = [current EXCEPT ![w] = None]
    /\ UNCHANGED <<program, fifo, process, distributor, value, frame, fresh, stale, io, known, broken>>

(* Nothing makes a frame READY again that has waited for a promise, or     *)
(* that has used a FileStream: it comes here after every instruction.      *)
switch_wait(w) ==
    /\ Switch(w, {"PEERWAIT", "IOWAIT"})
    /\ stale' = [stale EXCEPT ![w] = Append(@, current[w])]
    /\ current' = [current EXCEPT ![w] = None]
    /\ UNCHANGED <<program, fifo, process, distributor, value, frame, fresh, io, known, broken>>

(* A frame that ends before its paths is what Worker's run                 *)
(* worker_unjoined_fork is about; the model stops there.  A frame takes    *)
(* its context variables with it.                                          *)
Forks(f) == {g \in Live : frame[g].type = "path" /\ frame[g].parent = f}
Freed(f) ==
    [v \in DOMAIN value |->
        IF v \in Range(frame[f].context) THEN [value[v] EXCEPT !.regs[1] = Void, !.moves = @ + 1]
        ELSE value[v]]
finish_frame(w) ==
    /\ Switch(w, {"COMPLETE", "FAILED"})
    /\ LET f == current[w]
       IN  IF Forks(f) # {} THEN broken' = "unjoined" /\ UNCHANGED <<value, frame, queue>>
           ELSE /\ frame' = [frame EXCEPT ![f].live = FALSE]
                /\ value' = Freed(f)
                /\ IF frame[f].type = "path" THEN findtask(w)
                   ELSE current' = [current EXCEPT ![w] = frame[f].parent] /\ UNCHANGED <<fresh, stale>>
                /\ UNCHANGED broken
    /\ UNCHANGED <<program, fifo, process, distributor, io, known>>

gotowork(w) ==
    \/ idle(w) \/ iowork_done(w) \/ switch_ready(w) \/ switch_wait(w) \/ finish_frame(w)

(* The main thread hands the oldest new process to the next worker.        *)
distribute_work ==
    /\ broken = "none"
    /\ \E p \in DOMAIN process :
          /\ process[p].worker = 0 /\ \A q \in 1 .. p - 1 : process[q].worker # 0
          /\ process' = [process EXCEPT ![p].worker = distributor]
          /\ stale' = [stale EXCEPT ![distributor] = Append(@, process[p].call)]
    /\ distributor' = IF distributor = NumWorkers THEN 1 ELSE distributor + 1
    /\ UNCHANGED <<program, fifo, value, frame, current, fresh, at, io, known, broken>>

With(m, key, x) == [k \in DOMAIN m \cup {key} |-> IF k = key THEN x ELSE m[k]]
Goto(f, pc) == [frame EXCEPT ![f].pc = pc]
Next_pc(f) == Goto(f, frame[f].pc + 1)
Turned(f) == at' = [at EXCEPT ![on(f)] = "io"] /\ UNCHANGED <<program, fifo, distributor>>
Executed(f) == Turned(f) /\ UNCHANGED <<process, broken>>
Becomes(f, heap) ==
    /\ value' = heap /\ frame' = Next_pc(f) /\ Executed(f)
    /\ UNCHANGED <<queue, io, known>>
Write(f, place, x) == Becomes(f, Put(place, x))

(* The program ends, or nobody can say how it goes on.                     *)
Breaks(f, how) ==
    /\ broken' = how
    /\ UNCHANGED <<program, fifo, process, distributor, value, frame, queue, at, io, known>>

(* The failure becomes the result of the function call.  The result of a   *)
(* process that newproc has started is NULL, and nobody looks.             *)
Fail(f, x) ==
    /\ IF Result(f).stop = "none" THEN value' = Put(Result(f).place, x) /\ UNCHANGED broken
       ELSE broken' = Result(f).stop /\ UNCHANGED value
    /\ Turned(f) /\ UNCHANGED process

(* A register holds a promise: the frame waits.  It holds a failure: the   *)
(* function call has failed.  The instruction is not executed.             *)
read_promise(f, i) ==
    /\ \E name \in Stops(f, i) : Look(f, i, name).stop = "promise"
    /\ frame' = [frame EXCEPT ![f].cfstate = "PEERWAIT"] /\ Executed(f)
    /\ UNCHANGED <<value, queue, io, known>>

(* Defect: the failure is not passed on.                                   *)
read_failure_silent(f, i) ==
    /\ \E name \in Stops(f, i) :
          Look(f, i, name).stop = "failure" /\ Mode(i.op, name) \in {"read", "appended"}
    /\ frame' = [frame EXCEPT ![function_call(f)].cfstate = "FAILED"] /\ Executed(f)
    /\ UNCHANGED <<value, queue, io, known>>

read_failure(f, i) ==
    /\ \E name \in Stops(f, i) :
          /\ Look(f, i, name).stop = "failure" /\ Mode(i.op, name) \in {"read", "appended"}
          /\ Fail(f, Value(f, i, name))
    /\ frame' = [frame EXCEPT ![function_call(f)].cfstate = "FAILED"]
    /\ UNCHANGED <<queue, io, known>>

(* These look whether they were given a register; by then lfunc and        *)
(* lconstruct have found their module.                                     *)
Noticed(f, i, name) ==
    /\ Look(f, i, name).stop \in {"failure", "register404"}
    /\ i.op \in Checked \/ Mode(i.op, name) = "failed"
Finds(i) ==
    CASE i.op = "lfunc" -> {Function[i.func].module}
      [] i.op = "lconstruct" -> {Construct[i.cons].module}
      [] OTHER -> {}
register404(f, i) ==
    /\ \E name \in Stops(f, i) :
          /\ Noticed(f, i, name)
          /\ Fail(f, IF i.op = "patternvar" /\ Look(f, i, name).stop = "failure" THEN Value(f, i, name)
                     ELSE Failure("register404"))
    /\ frame' = [frame EXCEPT ![f].cfstate = "FAILED"]
    /\ known' = [known EXCEPT ![on(f)] = @ \cup Finds(i)]
    /\ UNCHANGED <<queue, io>>

(* patternvar does not even fail when it is given no register: it comes    *)
(* again.                                                                  *)
patternvar_null(f, i) ==
    /\ i.op = "patternvar"
    /\ \E name \in Stops(f, i) : Look(f, i, name).stop = "null" /\ i[name][1] = "result"
    /\ Executed(f)
    /\ UNCHANGED <<value, frame, queue, io, known>>

(* Everybody else follows the NULL pointer.                                *)
follow_null(f, i) ==
    \E name \in Stops(f, i) :
        LET stop == Look(f, i, name).stop
        IN  /\ stop # "promise" /\ ~Noticed(f, i, name)
            /\ stop = "failure" => Mode(i.op, name) \notin {"read", "appended"}
            /\ ~(i.op = "patternvar" /\ stop = "null" /\ i[name][1] = "result")
            /\ Breaks(f, IF stop \in {"dangling", "undefined"} THEN stop ELSE "null")

-----------------------------------------------------------------------------
(***************************************************************************)
(* Instructions that have found their registers.                           *)
(***************************************************************************)
execute_consti(f, i) ==
    /\ i.op = "consti"
    /\ Write(f, Target(f, i, "dst"), Num(i.n))

(* A register is to point at a new object.                                 *)
WriteNew(f, i, place, x, object) ==
    /\ value' = Append(Put(place, x), object) /\ frame' = Next_pc(f) /\ Executed(f)
    /\ known' = [known EXCEPT ![on(f)] = @ \cup Finds(i)]
    /\ UNCHANGED <<queue, io>>

execute_consts(f, i) ==
    /\ i.op = "consts"
    /\ WriteNew(f, i, Target(f, i, "dst"), String(Len(value) + 1), NewString(<<i.s>>))

execute_consthash(f, i) ==
    /\ i.op = "consthash"
    /\ Write(f, Target(f, i, "dst"), Hashtag(i.s))

execute_ctuple(f, i) ==
    /\ i.op = "ctuple"
    /\ WriteNew(f, i, Target(f, i, "dst"), Tuple(Len(value) + 1), NewIndex(i.size))

(* find_module() remembers the module for this worker.                     *)
execute_lconstruct(f, i) ==
    /\ i.op = "lconstruct"
    /\ LET c == i.cons
       IN  WriteNew(f, i, Target(f, i, "dst"), construct(Len(value) + 1, c), NewConstruct(c))

execute_loadfunc(f, i) ==
    /\ i.op = "lfunc"
    /\ WriteNew(f, i, Target(f, i, "dst"), function_value(Len(value) + 1), NewValue(i.func))

execute_loadobj(f, i) ==
    /\ i.op = "loadobj"
    /\ known' = [known EXCEPT ![on(f)] = @ \cup {i.module}]
    /\ frame' = Next_pc(f) /\ Executed(f)
    /\ UNCHANGED <<value, queue, io>>

execute_cfailure(f, i) ==
    /\ i.op = "cfailure"
    /\ Write(f, Target(f, i, "dst"), Failure(i.tag))

(* Two registers may then point at the same thing, the text of a string    *)
(* included.                                                               *)
execute_copy(f, i) ==
    /\ i.op = "copy"
    /\ Write(f, Target(f, i, "dst"), Value(f, i, "src"))

execute_move(f, i) ==
    /\ i.op = "move"
    /\ Write(f, Target(f, i, "dst"), Value(f, i, "src"))

execute_patternvar(f, i) ==
    /\ i.op = "patternvar"
    /\ Write(f, Target(f, i, "dst"), PatternVar)

(* A context variable is looked for in the callers; when nobody has it, it *)
(* is made in this frame.                                                  *)
get_context(f, name) ==
    LET look[g \in 0 .. Len(frame)] ==
            IF g = 0 THEN 0
            ELSE IF name \in DOMAIN frame[g].context THEN frame[g].context[name]
            ELSE look[frame[g].parent]
    IN  look[f]

execute_lcontext(f, i) ==
    /\ i.op = "lcontext"
    /\ LET name == i.name
           v == get_context(f, name)
           new == Len(value) + 1
       IN  IF v # 0 THEN Write(f, Target(f, i, "dst"), Ref(There(value, v, 0)))
           ELSE /\ value' = Append(Put(Target(f, i, "dst"), Ref(<<new, 0, 0>>)), NewVariable(Void))
                /\ frame' = [Next_pc(f) EXCEPT ![f].context = With(@, name, new)]
                /\ Executed(f)
                /\ UNCHANGED <<queue, io, known>>

(* The reference leads to the register itself, whatever is in it.          *)
execute_ref(f, i) ==
    /\ i.op = "ref"
    /\ Write(f, Target(f, i, "dst"),
             IF Target(f, i, "dst") = Target(f, i, "src") THEN Value(f, i, "dst")
             ELSE Ref(Target(f, i, "src")))

execute_binaryop(f, i) ==
    \E op \in {"iadd", "isub", "imult"} :
        /\ i.op = op
        /\ LET a == Value(f, i, "a")
               b == Value(f, i, "b")
               number == CASE op = "iadd" -> a[2] + b[2]
                           [] op = "isub" -> a[2] - b[2]
                           [] op = "imult" -> a[2] * b[2]
           IN  Write(f, Target(f, i, "dst"),
                     IF a[1] # "Int" \/ b[1] # "Int" THEN Failure("type") ELSE Num(number))

(* Towards zero, as C++ divides.  Nobody looks at the types here, nor for  *)
(* a condition: another type's data is taken for a number, or a Boolean.   *)
Magnitude(n) == IF n < 0 THEN -n ELSE n
Quotient(a, b) ==
    LET q == Magnitude(a) \div Magnitude(b) IN IF a < 0 <=> b < 0 THEN q ELSE -q
execute_divide(f, i) ==
    /\ i.op = "idiv"
    /\ LET a == Value(f, i, "a")
           b == Value(f, i, "b")
       IN  IF a[1] # "Int" \/ b[1] # "Int" THEN Breaks(f, "undefined")
           ELSE Write(f, Target(f, i, "dst"),
                      IF b[2] = 0 THEN Failure("divideby0") ELSE Num(Quotient(a[2], b[2])))

Branches(f, i, stays) ==
    /\ frame' = IF stays THEN Next_pc(f) ELSE Goto(f, frame[f].pc + i.jump)
    /\ Executed(f)
    /\ UNCHANGED <<value, queue, io, known>>

execute_iffail(f, i) ==
    /\ i.op = "iffail" \/ i.op = "ifnotfail"
    /\ Branches(f, i, (Value(f, i, "src")[1] = "Failure") = (i.op = "iffail"))

execute_goto(f, i) == i.op = "goto" /\ Branches(f, i, FALSE)

execute_if(f, i) ==
    /\ i.op = "if" \/ i.op = "ifnot"
    /\ IF Value(f, i, "src")[1] = "Bool" THEN Branches(f, i, Value(f, i, "src")[2] = (i.op = "if"))
       ELSE Breaks(f, "undefined")

(* Which of two types, strings or names is the lesser is left out.  What a *)
(* construct is made of does not count, and what has no order (a hashtag,  *)
(* a tuple) is equal.                                                      *)
qbrt_compare(a, b) ==
    CASE a[1] = "PatternVar" -> 0
      [] a[1] # "PatternVar" /\ a[1] # b[1] -> 1
      [] a[1] = b[1] /\ a[1] = "Int" -> a[2] - b[2]
      [] a[1] = b[1] /\ a[1] = "Bool" -> IF a[2] = b[2] THEN 0 ELSE IF b[2] THEN -1 ELSE 1
      [] a[1] = b[1] /\ a[1] = "String" -> IF value[a[2]].text = value[b[2]].text THEN 0 ELSE 1
      [] a[1] = b[1] /\ Len(a) = 3 -> IF a[3] = b[3] THEN 0 ELSE 1
      [] OTHER -> 0

(* What is written as cmp<= is taken for cmp>=.                            *)
Compares(op, c) ==
    CASE op = "eq" -> c = 0
      [] op = "noteq" -> c # 0
      [] op = "gt" -> c > 0
      [] op = "gteq" -> c >= 0
      [] op = "lt" -> c < 0
      [] op = "lteq" -> c >= 0
execute_cmp(f, i) ==
    \E op \in Comparison :
        /\ i.op = op
        /\ LET c == qbrt_compare(Value(f, i, "a"), Value(f, i, "b"))
           IN  Write(f, Target(f, i, "dst"), Bool(Compares(op, c)))

(* Matching does not wait for promises.  qbrt_value::copy() makes a string *)
(* of its own, and leaves what it cannot copy.                             *)
Copies(x) == x[1] \in {"Void", "Int", "Bool", "String"} \/ (Len(x) = 3 /\ x[1] # "List")
Copied(heap, place, x) ==
    LET to(y) == [heap EXCEPT ![place[1]].regs[place[2] + 1] = y]
    IN  IF x[1] = "String" THEN Append(to(String(Len(heap) + 1)), NewString(heap[x[2]].text))
        ELSE IF Copies(x) THEN to(x) ELSE heap
execute_match(f, i) ==
    /\ i.op = "match"
    /\ IF qbrt_compare(Value(f, i, "pattern"), Value(f, i, "src")) = 0
       THEN Becomes(f, Copied(value, Target(f, i, "dst"), Value(f, i, "src")))
       ELSE Branches(f, i, FALSE)

(* The arguments of the call against those of a pattern; the variables of  *)
(* the pattern are copied, each as Copied says.  There is a string for     *)
(* each argument here, whether something points at it or not.  Nobody      *)
(* looks how many registers the pattern and the result have.               *)
CopiedArguments(index, pattern, given) ==
    LET copy(j, old) ==
            IF j \notin DOMAIN given \/ pattern[j] # PatternVar THEN old
            ELSE IF given[j][1] = "String" THEN String(Len(value) + j)
            ELSE IF Copies(given[j]) THEN given[j] ELSE old
        text(x) == IF x[1] = "String" THEN value[x[2]].text ELSE <<>>
    IN  [value EXCEPT ![index].regs = [r \in DOMAIN @ |-> copy(r, @[r])]]
        \o [j \in DOMAIN given |-> NewString(text(given[j]))]
Parameters(f) == 1 .. Function[frame[function_call(f)].func].argc
Passed(f, j) == follow_ref(value, Register(f, j - 1))
execute_matchargs(f, i) ==
    /\ i.op = "matchargs"
    /\ LET from == Value(f, i, "pattern")
           to == Value(f, i, "dst")
           pattern == value[from[2]].regs
           there(j) == Passed(f, j).stop = "none" /\ j <= Len(pattern)
           agree(j) == there(j) /\ qbrt_compare(pattern[j], At(Passed(f, j).place)) = 0
           written(j) == pattern[j] = PatternVar => j <= Len(value[to[2]].regs)
       IN  IF from[1] \in NullData \/ (IsIndex(from) /\ to[1] \in NullData) THEN Branches(f, i, FALSE)
           ELSE IF ~IsIndex(from) \/ ~IsIndex(to) THEN Breaks(f, "undefined")
           ELSE IF \E j \in Parameters(f) : there(j) /\ ~agree(j) /\ \A k \in 1 .. j - 1 : agree(k)
           THEN Branches(f, i, FALSE)
           ELSE IF \E j \in Parameters(f) : ~agree(j) \/ ~written(j) THEN Breaks(f, "undefined")
           ELSE Becomes(f, CopiedArguments(to[2], pattern,
                                           [j \in Parameters(f) |-> At(Passed(f, j).place)]))

(* The string itself grows, for every register that points at it.          *)
execute_stracc(f, i) ==
    /\ i.op = "stracc"
    /\ LET x == Value(f, i, "src")
           y == Value(f, i, "dst")
           more == CASE x[1] = "String" -> value[x[2]].text
                     [] x[1] = "Int" -> <<ToString(x[2])>>
                     [] OTHER -> <<>>
       IN  \/ /\ y[1] # "String"
              /\ Fail(f, Failure("type"))
              /\ frame' = [Next_pc(f) EXCEPT ![f].cfstate = "FAILED"]
              /\ UNCHANGED <<queue, io, known>>
           \/ /\ y[1] = "String"
              /\ Becomes(f, IF x[1] \in {"String", "Int"} THEN [value EXCEPT ![y[2]].text = @ \o more]
                            ELSE Put(Target(f, i, "dst"), Failure("type")))

(* Only a failure has named fields, and a failure cannot be read: nothing  *)
(* comes of these but the end of the program.                              *)
execute_fieldget(f, i) == (i.op = "fieldget" \/ i.op = "fieldset") /\ Breaks(f, "exit")

(* The path goes on behind the instruction; its maker jumps over it.       *)
Forking(f, i, pc) ==
    /\ i.op = "fork" /\ Len(frame) < MaxFrames
    /\ frame' = Append(Goto(f, frame[f].pc + i.jump),
                       NewPath(f, frame[f].proc, function_call(f), pc, Target(f, i, "dst")))
    /\ fresh' = [fresh EXCEPT ![on(f)] = Append(@, Len(frame) + 1)]
    /\ Executed(f)
    /\ UNCHANGED <<current, stale, io, known>>

(* Defect: the register keeps what it had before the fork.                 *)
execute_fork_bare(f, i) == Forking(f, i, frame[f].pc + 1) /\ UNCHANGED value

(* Defect: the path starts at its end.                                     *)
execute_fork_skips(f, i) ==
    Forking(f, i, frame[f].pc + i.jump - 1) /\ value' = Put(Target(f, i, "dst"), Promise)

execute_fork(f, i) == Forking(f, i, frame[f].pc + 1) /\ value' = Put(Target(f, i, "dst"), Promise)

(* An instruction that has no executioner.                                 *)
invalid_opcode(f, i) ==
    /\ i.op = "loadtype"
    /\ Fail(f, Failure("invalidopcode"))
    /\ frame' = [frame EXCEPT ![f].cfstate = "FAILED"]
    /\ UNCHANGED <<queue, io, known>>

(* The new process runs on the registers of the function value, which is   *)
(* taken away from whoever holds it.  Overrides are not looked for, and    *)
(* neither arguments nor promises are looked at; a C function is no        *)
(* QbrtFunction, and the pointer to it NULL.                               *)
execute_newproc(f, i) ==
    /\ i.op = "newproc"
    /\ LET func == Value(f, i, "src")
           pid == Target(f, i, "dst")
       IN  \/ func[1] # "Function" /\ Write(f, pid, Failure("type"))
           \/ func[1] = "Function" /\ Function[value[func[2]].func].c # "none" /\ Breaks(f, "null")
           \/ /\ func[1] = "Function" /\ Function[value[func[2]].func].c = "none" /\ Len(frame) < MaxFrames
              /\ process' = Append(process, NewProcess(Len(frame) + 1))
              /\ frame' = Append(Next_pc(f),
                                 NewCall(0, Len(process) + 1, NoPlace, func[2], value[func[2]].func))
              /\ value' = [Put(Target(f, i, "src"), Void)
                              EXCEPT ![pid[1]].regs[pid[2] + 1] = Num(Len(process) + 1)]
              /\ Turned(f) /\ UNCHANGED <<broken, queue, io, known>>

(* A message is an object with one register; the receiver takes what is in *)
(* it.                                                                     *)
execute_recv(f, i) ==
    /\ i.op = "recv"
    /\ \/ /\ proc(f).recv = <<>>
          /\ frame' = [frame EXCEPT ![f].cfstate = "PEERWAIT"]
          /\ UNCHANGED <<process, value>>
       \/ /\ proc(f).recv # <<>>
          /\ value' = Put(Target(f, i, "dst"), In(value, There(value, Head(proc(f).recv), 0)))
          /\ process' = [process EXCEPT ![frame[f].proc].recv = Tail(@)]
          /\ frame' = Next_pc(f)
    /\ Turned(f) /\ UNCHANGED <<broken, queue, io, known>>

execute_return(f, i) ==
    /\ i.op = "return"
    /\ frame' = [frame EXCEPT ![f].cfstate = "COMPLETE"] /\ Executed(f)
    /\ UNCHANGED <<value, queue, io, known>>

-----------------------------------------------------------------------------
(***************************************************************************)
(* The choice of an override.                                              *)
(***************************************************************************)
(* append_type(): references are not followed, a function has the types of *)
(* its arguments, and a construct whose data type has a parameter that of  *)
(* the first field that tells it, behind a comma for each before.          *)
append_type(x, inner) ==
    IF x[1] = "Function" THEN IF value[x[2]].argc = 0 THEN <<"">> ELSE inner[x[2]]
    ELSE IF Len(x) = 3 /\ Construct[x[3]].generic THEN <<x[1], "(">> \o inner[x[2]] \o <<")">>
    ELSE <<x[1]>>
Commas(n) == [k \in 1 .. n |-> ","]
TypesOf(val, inner) ==
    IF val.func # "none" THEN FlattenSeq([r \in 1 .. val.argc |-> append_type(val.regs[r], inner)])
    ELSE IF val.argc # 0 THEN Commas(val.argc - 1) \o append_type(val.regs[val.argc], inner)
    ELSE Commas(Len(val.regs) - 1)
Types[v \in DOMAIN value] == TypesOf(value[v], Types)
ValueTypes(val) == TypesOf(val, Types)

(* A type variable, "*", stands for all up to the next parenthesis.        *)
First(from) == CHOOSE k \in from : \A l \in from : k <= l
Closing(s, n) == {k \in n + 1 .. Len(s) : s[k] = ")"}
compare_types(values, params) ==
    LET same[n \in 1 .. Len(values) + 1, m \in 1 .. Len(params) + 1] ==
            IF n > Len(values) \/ m > Len(params) THEN n > Len(values) /\ m > Len(params)
            ELSE IF values[n] = params[m] THEN same[n + 1, m + 1]
            ELSE /\ params[m] = "*" /\ Closing(values, n) # {} /\ Closing(params, m) # {}
                 /\ same[First(Closing(values, n)), First(Closing(params, m))]
    IN  same[1, 1]

(* find_override(): the first that has these types in the modules that     *)
(* this worker knows.  When there is none, find_c_override() in all.       *)
Overrides(w, family, types, compiled) ==
    {k \in DOMAIN Override :
        LET o == Function[Override[k]]
        IN  /\ o.family = family /\ (o.c = "none") = compiled
            /\ IF compiled THEN compare_types(types, o.types) /\ o.module \in known[w]
               ELSE types = o.types}
find_override(w, family, types) ==
    IF Overrides(w, family, types, TRUE) # {} THEN Override[First(Overrides(w, family, types, TRUE))]
    ELSE IF Overrides(w, family, types, FALSE) # {} THEN Override[First(Overrides(w, family, types, FALSE))]
    ELSE "none"

(* Defect: a function value has as many registers as it was made with.     *)
reassign_func_bare(val, func, moves) == [val EXCEPT !.func = func]

(* The registers grow, and never shrink.  realloc() may move them.         *)
reassign_func(val, func, moves) ==
    LET grows == Len(val.regs) < regtotal(func)
    IN  [val EXCEPT !.func = func,
                    !.regs = IF grows THEN @ \o Voids(regtotal(func) - Len(@)) ELSE @,
                    !.moves = IF grows /\ moves THEN @ + 1 ELSE @]

Overridden(w, val, moves) ==
    LET over == find_override(w, val.func, ValueTypes(val))
    IN  IF over = "none" THEN val ELSE reassign_func(val, over, moves)

(* Defect: the function of the call before is where the search begins.     *)
override_function_keeps(w, val, moves) ==
    IF Function[val.func].context \in {"abstract", "default"} THEN Overridden(w, val, moves) ELSE val

(* An override is first reset to the function of the protocol.             *)
override_function(w, val, moves) ==
    IF Function[val.func].context = "traditional" THEN val
    ELSE Overridden(w, IF Function[val.func].context = "override"
                       THEN reassign_func(val, Function[val.func].family, moves) ELSE val, moves)

-----------------------------------------------------------------------------
(***************************************************************************)
(* Calls.  v is the function value that is called; from the choice of an   *)
(* override on heap is what the objects have become.  The register for the *)
(* result was found before.                                                *)
(***************************************************************************)
Argument(heap, v, r) == follow_ref(heap, There(heap, v, r))
Arguments(v) == 0 .. value[v].argc - 1
Argued(heap, v, r) == In(heap, Argument(heap, v, r).place)
BadArguments(v) ==
    {r \in Arguments(v) : Argument(value, v, r).stop # "none" \/ Argued(value, v, r)[1] = "Failure"}

(* The value called is no function, or none yet.                           *)
call_other(f, callee, out) ==
    /\ callee[1] # "Function"
    /\ Write(f, out, IF callee[1] = "Failure" THEN callee ELSE Failure("type"))

(* An argument has failed: so does the frame that calls.                   *)
qbrtcall_failed(f, v) ==
    /\ BadArguments(v) # {}
    /\ LET r == First(BadArguments(v))
       IN  IF Argument(value, v, r).stop # "none" THEN Breaks(f, "dangling")
           ELSE /\ Fail(f, Argued(value, v, r))
                /\ frame' = [Next_pc(f) EXCEPT ![f].cfstate = "FAILED"]
                /\ UNCHANGED <<queue, io, known>>

qbrtcall_abstract(f, v, heap) ==
    /\ Function[heap[v].func].context = "abstract"
    /\ value' = heap
    /\ frame' = [Next_pc(f) EXCEPT ![f].cfstate = "FAILED"] /\ Executed(f)
    /\ UNCHANGED <<queue, io, known>>

(* The arguments or the register for the result may be in what has moved.  *)
Dangles(v, heap, out) ==
    (\E r \in Arguments(v) : Argument(heap, v, r).stop # "none") \/ ~Alive(heap, out)
Calls_c(v, heap, out, names) == Function[heap[v].func].c \in names /\ ~Dangles(v, heap, out)
core_dangling(f, v, heap, out) ==
    /\ Function[heap[v].func].c # "none" /\ Dangles(v, heap, out)
    /\ Breaks(f, "dangling")

Outputs(heap, out, x) == [heap EXCEPT ![out[1]].regs[out[2] + 1] = x]
OutputsText(heap, out, text) == Append(Outputs(heap, out, String(Len(heap) + 1)), NewString(text))

(* core_str_from_int(), core_str_from_str().                               *)
core_str(f, v, heap, out) ==
    /\ Calls_c(v, heap, out, {"str"})
    /\ LET x == Argued(heap, v, 0)
       IN  Becomes(f, OutputsText(heap, out,
                                  IF x[1] = "Int" THEN <<ToString(x[2])>> ELSE heap[x[2]].text))

(* What is printed is left out; nothing is written to the result.          *)
core_print(f, v, heap, out) ==
    /\ Calls_c(v, heap, out, {"print"})
    /\ Becomes(f, heap)

core_pid(f, v, heap, out) ==
    /\ Calls_c(v, heap, out, {"pid", "wid"})
    /\ LET id == IF Function[heap[v].func].c = "pid" THEN frame[f].proc ELSE on(f)
       IN  Becomes(f, Outputs(heap, out, Num(id)))

(* send_msg(): the message is a copy.  A process is never taken out of     *)
(* Application::recv; what is sent to a pid that was never given is lost.  *)
core_send(f, v, heap, out) ==
    /\ Calls_c(v, heap, out, {"send"})
    /\ LET pid == Argued(heap, v, 0)
           mail == Append(heap, NewIndex(1))
       IN  IF pid[1] = "Int" /\ pid[2] \in DOMAIN process
           THEN /\ value' = Copied(mail, <<Len(mail), 0, 0>>, Argued(heap, v, 1))
                /\ process' = [process EXCEPT ![pid[2]].recv = Append(@, Len(mail))]
           ELSE value' = heap /\ UNCHANGED process
    /\ frame' = Next_pc(f) /\ Turned(f)
    /\ UNCHANGED <<broken, queue, io, known>>

(* A file is a FileStream.  One that cannot be opened ends the program.    *)
core_open(f, v, heap, out) ==
    /\ Calls_c(v, heap, out, {"open"})
    /\ IF Argued(heap, v, 0)[1] # "String" \/ Argued(heap, v, 1)[1] # "String" THEN Breaks(f, "exit")
       ELSE Becomes(f, Outputs(heap, out, Stream(2))) \/ Breaks(f, "null")

(* A FileStream reads or writes at once, and leaves the frame in IOWAIT.   *)
ByteStream(x) == fifo /\ x[2] \in {0, 1}
handle(f, heap) ==
    /\ value' = heap /\ frame' = [Next_pc(f) EXCEPT ![f].cfstate = "IOWAIT"] /\ Executed(f)
    /\ UNCHANGED <<queue, io, known>>

(* A ByteStream is left to iowork().  The second frame of a worker that    *)
(* waits for a descriptor is not registered: epoll_ctl() fails, and nobody *)
(* looks.                                                                  *)
iopush(f, heap, fd, place) ==
    /\ value' = heap
    /\ LET watched == \E g \in DOMAIN io : on(g) = on(f) /\ io[g].fd = fd /\ io[g].registered
       IN  io' = With(io, f, [fd |-> fd, place |-> place, registered |-> ~watched])
    /\ frame' = [Next_pc(f) EXCEPT ![f].cfstate = "IOWAIT"] /\ Executed(f)
    /\ current' = [current EXCEPT ![on(f)] = None]
    /\ UNCHANGED <<fresh, stale, known>>

core_getline(f, v, heap, out) ==
    /\ Calls_c(v, heap, out, {"getline"})
    /\ LET stream == Argued(heap, v, 0)
       IN  IF stream[1] # "Stream" THEN Breaks(f, "exit")
           ELSE IF ByteStream(stream) THEN iopush(f, heap, stream[2], out)
           ELSE handle(f, OutputsText(heap, out, <<"line">>))

core_write(f, v, heap, out) ==
    /\ Calls_c(v, heap, out, {"write"})
    /\ LET stream == Argued(heap, v, 0)
       IN  IF stream[1] # "Stream" \/ Argued(heap, v, 1)[1] # "String" THEN Breaks(f, "exit")
           ELSE IF ByteStream(stream) THEN iopush(f, heap, stream[2], NoPlace)
           ELSE handle(f, heap)

(* The new call runs on the registers of the function value, unless an     *)
(* argument is of another type than the function says.                     *)
TypeMatches(heap, v, r) ==
    /\ Argument(heap, v, r).stop = "none"
    /\ Function[heap[v].func].params[r + 1] \in {"*", Argued(heap, v, r)[1]}
Mismatches(heap, v) == {r \in Arguments(v) : ~TypeMatches(heap, v, r)}
Calling(f, v, heap) == Function[heap[v].func].context # "abstract" /\ Function[heap[v].func].c = "none"
qbrtcall(f, v, heap, out) ==
    /\ Calling(f, v, heap) /\ Mismatches(heap, v) = {} /\ Len(frame) < MaxFrames
    /\ value' = heap
    /\ frame' = Append(Next_pc(f), NewCall(f, frame[f].proc, out, v, heap[v].func))
    /\ current' = [current EXCEPT ![on(f)] = Len(frame) + 1]
    /\ Executed(f)
    /\ UNCHANGED <<fresh, stale, io, known>>
qbrtcall_mismatch(f, v, heap) ==
    /\ Calling(f, v, heap) /\ Mismatches(heap, v) # {}
    /\ LET r == First(Mismatches(heap, v))
       IN  Breaks(f, IF Argument(heap, v, r).stop # "none" THEN "dangling" ELSE "exit")

execute_call(f, i) ==
    /\ i.op = "call"
    /\ \E callee \in {Value(f, i, "src")}, out \in {Target(f, i, "dst")} :
         \/ call_other(f, callee, out)
         \/ /\ callee[1] = "Function"
            /\ \/ qbrtcall_failed(f, callee[2])
               \/ /\ BadArguments(callee[2]) = {}
                  /\ \E moves \in BOOLEAN :
                     \E heap \in {[value EXCEPT ![callee[2]] = override_function(on(f), @, moves)]} :
                        \/ qbrtcall_abstract(f, callee[2], heap)
                        \/ core_dangling(f, callee[2], heap, out)
                        \/ core_str(f, callee[2], heap, out)
                        \/ core_print(f, callee[2], heap, out)
                        \/ core_pid(f, callee[2], heap, out)
                        \/ core_send(f, callee[2], heap, out)
                        \/ core_open(f, callee[2], heap, out)
                        \/ core_getline(f, callee[2], heap, out)
                        \/ core_write(f, callee[2], heap, out)
                        \/ qbrtcall(f, callee[2], heap, out)
                        \/ qbrtcall_mismatch(f, callee[2], heap)

execute_instruction(f) ==
    /\ Runs(f)
    /\ LET i == Instruction(f)
       IN  \/ read_promise(f, i) \/ read_failure(f, i) \/ register404(f, i)
           \/ patternvar_null(f, i) \/ follow_null(f, i)
           \/ /\ Stops(f, i) = {}
              /\ \/ execute_consti(f, i) \/ execute_consts(f, i) \/ execute_consthash(f, i)
                 \/ execute_ctuple(f, i) \/ execute_lconstruct(f, i) \/ execute_cfailure(f, i)
                 \/ execute_copy(f, i) \/ execute_move(f, i) \/ execute_patternvar(f, i)
                 \/ execute_ref(f, i) \/ execute_lcontext(f, i) \/ execute_binaryop(f, i)
                 \/ execute_divide(f, i) \/ execute_cmp(f, i) \/ execute_goto(f, i) \/ execute_if(f, i)
                 \/ execute_iffail(f, i) \/ execute_match(f, i) \/ execute_matchargs(f, i)
                 \/ execute_stracc(f, i) \/ execute_fieldget(f, i) \/ execute_fork(f, i)
                 \/ execute_loadfunc(f, i) \/ execute_loadobj(f, i) \/ invalid_opcode(f, i)
                 \/ execute_return(f, i) \/ execute_call(f, i) \/ execute_newproc(f, i)
                 \/ execute_recv(f, i)

Ended == Live = {}
Next ==
    \/ \E w \in Worker : gotowork(w)
    \/ \E f \in DOMAIN frame : execute_instruction(f)
    \/ \E f \in DOMAIN io : iopop(f)
    \/ distribute_work

(* The threads run: a worker that has something to do takes a step.  This  *)
(* is weak fairness, with what enables a step of the worker written out.   *)
(* A stream that is waited for is ready some day.                          *)
Busy(w) ==
    broken = "none" /\ (at[w] # "fetch" \/ current[w] # None \/ fresh[w] \o stale[w] # <<>>)
Steps(w) == at'[w] # at[w] \/ current'[w] # current[w] \/ broken' # broken
Spec ==
    /\ Init /\ [][Next]_vars
    /\ \A w \in Worker : []<>~Busy(w) \/ []<><<Steps(w)>>_vars
    /\ WF_vars(distribute_work)
    /\ \A f \in 1 .. MaxFrames : SF_vars(iopop(f))

-----------------------------------------------------------------------------
(***************************************************************************)
(* Properties.                                                             *)
(***************************************************************************)
(* A place is a register of an object that is there, or was there before   *)
(* the registers moved.                                                    *)
IsPlace(p) ==
    /\ p[1] \in DOMAIN value /\ p[2] + 1 \in DOMAIN value[p[1]].regs
    /\ p[3] \in 0 .. value[p[1]].moves
IsValue(x) ==
    CASE x[1] = "Int" -> x[2] \in Int
      [] x[1] = "Bool" -> x[2] \in BOOLEAN
      [] x[1] = "Ref" -> IsPlace(x[2])
      [] IsIndex(x) \/ x[1] = "String" -> x[2] \in DOMAIN value
      [] x[1] = "Stream" -> x[2] \in 0 .. 2
      [] OTHER -> x[1] \in {"Void", "Failure", "Promise", "PatternVar", "Hashtag"}

(* Every register holds a value, references lead to registers or to where  *)
(* registers have been, and every frame knows its call and its registers.  *)
TypeOK ==
    /\ program \in Main /\ fifo \in BOOLEAN /\ distributor \in Worker
    /\ \A p \in DOMAIN process :
          /\ process[p].worker \in Worker \cup {0} /\ process[p].call \in DOMAIN frame
          /\ Range(process[p].recv) \subseteq DOMAIN value
    /\ broken \in {"none", "null", "exit", "unjoined", "dangling", "undefined"}
    /\ \A v \in DOMAIN value : \A r \in DOMAIN value[v].regs : IsValue(value[v].regs[r])
    /\ Len(frame) <= MaxFrames
    /\ \A w \in Worker :
          /\ known[w] \subseteq Module
          /\ ({current[w]} \ {None}) \cup Range(fresh[w] \o stale[w]) \subseteq DOMAIN frame
          /\ at[w] \in {"fetch", "io", "switch"}
    /\ \A f \in DOMAIN io :
          /\ f \in DOMAIN frame /\ io[f].fd \in {0, 1} /\ io[f].registered \in BOOLEAN
          /\ io[f].place # NoPlace => IsPlace(io[f].place)
    /\ \A f \in DOMAIN frame :
          /\ frame[f].cfstate \in {"READY", "IOWAIT", "PEERWAIT", "COMPLETE", "FAILED"}
          /\ frame[f].parent < f /\ frame[f].proc \in DOMAIN process
          /\ frame[function_call(f)].type = "call"
          /\ frame[f].type = "call" =>
                /\ frame[f].value \in DOMAIN value
                /\ frame[f].result # NoPlace => IsPlace(frame[f].result)

(* Whatever the order in which paths and calls get their turns, a program  *)
(* gives what the documentation or a test says of it: whoever uses a value *)
(* that is still promised waits for it, and a failure goes the way of the  *)
(* values it stands for (qbrt.cpp:128-154).  What becomes of a worker that *)
(* only waits for streams is Worker's to say (SurvivesIoWait).             *)
Outcome ==
    LET x == At(<<1, 0, 0>>)
    IN  IF broken # "none" THEN <<broken>>
        ELSE IF x[1] = "String" THEN <<"String", value[x[2]].text>> ELSE x
Alone == \E w \in Worker : at[w] = "switch" /\ current[w] = None
Determinate ==
    program \in DOMAIN Meaning /\ (Ended \/ broken # "none") /\ ~Alone => Outcome \in Meaning[program]

(* A promise in a register is always one that a running path will keep.    *)
PromisesKept ==
    program \notin Stuck =>
        \A v \in DOMAIN value : \A r \in DOMAIN value[v].regs :
            value[v].regs[r] = Promise =>
                \E p \in Live : /\ frame[p].type = "path"
                                /\ frame[p].promised[1] = v /\ frame[p].promised[2] = r - 1

(* What a function value calls depends on what it was made for and on the  *)
(* types its arguments have now, not on the calls it has served before.    *)
Choice(w, val) ==
    LET over == find_override(w, val.family, ValueTypes(val))
    IN  IF Function[val.family].context = "traditional" \/ over = "none" THEN val.family ELSE over
DispatchFresh ==
    [][\A f \in DOMAIN frame :
          Runs(f) /\ Instruction(f).op = "call" /\ at'[on(f)] = "io" =>
              LET func == Value(f, Instruction(f), "src")
              IN  func[1] = "Function" /\ BadArguments(func[2]) = {} =>
                      value'[func[2]].func = Choice(on(f), value[func[2]])]_vars

(* A call has all the registers its code names, also when the function     *)
(* value was made for a smaller function.                                  *)
RoomForRegisters ==
    \A f \in Live : frame[f].type = "call" =>
        Len(value[frame[f].value].regs) >= regtotal(frame[f].func)

(* A call that fails leaves a failure in the register its caller looks at, *)
(* unless what it called is abstract (qbrt.cpp:1352 says so on the console *)
(* only), or the register has moved meanwhile.                             *)
Silent(f) ==
    LET i == Function[frame[f].func].code[frame[f].pc - 1]
        called == At(dstvalue(f, i.src, Primary(f, i.src)).place)
    IN  /\ frame[f].pc > 1 /\ i.op = "call" /\ called[1] = "Function"
        /\ Function[value[called[2]].func].context = "abstract"
Fails(f) == frame[f].live /\ frame[f].type = "call" /\ ~frame'[f].live /\ frame'[f].cfstate = "FAILED"
FailuresReachCaller ==
    [][\A f \in DOMAIN frame :
          Fails(f) /\ ~Silent(f) /\ Result(f).stop = "none" => At(Result(f).place)'[1] = "Failure"]_vars

(* A program whose paths keep their promises comes to an end, unless no    *)
(* worker has anything left to do while frames wait for streams (iowork()  *)
(* comes after an instruction only, schedule.cpp:309), or a frame waits    *)
(* for a stream that epoll was not told of (schedule.cpp:250).             *)
LeftOver ==
    /\ DOMAIN io # {} /\ \A p \in DOMAIN process : process[p].worker # 0
    /\ \A w \in Worker : current[w] = None /\ fresh[w] \o stale[w] = <<>>
Deaf == \E f \in DOMAIN io : ~io[f].registered
ProgramEnds == program \notin Stuck => <>(Ended \/ broken # "none" \/ LeftOver \/ Deaf)
=============================================================================
