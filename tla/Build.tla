------------------------------- MODULE Build -------------------------------
(***************************************************************************)
(* Which object files qbc writes, and when: compile_module() and           *)
(* load_imported_modules() (lib/qbc.cpp) without what is in the files.     *)
(* Compiling a module needs the object files of the modules it imports;    *)
(* one that is missing is compiled first, from within, so the activations  *)
(* of compile_module() are on a stack.  Modules may import each other, and *)
(* a source may be edited between two runs; object files stay.             *)
(*                                                                         *)
(* Bounds: MaxRuns runs of qbc, MaxDepth activations (a deeper recursion   *)
(* overflows the machine's stack).                                         *)
(***************************************************************************)
EXTENDS Integers, Sequences

CONSTANTS Name,      \* the names of modules
          Source,    \* Source[m]: what the source of m may be
          Before(_, _),   \* the order of a std::set of names
          MaxRuns, MaxDepth

(* A source is there or not; it imports other modules, never itself; its   *)
(* registers can be allocated and its code generated, or not.              *)
Text == [present : BOOLEAN, imports : SUBSET Name, allocates : BOOLEAN, generates : BOOLEAN]
ASSUME SourceAssumption ==
    \A m \in Name : \A t \in Source[m] : t \in Text /\ m \notin t.imports
ASSUME OrderAssumption ==
    \A todo \in (SUBSET Name) \ {{}} : \E m \in todo : \A n \in todo \ {m} : Before(m, n)
ASSUME BoundsAssumption == MaxRuns \in Nat /\ MaxDepth \in Nat

VARIABLES source,    \* the source of every module
          file,      \* the modules that have an object file
          needs,     \* what the object file of a module imports (history)
          cut,       \* the modules whose object file is truncated
          stopped,   \* those qbc was stopped at writing last (history)
          stack,     \* activations of compile_module(), the running one last
          modmap,    \* the modules this run compiled for an import
          written,   \* how often this run has written a module (history)
          died,      \* the last run ended with an error
          runs
vars == <<source, file, needs, cut, stopped, stack, modmap, written, died, runs>>

Init ==
    /\ source \in [Name -> UNION {Source[m] : m \in Name}]
    /\ \A m \in Name : source[m] \in Source[m]
    /\ file = {} /\ needs = [m \in Name |-> {}] /\ cut = {} /\ stopped = {}
    /\ stack = <<>> /\ modmap = {} /\ written = [m \in Name |-> 0]
    /\ died = FALSE /\ runs = 0

-----------------------------------------------------------------------------
Activation(m) == [module |-> m, phase |-> "open", todo |-> {}]
Running == stack # <<>>
Top == stack[Len(stack)]
At(phase) == Running /\ Top.phase = phase
Replace(top) == [stack EXCEPT ![Len(stack)] = top]
Return == SubSeq(stack, 1, Len(stack) - 1)
DIE == stack' = <<>> /\ died' = TRUE

(* One run of qbc starts with an empty ModuleMap.                          *)
qbc(m) ==
    /\ ~Running /\ runs < MaxRuns
    /\ runs' = runs + 1
    /\ stack' = <<Activation(m)>>
    /\ modmap' = {} /\ written' = [n \in Name |-> 0] /\ died' = FALSE
    /\ UNCHANGED <<source, file, needs, cut, stopped>>

(* Without a source compile_module() returns false, which nobody looks at. *)
open_source ==
    /\ At("open")
    /\ stack' = IF source[Top.module].present THEN Replace([Top EXCEPT !.phase = "collect"]) ELSE Return
    /\ UNCHANGED <<source, file, needs, cut, stopped, modmap, written, died, runs>>

(* Defect: the output is opened, and an old one truncated, first of all.   *)
collect_and_index_opening ==
    /\ At("collect")
    /\ stack' = Replace([Top EXCEPT !.phase = "import", !.todo = source[Top.module].imports])
    /\ file' = file \cup {Top.module} /\ cut' = cut \cup {Top.module}
    /\ needs' = [needs EXCEPT ![Top.module] = {}]
    /\ UNCHANGED <<source, stopped, modmap, written, died, runs>>

collect_and_index ==
    /\ At("collect")
    /\ stack' = Replace([Top EXCEPT !.phase = "import", !.todo = source[Top.module].imports])
    /\ UNCHANGED <<source, file, needs, cut, stopped, modmap, written, died, runs>>

(* The modules to be imported, in ascending order.                         *)
Next_import(todo) == CHOOSE m \in todo : \A n \in todo \ {m} : Before(m, n)

(* Defect: the loop ends with the first module that had to be compiled.    *)
load_imported_modules_once(m) ==
    /\ At("import") /\ m \in Top.todo /\ m = Next_import(Top.todo)
    /\ stack' = IF m \in modmap \/ m \in file THEN Replace([Top EXCEPT !.todo = @ \ {m}])
                ELSE Append(Replace([Top EXCEPT !.phase = "reload", !.todo = {m}]), Activation(m))
    /\ UNCHANGED <<source, file, needs, cut, stopped, modmap, written, died, runs>>

(* Looks for the object file of the next import, and compiles the module   *)
(* when there is none.  A truncated one is taken for the module, or it is  *)
(* the end of qbc when it lacks the name of the module.                    *)
load_imported_modules(m) ==
    /\ At("import") /\ m \in Top.todo /\ m = Next_import(Top.todo)
    /\ \/ /\ m \in modmap \/ m \in file
          /\ stack' = Replace([Top EXCEPT !.todo = @ \ {m}])
          /\ UNCHANGED died
       \/ m \notin modmap /\ m \in cut /\ DIE
       \/ /\ m \notin modmap /\ m \notin file
          /\ stack' = Append(Replace([Top EXCEPT !.phase = "reload"]), Activation(m))
          /\ UNCHANGED died
    /\ UNCHANGED <<source, file, needs, cut, stopped, modmap, written, runs>>

(* Defect: a module that could not be compiled is looked for again.        *)
reload_again(m) ==
    /\ At("reload") /\ m \in Top.todo /\ m = Next_import(Top.todo)
    /\ stack' = Replace([Top EXCEPT !.phase = "import"])
    /\ UNCHANGED <<source, file, needs, cut, stopped, modmap, written, died, runs>>

(* Defect: what read_module() returns the second time is not looked at.    *)
reload_unchecked(m) ==
    /\ At("reload") /\ m \in Top.todo /\ m = Next_import(Top.todo)
    /\ modmap' = modmap \cup {m}
    /\ stack' = Replace([Top EXCEPT !.phase = "import", !.todo = @ \ {m}])
    /\ UNCHANGED <<source, file, needs, cut, stopped, written, died, runs>>

(* The import that was just compiled again, after compile_module().        *)
reload(m) ==
    /\ At("reload") /\ m \in Top.todo /\ m = Next_import(Top.todo)
    /\ \/ /\ m \in file
          /\ modmap' = modmap \cup {m}
          /\ stack' = Replace([Top EXCEPT !.phase = "import", !.todo = @ \ {m}])
          /\ UNCHANGED died
       \/ m \notin file /\ DIE /\ UNCHANGED modmap
    /\ UNCHANGED <<source, file, needs, cut, stopped, written, runs>>

allocate ==
    /\ At("import") /\ Top.todo = {}
    /\ IF source[Top.module].allocates
       THEN stack' = Replace([Top EXCEPT !.phase = "generate"]) /\ UNCHANGED died
       ELSE DIE
    /\ UNCHANGED <<source, file, needs, cut, stopped, modmap, written, runs>>

generate ==
    /\ At("generate")
    /\ IF source[Top.module].generates
       THEN stack' = Replace([Top EXCEPT !.phase = "write"]) /\ UNCHANGED died
       ELSE DIE
    /\ UNCHANGED <<source, file, needs, cut, stopped, modmap, written, runs>>

(* When the output cannot be opened compile_module() returns false, which  *)
(* nobody looks at either; the object file of an earlier run stays.        *)
write_file ==
    /\ At("write")
    /\ \/ /\ file' = file \cup {Top.module}
          /\ needs' = [needs EXCEPT ![Top.module] = source[Top.module].imports]
          /\ written' = [written EXCEPT ![Top.module] = @ + 1]
          /\ cut' = cut \ {Top.module} /\ stopped' = stopped \ {Top.module}
       \/ UNCHANGED <<file, needs, written, cut, stopped>>
    /\ stack' = Return
    /\ UNCHANGED <<source, modmap, died, runs>>

compile_module ==
    /\ Len(stack) <= MaxDepth
    /\ \/ open_source \/ collect_and_index
       \/ \E m \in Name : load_imported_modules(m)
       \/ \E m \in Name : reload(m)
       \/ allocate \/ generate \/ write_file

(* Modules without object files that import each other.                    *)
overflow ==
    /\ Len(stack) > MaxDepth
    /\ DIE
    /\ UNCHANGED <<source, file, needs, cut, stopped, modmap, written, runs>>

edit(m) ==
    /\ ~Running
    /\ \E text \in Source[m] : source' = [source EXCEPT ![m] = text]
    /\ UNCHANGED <<file, needs, cut, stopped, stack, modmap, written, died, runs>>

(* Whoever runs qbc stops it.  The object file it is about to write is as  *)
(* before, truncated, or whole in the nick of time.                        *)
kill ==
    /\ Running
    /\ DIE
    /\ UNCHANGED <<source, modmap, written, runs>>
    /\ \/ UNCHANGED <<file, needs, cut, stopped>>
       \/ /\ Top.phase = "write"
          /\ file' = file \cup {Top.module}
          /\ cut' \in {cut \cup {Top.module}, cut \ {Top.module}}
          /\ stopped' = stopped \cup {Top.module}
          /\ needs' = [needs EXCEPT ![Top.module] = source[Top.module].imports]

Next == compile_module \/ overflow \/ kill \/ \E m \in Name : qbc(m) \/ edit(m)

Spec == Init /\ [][Next]_vars /\ WF_vars(compile_module \/ overflow)

-----------------------------------------------------------------------------
(***************************************************************************)
(* Properties.                                                             *)
(***************************************************************************)
(* The variables of compile_module() and its callers keep their types.     *)
TypeOK ==
    /\ source \in [Name -> Text] /\ \A m \in Name : source[m] \in Source[m]
    /\ file \subseteq Name /\ needs \in [Name -> SUBSET Name]
    /\ stack \in Seq([module : Name, todo : SUBSET Name,
                      phase : {"open", "collect", "import", "reload", "generate", "write"}])
    /\ Len(stack) <= MaxDepth + 1
    /\ modmap \subseteq file /\ cut \subseteq file /\ stopped \subseteq file
    /\ written \in [Name -> Nat] /\ died \in BOOLEAN /\ runs \in 0 .. MaxRuns

(* An object file is there only when the object files of all modules it    *)
(* imports are, whatever failed to compile, in which order, and whenever    *)
(* qbc was killed: load_imported_modules() never leaves a hole.            *)
ImportsFirst == \A m \in file : needs[m] \subseteq file

(* Between two runs an object file is truncated only when qbc was stopped  *)
(* while it wrote it: a compilation that fails, however far it came and    *)
(* whatever was compiled for it on the way, leaves the files of all        *)
(* modules whole, because compile_module() opens its output last of all.   *)
FailuresTruncateNothing == ~Running => cut \subseteq stopped

(* A run compiles no module twice, however many modules import it and      *)
(* whether they import each other: the ModuleMap and the look at the disk  *)
(* in load_imported_modules() see to it, each of them for itself.          *)
WrittenOnce == \A m \in Name : written[m] <= 1

(* Every run of qbc comes to an end, also when modules import each other   *)
(* or cannot be compiled.                                                  *)
QbcEnds == Running ~> ~Running
=============================================================================
