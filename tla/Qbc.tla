-------------------------------- MODULE Qbc --------------------------------
(***************************************************************************)
(* The compiler qbc at work on the files of a project (lib/qbc.cpp).  A    *)
(* run of qbc compiles one module and, while their object files are        *)
(* missing, the modules it imports: the activations of compile_module()    *)
(* are on a stack, and each of them goes through its phases one by one, as *)
(* Build says.  Between two runs a source may be edited; object files      *)
(* stay.  What the phases compute is left to Toolchain: here it is         *)
(* constants, of which little is assumed.                                  *)
(*                                                                         *)
(* Bounds: MaxRuns runs of qbc, MaxDepth activations (a deeper recursion   *)
(* overflows the machine's stack).                                         *)
(***************************************************************************)
EXTENDS Integers, Sequences, FiniteSets

CONSTANTS Name,      \* the names of modules
          Source,    \* Source[m] is the sequence of texts m may have, parsed
          MaxRuns, MaxDepth

CONSTANTS Indexed(_, _),    \* the resources of a module with a text
          Allocated(_),     \* the registers of a text's functions suffice
          Generated(_),     \* the code of the functions among resources
          Object(_, _),    \* the object file with resources and code
          Before(_, _)      \* the order of a std::set of names

NoText == <<>>
NoFile == <<>>

ASSUME BoundsAssumption == MaxRuns \in Nat /\ MaxDepth \in Nat
ASSUME OrderAssumption ==
    \A todo \in (SUBSET Name) \ {{}} : \E m \in todo : \A n \in todo \ {m} : Before(m, n)

(* ResourceSet::import() leaves out the module that is being compiled, and *)
(* a file has a header at least.                                           *)
ASSUME SourceAssumption ==
    \A m \in Name :
        /\ DOMAIN Source[m] \subseteq Nat \ {0}
        /\ \A i \in DOMAIN Source[m] :
              Source[m][i] # NoText =>
                  LET rs == Indexed(m, Source[m][i])
                      code == Generated(rs)
                  IN  /\ rs.names \subseteq Name \ {m}
                      /\ Allocated(Source[m][i]) \in BOOLEAN
                      /\ Allocated(Source[m][i]) /\ (\A k \in DOMAIN code : ~code[k].died) => Object(rs, code) # NoFile

VARIABLES source,    \* which text every module has
          file,      \* the object file of every module, or NoFile
          stack,     \* activations of compile_module(), the running one last
          modmap,    \* the modules this run compiled for an import
          written,   \* the modules this run has written, in order (history)
          built,     \* what the object files were made from (history)
          died,      \* the last run ended with an error
          runs
qbc_vars == <<source, file, stack, modmap, written, built, died, runs>>

Text(m) == Source[m][source[m]]
NotBuilt == [source |-> 0, rs |-> <<>>, code |-> <<>>]

QbcInit ==
    /\ source \in [Name -> UNION {DOMAIN Source[m] : m \in Name}]
    /\ \A m \in Name : source[m] \in DOMAIN Source[m]
    /\ file = [m \in Name |-> NoFile]
    /\ built = [m \in Name |-> NotBuilt]
    /\ stack = <<>> /\ modmap = {} /\ written = <<>>
    /\ died = FALSE /\ runs = 0

-----------------------------------------------------------------------------
Activation(m) == [module |-> m, phase |-> "open", rs |-> <<>>, todo |-> {}, code |-> <<>>]
Running == stack # <<>>
Top == stack[Len(stack)]
At(phase) == Running /\ Top.phase = phase
Set(top) == [stack EXCEPT ![Len(stack)] = top]
Return == SubSeq(stack, 1, Len(stack) - 1)

DIE == stack' = <<>> /\ died' = TRUE

(* One run of qbc: the program starts with an empty ModuleMap.             *)
qbc(m) ==
    /\ ~Running /\ runs < MaxRuns
    /\ runs' = runs + 1
    /\ stack' = <<Activation(m)>>
    /\ modmap' = {} /\ written' = <<>> /\ died' = FALSE
    /\ UNCHANGED <<source, file, built>>

(* Without a source compile_module() returns false; main() ignores that.   *)
open_source ==
    /\ At("open")
    /\ stack' = IF Text(Top.module) = NoText THEN Return ELSE Set([Top EXCEPT !.phase = "collect"])
    /\ UNCHANGED <<source, file, modmap, written, built, died, runs>>

(* Collects and indexes the resources.                                     *)
collect_and_index ==
    /\ At("collect")
    /\ LET rs == Indexed(Top.module, Text(Top.module))
       IN  stack' = Set([Top EXCEPT !.phase = "import", !.rs = rs, !.todo = rs.names])
    /\ UNCHANGED <<source, file, modmap, written, built, died, runs>>

(* The modules to be imported, in ascending order.                         *)
Next_import(todo) == CHOOSE m \in todo : \A n \in todo \ {m} : Before(m, n)

Readable(m) == m \in Name /\ file[m] # NoFile

(* Defect: the module that is compiled for an import ends the loop.        *)
load_imported_modules_once ==
    /\ At("import") /\ Top.todo # {}
    /\ LET m == Next_import(Top.todo)
       IN  IF m \in modmap \/ Readable(m)
           THEN stack' = Set([Top EXCEPT !.todo = @ \ {m}])
           ELSE /\ m \in Name
                /\ stack' = Append(Set([Top EXCEPT !.phase = "reload", !.todo = {m}]), Activation(m))
    /\ UNCHANGED <<source, file, modmap, written, built, died, runs>>

(* Looks for the object file of the next import, and compiles the module   *)
(* when there is none.                                                     *)
load_imported_modules ==
    /\ At("import") /\ Top.todo # {}
    /\ LET m == Next_import(Top.todo)
       IN  IF m \in modmap \/ Readable(m)
           THEN stack' = Set([Top EXCEPT !.todo = @ \ {m}])
           ELSE stack' = Append(Set([Top EXCEPT !.phase = "reload"]), Activation(m))
    /\ UNCHANGED <<source, file, modmap, written, built, died, runs>>

(* The import again, after compile_module() has returned.                  *)
reload ==
    /\ At("reload")
    /\ LET m == Next_import(Top.todo)
       IN  IF Readable(m)
           THEN /\ modmap' = modmap \cup {m}
                /\ stack' = Set([Top EXCEPT !.phase = "import", !.todo = @ \ {m}])
                /\ UNCHANGED died
           ELSE DIE /\ UNCHANGED modmap
    /\ UNCHANGED <<source, file, written, built, runs>>

(* allocate_registers() goes over every function of the text, also over    *)
(* one whose key another one has.                                          *)
allocate ==
    /\ At("import") /\ Top.todo = {}
    /\ IF Allocated(Text(Top.module))
       THEN stack' = Set([Top EXCEPT !.phase = "generate"]) /\ UNCHANGED died
       ELSE DIE
    /\ UNCHANGED <<source, file, modmap, written, built, runs>>

generate ==
    /\ At("generate")
    /\ LET code == Generated(Top.rs)
       IN  IF \E k \in DOMAIN code : code[k].died THEN DIE
           ELSE /\ stack' = Set([Top EXCEPT !.phase = "write", !.code = code])
                /\ UNCHANGED died
    /\ UNCHANGED <<source, file, modmap, written, built, runs>>

(* When the output cannot be opened compile_module() returns false; the    *)
(* object file of an earlier run stays.                                    *)
write_file ==
    /\ At("write")
    /\ \/ /\ file' = [file EXCEPT ![Top.module] = Object(Top.rs, Top.code)]
          /\ built' = [built EXCEPT ![Top.module] =
                 [source |-> source[Top.module], rs |-> Top.rs, code |-> Top.code]]
          /\ written' = Append(written, Top.module)
       \/ UNCHANGED <<file, built, written>>
    /\ stack' = Return
    /\ UNCHANGED <<source, modmap, died, runs>>

compile_module ==
    /\ Len(stack) <= MaxDepth
    /\ \/ open_source \/ collect_and_index \/ load_imported_modules \/ reload
       \/ allocate \/ generate \/ write_file

(* Modules without object files that import each other.                    *)
overflow ==
    /\ Len(stack) > MaxDepth
    /\ DIE
    /\ UNCHANGED <<source, file, modmap, written, built, runs>>

edit(m) ==
    /\ ~Running
    /\ \E text \in DOMAIN Source[m] \ {source[m]} : source' = [source EXCEPT ![m] = text]
    /\ UNCHANGED <<file, stack, modmap, written, built, died, runs>>

QbcNext == compile_module \/ overflow \/ \E m \in Name : qbc(m) \/ edit(m)

QbcSpec == QbcInit /\ [][QbcNext]_qbc_vars

-----------------------------------------------------------------------------
(***************************************************************************)
(* Properties.                                                             *)
(***************************************************************************)
(* What compile_module() can know of a text before it writes the file.     *)
Describe(m, text) ==
    IF text = NoText THEN [present |-> FALSE, imports |-> {}, allocates |-> TRUE, generates |-> TRUE]
    ELSE LET rs == Indexed(m, text)
             code == IF Allocated(text) THEN Generated(rs) ELSE <<>>
         IN  [present |-> TRUE, imports |-> rs.names, allocates |-> Allocated(text),
              generates |-> \A k \in DOMAIN code : ~code[k].died]
Described == [m \in Name |-> [i \in DOMAIN Source[m] |-> Describe(m, Source[m][i])]]

(* What Build sees.                                                        *)
Texts == [m \in Name |-> {Described[m][i] : i \in DOMAIN Source[m]}]
Current == [m \in Name |-> Described[m][source[m]]]
Present == {m \in Name : file[m] # NoFile}
Needs == [m \in Name |-> IF built[m].source = 0 THEN {} ELSE built[m].rs.names]
Brief(a) == [module |-> a.module, phase |-> a.phase, todo |-> a.todo]
Briefs(s) == [k \in DOMAIN s |-> Brief(s[k])]
Times(s) == [m \in Name |-> Cardinality({k \in DOMAIN s : s[k] = m})]

B == INSTANCE Build WITH
        Source <- Texts, source <- Current, file <- Present, needs <- Needs, cut <- {}, stopped <- {},
        stack <- Briefs(stack), written <- Times(written)

(* With everything that goes into the files, qbc writes the files Build    *)
(* says, when Build says it: the resources collected from a text decide    *)
(* which modules are compiled first, and nothing compile_module() computes *)
(* on the way disturbs that.                                               *)
WritesAsBuild == B!Init /\ [][B!Next]_B!vars
=============================================================================
