----------------------------- MODULE QbcProof -----------------------------
(***************************************************************************)
(* Proofs about the compiler.  About Qbc, for every set of modules,        *)
(* whatever their texts are and whatever the phases of compile_module()    *)
(* compute: it writes files as Build says, and what BuildProof shows of    *)
(* Build holds of these files.  And about three of these phases, which     *)
(* Passes defines, for every function: its registers are apart, its jumps  *)
(* land, and the resources have indices in the order of their keys.        *)
(***************************************************************************)
EXTENDS Qbc, Passes, Queues, FiniteSetTheorems, TLAPS

-----------------------------------------------------------------------------
(***************************************************************************)
(* The inductive invariant.                                                *)
(***************************************************************************)
Lives(code) == \A k \in DOMAIN code : ~code[k].died
Collected == {"import", "reload", "generate", "write"}

(* What an activation holds was computed from the text its module has now. *)
GoodActivation(a) ==
    /\ DOMAIN a = {"module", "phase", "rs", "todo", "code"}
    /\ a.module \in Name /\ a.phase \in {"open", "collect"} \cup Collected
    /\ a.phase # "open" => Text(a.module) # NoText
    /\ a.phase \in Collected => a.rs = Indexed(a.module, Text(a.module))
    /\ a.phase \in {"import", "reload"} => a.todo \subseteq a.rs.names
    /\ a.phase = "reload" => a.todo # {}
    /\ a.phase \in {"generate", "write"} => Allocated(Text(a.module))
    /\ a.phase = "write" => a.code = Generated(a.rs) /\ Lives(a.code)

Sources ==
    /\ source = [m \in Name |-> source[m]]
    /\ \A m \in Name : source[m] \in DOMAIN Source[m]
Activations == IsSequence(stack) /\ \A k \in DOMAIN stack : GoodActivation(stack[k])

(* Every object file is what comes of a text of its module, and of that    *)
(* only.                                                                   *)
Compiled(m) ==
    /\ DOMAIN built[m] = {"source", "rs", "code"}
    /\ built[m].source = 0 => file[m] = NoFile
    /\ built[m].source # 0 =>
          /\ built[m].source \in DOMAIN Source[m] /\ Source[m][built[m].source] # NoText
          /\ built[m].rs = Indexed(m, Source[m][built[m].source])
          /\ built[m].code = Generated(built[m].rs) /\ Lives(built[m].code)
          /\ Allocated(Source[m][built[m].source])
          /\ file[m] = Object(built[m].rs, built[m].code) /\ file[m] # NoFile
FilesCompiled ==
    /\ file = [m \in Name |-> file[m]] /\ built = [m \in Name |-> built[m]]
    /\ \A m \in Name : Compiled(m)

Record == IsSequence(written) /\ \A k \in DOMAIN written : written[k] \in Name

Inv == Sources /\ Activations /\ FilesCompiled /\ Record

-----------------------------------------------------------------------------
(***************************************************************************)
(* Texts, and the stack.                                                   *)
(***************************************************************************)
LEMMA IndexedText ==
    ASSUME NEW m \in Name, NEW i \in DOMAIN Source[m], Source[m][i] # NoText
    PROVE  /\ Indexed(m, Source[m][i]).names \subseteq Name \ {m}
           /\ Allocated(Source[m][i]) \in BOOLEAN
           /\ Allocated(Source[m][i]) /\ Lives(Generated(Indexed(m, Source[m][i]))) =>
                 Object(Indexed(m, Source[m][i]), Generated(Indexed(m, Source[m][i]))) # NoFile
BY SourceAssumption DEF Lives

LEMMA NextImport ==
    ASSUME NEW todo, todo \subseteq Name, todo # {}
    PROVE  Next_import(todo) \in todo
BY OrderAssumption DEF Next_import

LEMMA RunningTop ==
    ASSUME Activations, Running
    PROVE  /\ Len(stack) \in Nat /\ Len(stack) >= 1 /\ Len(stack) \in DOMAIN stack
           /\ GoodActivation(Top) /\ stack = [k \in 1 .. Len(stack) |-> stack[k]]
<1>1. Len(stack) \in Nat /\ stack = [k \in 1 .. Len(stack) |-> stack[k]] /\ DOMAIN stack = 1 .. Len(stack)
  BY SequenceDomain DEF Activations, IsSequence
<1>2. Len(stack) # 0
  <2>1. SUFFICES ASSUME Len(stack) = 0 PROVE FALSE
    OBVIOUS
  <2>2. stack = <<>>
    BY <1>1, <2>1
  <2>3. QED
    BY <2>2 DEF Running
<1>3. Len(stack) >= 1 /\ Len(stack) \in DOMAIN stack
  BY <1>1, <1>2
<1>4. QED
  BY <1>1, <1>3 DEF Activations, Top

LEMMA SetStack ==
    ASSUME Activations, Running, NEW t, GoodActivation(t)
    PROVE  /\ IsSequence(Set(t)) /\ Len(Set(t)) = Len(stack) /\ DOMAIN Set(t) = DOMAIN stack
           /\ \A k \in DOMAIN stack : Set(t)[k] = IF k = Len(stack) THEN t ELSE stack[k]
           /\ \A k \in DOMAIN Set(t) : GoodActivation(Set(t)[k])
<1>1. IsSequence(stack) /\ \A k \in DOMAIN stack : GoodActivation(stack[k])
  BY DEF Activations
<1>2. IsSequence(Set(t)) /\ Len(Set(t)) = Len(stack)
  BY <1>1, ExceptSequence DEF Set
<1>3. DOMAIN Set(t) = DOMAIN stack /\ \A k \in DOMAIN stack : Set(t)[k] = IF k = Len(stack) THEN t ELSE stack[k]
  BY DEF Set
<1>4. QED
  BY <1>1, <1>2, <1>3

LEMMA ReturnStack ==
    ASSUME Activations, Running
    PROVE  /\ IsSequence(Return) /\ Len(Return) = Len(stack) - 1 /\ DOMAIN Return = 1 .. Len(stack) - 1
           /\ \A k \in DOMAIN Return : k \in DOMAIN stack /\ Return[k] = stack[k] /\ GoodActivation(Return[k])
<1>1. PICK n \in Nat : Len(stack) = n
  BY RunningTop
<1>2. n >= 1 /\ DOMAIN stack = 1 .. n /\ \A k \in DOMAIN stack : GoodActivation(stack[k])
  BY <1>1, RunningTop, SequenceDomain DEF Activations
<1>3. Return = [k \in 1 .. n - 1 |-> stack[k]]
  BY <1>1, <1>2 DEF Return
<1>4. PICK s : s = Return
  OBVIOUS
<1>5. s = [k \in 1 .. n - 1 |-> s[k]] /\ n - 1 \in Nat /\ \A k \in 1 .. n - 1 : s[k] = stack[k]
  BY <1>2, <1>3, <1>4
<1>6. IsSequence(s) /\ Len(s) = n - 1 /\ DOMAIN s = 1 .. n - 1
  BY <1>5, SequenceLength
<1>7. \A k \in 1 .. n - 1 : k \in 1 .. n
  BY <1>2
<1>8. QED
  BY <1>1, <1>2, <1>4, <1>5, <1>6, <1>7

LEMMA NewActivation ==
    ASSUME NEW m \in Name PROVE GoodActivation(Activation(m))
BY DEF Activation, GoodActivation, Collected

LEMMA AppendStack ==
    ASSUME NEW s, IsSequence(s), \A k \in DOMAIN s : GoodActivation(s[k]), NEW m \in Name
    PROVE  /\ IsSequence(Append(s, Activation(m)))
           /\ \A k \in DOMAIN Append(s, Activation(m)) : GoodActivation(Append(s, Activation(m))[k])
<1>1. PICK a : a = Activation(m)
  OBVIOUS
<1>2. GoodActivation(a)
  BY <1>1, NewActivation
<1>3. /\ IsSequence(Append(s, a)) /\ Append(s, a)[Len(s) + 1] = a
      /\ \A k \in DOMAIN s : Append(s, a)[k] = s[k]
      /\ DOMAIN Append(s, a) = DOMAIN s \cup {Len(s) + 1}
  BY AppendSequence
<1>4. QED
  BY <1>1, <1>2, <1>3

-----------------------------------------------------------------------------
(***************************************************************************)
(* The invariant, action by action.                                        *)
(***************************************************************************)
(* Steps that write no file.                                               *)
LEMMA StackStep ==
    ASSUME Inv, UNCHANGED <<source, file, built, written>>,
           IsSequence(stack'), \A k \in DOMAIN stack' : GoodActivation(stack'[k])
    PROVE  Inv'
<1>1. Sources' /\ FilesCompiled' /\ Record'
  BY DEF Inv, Sources, FilesCompiled, Compiled, Record
<1>2. Activations'
  BY DEF Activations, GoodActivation, Text
<1>3. QED
  BY <1>1, <1>2 DEF Inv

LEMMA EmptyStack ==
    ASSUME Inv, UNCHANGED <<source, file, built, written>>, stack' = <<>>
    PROVE  Inv'
<1>1. IsSequence(stack') /\ DOMAIN stack' = {}
  BY EmptySequence
<1>2. QED
  BY <1>1, StackStep

LEMMA InitInv == ASSUME QbcInit PROVE Inv
<1>1. IsSequence(<<>>) /\ DOMAIN <<>> = {}
  BY EmptySequence
<1>2. Sources /\ Activations
  BY <1>1 DEF QbcInit, Sources, Activations
<1>3. FilesCompiled
  BY DEF QbcInit, FilesCompiled, Compiled, NotBuilt
<1>4. QED
  BY <1>1, <1>2, <1>3 DEF QbcInit, Inv, Record

LEMMA InvQbc == ASSUME Inv, NEW m \in Name, qbc(m) PROVE Inv'
<1>1. PICK a : a = Activation(m)
  OBVIOUS
<1>2. stack' = <<a>> /\ GoodActivation(a)
  BY <1>1, NewActivation DEF qbc
<1>3. IsSequence(stack') /\ \A k \in DOMAIN stack' : GoodActivation(stack'[k])
  <2>1. Len(<<a>>) = 1 /\ DOMAIN <<a>> = 1 .. 1 /\ <<a>>[1] = a
    OBVIOUS
  <2>2. <<a>> = [k \in 1 .. 1 |-> <<a>>[k]]
    OBVIOUS
  <2>3. IsSequence(<<a>>)
    BY <2>2, SequenceLength
  <2>4. QED
    BY <1>2, <2>1, <2>3
<1>4. Record' /\ UNCHANGED <<source, file, built>>
  BY EmptySequence DEF qbc, Record
<1>5. Sources' /\ FilesCompiled'
  BY <1>4 DEF Inv, Sources, FilesCompiled, Compiled
<1>6. Activations'
  BY <1>3, <1>4 DEF Activations, GoodActivation, Text
<1>7. QED
  BY <1>4, <1>5, <1>6 DEF Inv

LEMMA InvOpen == ASSUME Inv, open_source PROVE Inv'
<1>1. Activations /\ Running /\ GoodActivation(Top) /\ Top.phase = "open"
  BY RunningTop DEF Inv, open_source, At
<1>2. CASE Text(Top.module) = NoText
  BY <1>1, <1>2, ReturnStack, StackStep DEF open_source
<1>3. CASE Text(Top.module) # NoText
  <2>1. PICK t : t = [Top EXCEPT !.phase = "collect"]
    OBVIOUS
  <2>2. GoodActivation(t)
    BY <1>1, <1>3, <2>1 DEF GoodActivation, Collected
  <2>3. stack' = Set(t) /\ UNCHANGED <<source, file, built, written>>
    BY <1>3, <2>1 DEF open_source
  <2>4. QED
    BY <1>1, <2>2, <2>3, SetStack, StackStep
<1>4. QED
  BY <1>2, <1>3

LEMMA InvCollect == ASSUME Inv, collect_and_index PROVE Inv'
<1>1. Activations /\ Running /\ GoodActivation(Top) /\ Top.phase = "collect"
  BY RunningTop DEF Inv, collect_and_index, At
<1>2. PICK rs : rs = Indexed(Top.module, Text(Top.module))
  OBVIOUS
<1>3. PICK t : t = [Top EXCEPT !.phase = "import", !.rs = rs, !.todo = rs.names]
  OBVIOUS
<1>4. GoodActivation(t)
  BY <1>1, <1>2, <1>3 DEF GoodActivation, Collected
<1>5. stack' = Set(t) /\ UNCHANGED <<source, file, built, written>>
  BY <1>2, <1>3 DEF collect_and_index
<1>6. QED
  BY <1>1, <1>4, <1>5, SetStack, StackStep

(* The modules that are still to be imported are modules, and others than  *)
(* the one that is compiled.                                               *)
LEMMA ToImport ==
    ASSUME Inv, Running, Top.phase \in {"import", "reload"}
    PROVE  Top.module \in Name /\ Top.todo \subseteq Name \ {Top.module}
<1>1. GoodActivation(Top)
  BY RunningTop DEF Inv
<1>2. Top.module \in Name /\ source[Top.module] \in DOMAIN Source[Top.module]
  BY <1>1 DEF Inv, Sources, GoodActivation
<1>3. /\ Text(Top.module) # NoText /\ Top.rs = Indexed(Top.module, Text(Top.module))
      /\ Top.todo \subseteq Top.rs.names
  BY <1>1 DEF GoodActivation, Collected
<1>4. QED
  BY <1>2, <1>3, IndexedText DEF Text

LEMMA InvLoad == ASSUME Inv, load_imported_modules PROVE Inv'
<1>1. Activations /\ Running /\ GoodActivation(Top) /\ Top.phase = "import" /\ Top.todo # {}
  BY RunningTop DEF Inv, load_imported_modules, At
<1>2. PICK m : m = Next_import(Top.todo)
  OBVIOUS
<1>3. m \in Name
  BY <1>1, <1>2, ToImport, NextImport
<1>4. UNCHANGED <<source, file, built, written>>
  BY DEF load_imported_modules
<1>5. CASE m \in modmap \/ Readable(m)
  <2>1. PICK t : t = [Top EXCEPT !.todo = @ \ {m}]
    OBVIOUS
  <2>2. GoodActivation(t)
    BY <1>1, <2>1 DEF GoodActivation, Collected
  <2>3. stack' = Set(t)
    BY <1>2, <1>5, <2>1 DEF load_imported_modules
  <2>4. QED
    BY <1>1, <1>4, <2>2, <2>3, SetStack, StackStep
<1>6. CASE ~(m \in modmap \/ Readable(m))
  <2>1. PICK t : t = [Top EXCEPT !.phase = "reload"]
    OBVIOUS
  <2>2. GoodActivation(t)
    BY <1>1, <2>1 DEF GoodActivation, Collected
  <2>3. PICK s : s = Set(t)
    OBVIOUS
  <2>4. stack' = Append(s, Activation(m))
    BY <1>2, <1>6, <2>1, <2>3 DEF load_imported_modules
  <2>5. IsSequence(s) /\ \A k \in DOMAIN s : GoodActivation(s[k])
    BY <1>1, <2>2, <2>3, SetStack
  <2>6. QED
    BY <1>3, <1>4, <2>4, <2>5, AppendStack, StackStep
<1>7. QED
  BY <1>5, <1>6

LEMMA InvReload == ASSUME Inv, reload PROVE Inv'
<1>1. Activations /\ Running /\ GoodActivation(Top) /\ Top.phase = "reload"
  BY RunningTop DEF Inv, reload, At
<1>2. PICK m : m = Next_import(Top.todo)
  OBVIOUS
<1>3. CASE Readable(m)
  <2>1. PICK t : t = [Top EXCEPT !.phase = "import", !.todo = @ \ {m}]
    OBVIOUS
  <2>2. GoodActivation(t)
    BY <1>1, <2>1 DEF GoodActivation, Collected
  <2>3. stack' = Set(t) /\ UNCHANGED <<source, file, built, written>>
    BY <1>2, <1>3, <2>1 DEF reload
  <2>4. QED
    BY <1>1, <2>2, <2>3, SetStack, StackStep
<1>4. CASE ~Readable(m)
  BY <1>2, <1>4, EmptyStack DEF reload, DIE
<1>5. QED
  BY <1>3, <1>4

LEMMA InvAllocate == ASSUME Inv, allocate PROVE Inv'
<1>1. Activations /\ Running /\ GoodActivation(Top) /\ Top.phase = "import"
  BY RunningTop DEF Inv, allocate, At
<1>2. CASE Allocated(Text(Top.module))
  <2>1. PICK t : t = [Top EXCEPT !.phase = "generate"]
    OBVIOUS
  <2>2. GoodActivation(t)
    BY <1>1, <1>2, <2>1 DEF GoodActivation, Collected
  <2>3. stack' = Set(t) /\ UNCHANGED <<source, file, built, written>>
    BY <1>2, <2>1 DEF allocate
  <2>4. QED
    BY <1>1, <2>2, <2>3, SetStack, StackStep
<1>3. CASE ~Allocated(Text(Top.module))
  BY <1>3, EmptyStack DEF allocate, DIE
<1>4. QED
  BY <1>2, <1>3

LEMMA InvGenerate == ASSUME Inv, generate PROVE Inv'
<1>1. Activations /\ Running /\ GoodActivation(Top) /\ Top.phase = "generate"
  BY RunningTop DEF Inv, generate, At
<1>2. PICK code : code = Generated(Top.rs)
  OBVIOUS
<1>3. CASE Lives(code)
  <2>1. PICK t : t = [Top EXCEPT !.phase = "write", !.code = code]
    OBVIOUS
  <2>2. GoodActivation(t)
    BY <1>1, <1>2, <1>3, <2>1 DEF GoodActivation, Collected
  <2>3. stack' = Set(t) /\ UNCHANGED <<source, file, built, written>>
    BY <1>2, <1>3, <2>1 DEF generate, Lives
  <2>4. QED
    BY <1>1, <2>2, <2>3, SetStack, StackStep
<1>4. CASE ~Lives(code)
  BY <1>2, <1>4, EmptyStack DEF generate, DIE, Lives
<1>5. QED
  BY <1>3, <1>4

(* What write_file does when it can open the output.                       *)
Stores ==
    /\ file' = [file EXCEPT ![Top.module] = Object(Top.rs, Top.code)]
    /\ built' = [built EXCEPT ![Top.module] =
           [source |-> source[Top.module], rs |-> Top.rs, code |-> Top.code]]
    /\ written' = Append(written, Top.module)
Stays == UNCHANGED <<file, built, written>>

LEMMA InvWrite == ASSUME Inv, write_file PROVE Inv'
<1>1. Activations /\ Running /\ GoodActivation(Top) /\ Top.phase = "write"
  BY RunningTop DEF Inv, write_file, At
<1>2. PICK m, i : m = Top.module /\ i = source[m]
  OBVIOUS
<1>3. /\ m \in Name /\ i \in DOMAIN Source[m] /\ Text(m) = Source[m][i] /\ Source[m][i] # NoText /\ i # 0
      /\ Top.rs = Indexed(m, Source[m][i]) /\ Top.code = Generated(Top.rs) /\ Lives(Top.code)
      /\ Allocated(Source[m][i])
  BY <1>1, <1>2, SourceAssumption DEF Inv, Sources, GoodActivation, Collected, Text
<1>4. Object(Top.rs, Top.code) # NoFile
  BY <1>3, IndexedText
<1>5. UNCHANGED source /\ Sources'
  BY DEF write_file, Inv, Sources
<1>6. Activations'
  <2>1. IsSequence(stack') /\ \A k \in DOMAIN stack' : GoodActivation(stack'[k])
    BY <1>1, ReturnStack DEF write_file
  <2>2. QED
    BY <1>5, <2>1 DEF Activations, GoodActivation, Text
<1>7. FilesCompiled'
  <2> SUFFICES ASSUME Stores PROVE FilesCompiled'
    BY <1>5 DEF write_file, Stores, Stays, Inv, FilesCompiled, Compiled
  <2>1. PICK o, b : o = Object(Top.rs, Top.code) /\ b = [source |-> i, rs |-> Top.rs, code |-> Top.code]
    OBVIOUS
  <2>2. file' = [file EXCEPT ![m] = o] /\ built' = [built EXCEPT ![m] = b]
    BY <1>2, <2>1 DEF Stores
  <2>3. /\ file = [n \in Name |-> file[n]] /\ built = [n \in Name |-> built[n]]
        /\ \A n \in Name : Compiled(n)
    BY DEF Inv, FilesCompiled
  <2>4. /\ file' = [n \in Name |-> file'[n]] /\ built' = [n \in Name |-> built'[n]]
        /\ file'[m] = o /\ built'[m] = b
        /\ \A n \in Name \ {m} : file'[n] = file[n] /\ built'[n] = built[n]
    BY <1>3, <2>2, <2>3
  <2>5. ASSUME NEW n \in Name PROVE Compiled(n)'
    <3>1. CASE n = m
      BY <1>3, <1>4, <2>1, <2>4, <3>1 DEF Compiled
    <3>2. CASE n # m
      BY <2>3, <2>4, <3>2 DEF Compiled
    <3>3. QED
      BY <3>1, <3>2
  <2>6. QED
    BY <2>4, <2>5 DEF FilesCompiled
<1>8. Record'
  <2> SUFFICES ASSUME Stores PROVE Record'
    BY DEF write_file, Stores, Stays, Inv, Record
  <2>1. IsSequence(written) /\ \A k \in DOMAIN written : written[k] \in Name
    BY DEF Inv, Record
  <2>2. written' = Append(written, m)
    BY <1>2 DEF Stores
  <2>3. PICK s : s = Append(written, m)
    OBVIOUS
  <2>4. /\ IsSequence(s) /\ s[Len(written) + 1] = m
        /\ \A k \in DOMAIN written : s[k] = written[k]
        /\ DOMAIN s = DOMAIN written \cup {Len(written) + 1}
    BY <2>1, <2>3, AppendSequence
  <2>5. \A k \in DOMAIN s : s[k] \in Name
    BY <1>3, <2>1, <2>4
  <2>6. QED
    BY <2>2, <2>3, <2>4, <2>5 DEF Record
<1>9. QED
  BY <1>5, <1>6, <1>7, <1>8 DEF Inv

LEMMA InvEdit == ASSUME Inv, NEW m \in Name, edit(m) PROVE Inv'
<1>1. PICK i \in DOMAIN Source[m] : source' = [source EXCEPT ![m] = i]
  BY DEF edit
<1>2. Sources'
  BY <1>1 DEF Inv, Sources
<1>3. DOMAIN stack' = {} /\ stack' = stack
  BY EmptySequence DEF edit, Running
<1>4. Activations'
  BY <1>3 DEF Activations, Inv
<1>5. FilesCompiled' /\ Record'
  BY DEF edit, Inv, FilesCompiled, Compiled, Record
<1>6. QED
  BY <1>2, <1>4, <1>5 DEF Inv

LEMMA NextInv == Inv /\ [QbcNext]_qbc_vars => Inv'
<1>1. SUFFICES ASSUME Inv, [QbcNext]_qbc_vars PROVE Inv'
  OBVIOUS
<1>2. CASE compile_module
  BY <1>1, <1>2, InvOpen, InvCollect, InvLoad, InvReload, InvAllocate, InvGenerate, InvWrite DEF compile_module
<1>3. CASE overflow
  BY <1>1, <1>3, EmptyStack DEF overflow, DIE
<1>4. CASE \E m \in Name : qbc(m) \/ edit(m)
  BY <1>1, <1>4, InvQbc, InvEdit
<1>5. CASE UNCHANGED qbc_vars
  BY <1>1, <1>5, StackStep DEF qbc_vars, Inv, Activations
<1>6. QED
  BY <1>1, <1>2, <1>3, <1>4, <1>5 DEF QbcNext

(* What is on the stack and in the files was computed from texts of the    *)
(* modules it is about, however often compile_module() calls itself, and   *)
(* whatever is edited between the runs.                                    *)
THEOREM Invariance == QbcSpec => []Inv
<1>1. QbcInit => Inv
  BY InitInv
<1>2. QED
  BY <1>1, NextInv, PTL DEF QbcSpec

-----------------------------------------------------------------------------
(***************************************************************************)
(* What Build sees of a state.                                             *)
(***************************************************************************)
LEMMA BriefOf ==
    ASSUME NEW a
    PROVE  /\ Brief(a).module = a.module /\ Brief(a).phase = a.phase /\ Brief(a).todo = a.todo
           /\ DOMAIN Brief(a) = {"module", "phase", "todo"}
BY DEF Brief

(* Records with these fields are the same when their fields are.           *)
LEMMA SameBrief ==
    ASSUME NEW b, b = [f \in {"module", "phase", "todo"} |-> b[f]], NEW a,
           b.module = a.module, b.phase = a.phase, b.todo = a.todo
    PROVE  b = Brief(a)
BY DEF Brief

LEMMA SeenStack ==
    ASSUME NEW s, IsSequence(s)
    PROVE  /\ IsSequence(Briefs(s)) /\ Len(Briefs(s)) = Len(s) /\ DOMAIN Briefs(s) = DOMAIN s
           /\ \A k \in DOMAIN s : Briefs(s)[k] = Brief(s[k])
<1>1. Len(s) \in Nat /\ DOMAIN s = 1 .. Len(s)
  BY SequenceDomain
<1>2. PICK b : b = Briefs(s)
  OBVIOUS
<1>3. b = [k \in 1 .. Len(s) |-> Brief(s[k])]
  BY <1>1, <1>2 DEF Briefs
<1>4. b = [k \in 1 .. Len(s) |-> b[k]]
  BY <1>3
<1>5. IsSequence(b) /\ Len(b) = Len(s)
  BY <1>1, <1>4, SequenceLength
<1>6. QED
  BY <1>1, <1>2, <1>3, <1>5

LEMMA SameSequence ==
    ASSUME NEW s, NEW t, IsSequence(s), IsSequence(t), Len(s) = Len(t), \A k \in 1 .. Len(s) : s[k] = t[k]
    PROVE  s = t
BY DEF IsSequence

LEMMA SeenTop ==
    ASSUME Activations, Running
    PROVE  /\ B!Running /\ B!Top = Brief(Top) /\ Len(Briefs(stack)) = Len(stack)
           /\ \A phase : B!At(phase) <=> At(phase)
<1>1. IsSequence(stack) /\ Len(stack) \in DOMAIN stack /\ Len(stack) >= 1
  BY RunningTop DEF Activations
<1>2. Len(Briefs(stack)) = Len(stack) /\ Briefs(stack)[Len(stack)] = Brief(Top)
  BY <1>1, SeenStack DEF Top
<1>3. Briefs(stack) # <<>>
  BY <1>1, <1>2, EmptySequence
<1>4. B!Running /\ B!Top = Brief(Top)
  BY <1>2, <1>3 DEF B!Running, B!Top
<1>5. QED
  BY <1>2, <1>4, BriefOf DEF B!At, At

LEMMA SeenSet ==
    ASSUME Activations, Running, NEW t, GoodActivation(t)
    PROVE  Briefs(Set(t)) = B!Replace(Brief(t))
<1>1. IsSequence(stack) /\ DOMAIN stack = 1 .. Len(stack)
  BY SequenceDomain DEF Activations
<1>2. PICK b : b = Briefs(stack)
  OBVIOUS
<1>3. IsSequence(b) /\ Len(b) = Len(stack) /\ DOMAIN b = DOMAIN stack /\ \A k \in DOMAIN stack : b[k] = Brief(stack[k])
  BY <1>1, <1>2, SeenStack
<1>4. PICK s : s = Set(t)
  OBVIOUS
<1>5. /\ IsSequence(s) /\ Len(s) = Len(stack) /\ DOMAIN s = DOMAIN stack
      /\ \A k \in DOMAIN stack : s[k] = IF k = Len(stack) THEN t ELSE stack[k]
  BY <1>4, SetStack
<1>6. PICK c : c = [b EXCEPT ![Len(b)] = Brief(t)]
  OBVIOUS
<1>7. IsSequence(c) /\ Len(c) = Len(stack) /\ \A k \in DOMAIN stack : c[k] = IF k = Len(stack) THEN Brief(t) ELSE b[k]
  BY <1>3, <1>6, ExceptSequence
<1>8. IsSequence(Briefs(s)) /\ Len(Briefs(s)) = Len(stack) /\ \A k \in DOMAIN stack : Briefs(s)[k] = c[k]
  BY <1>3, <1>5, <1>7, SeenStack
<1>9. Briefs(s) = c
  BY <1>1, <1>7, <1>8, SameSequence
<1>10. QED
  BY <1>2, <1>4, <1>6, <1>9 DEF B!Replace

LEMMA SeenReturn ==
    ASSUME Activations, Running
    PROVE  Briefs(Return) = B!Return
<1>1. PICK n \in Nat : Len(stack) = n
  BY RunningTop
<1>2. IsSequence(stack) /\ DOMAIN stack = 1 .. n /\ n >= 1
  BY <1>1, RunningTop, SequenceDomain DEF Activations
<1>3. PICK b : b = Briefs(stack)
  OBVIOUS
<1>4. Len(b) = n /\ \A k \in DOMAIN stack : b[k] = Brief(stack[k])
  BY <1>1, <1>2, <1>3, SeenStack
<1>5. B!Return = [k \in 1 .. n - 1 |-> b[k]]
  BY <1>2, <1>3, <1>4 DEF B!Return
<1>6. PICK s : s = Return
  OBVIOUS
<1>7. DOMAIN s = 1 .. n - 1 /\ \A k \in DOMAIN s : k \in DOMAIN stack /\ s[k] = stack[k]
  BY <1>1, <1>6, ReturnStack
<1>8. Briefs(s) = [k \in 1 .. n - 1 |-> b[k]]
  BY <1>4, <1>7 DEF Briefs
<1>9. QED
  BY <1>5, <1>6, <1>8

LEMMA SeenAppend ==
    ASSUME NEW s, IsSequence(s), NEW a
    PROVE  Briefs(Append(s, a)) = Append(Briefs(s), Brief(a))
<1>1. PICK b, t : b = Briefs(s) /\ t = Append(s, a)
  OBVIOUS
<1>2. IsSequence(b) /\ Len(b) = Len(s) /\ DOMAIN b = DOMAIN s /\ \A k \in DOMAIN s : b[k] = Brief(s[k])
  BY <1>1, SeenStack
<1>3. /\ IsSequence(t) /\ Len(t) = Len(s) + 1 /\ t[Len(s) + 1] = a
      /\ (\A k \in DOMAIN s : t[k] = s[k]) /\ DOMAIN t = DOMAIN s \cup {Len(s) + 1}
  BY <1>1, AppendSequence
<1>4. PICK c : c = Append(b, Brief(a))
  OBVIOUS
<1>5. /\ IsSequence(c) /\ Len(c) = Len(s) + 1 /\ c[Len(s) + 1] = Brief(a)
      /\ (\A k \in DOMAIN s : c[k] = b[k])
  BY <1>2, <1>4, AppendSequence
<1>6. IsSequence(Briefs(t)) /\ Len(Briefs(t)) = Len(t) /\ \A k \in DOMAIN t : Briefs(t)[k] = Brief(t[k])
  BY <1>3, SeenStack
<1>7. DOMAIN t = 1 .. Len(t)
  BY <1>3, SequenceDomain
<1>8. \A k \in 1 .. Len(t) : Briefs(t)[k] = c[k]
  BY <1>2, <1>3, <1>5, <1>6, <1>7
<1>9. Briefs(t) = c
  BY <1>3, <1>5, <1>6, <1>8, SameSequence
<1>10. QED
  BY <1>1, <1>4, <1>9

LEMMA SeenActivation ==
    ASSUME NEW m PROVE Brief(Activation(m)) = B!Activation(m)
BY DEF Brief, Activation, B!Activation

LEMMA SeenEmpty == Briefs(<<>>) = <<>>
<1>1. IsSequence(<<>>) /\ Len(<<>>) = 0
  BY EmptySequence
<1>2. IsSequence(Briefs(<<>>)) /\ Len(Briefs(<<>>)) = 0
  BY <1>1, SeenStack
<1>3. QED
  BY <1>1, <1>2, SameSequence

(* A text, as Build describes it.                                          *)
LEMMA SeenText ==
    ASSUME Sources, NEW m \in Name
    PROVE  /\ Current[m] = Describe(m, Text(m)) /\ Current[m] \in Texts[m]
           /\ Current[m].present <=> Text(m) # NoText
           /\ Text(m) # NoText =>
                 /\ Current[m].imports = Indexed(m, Text(m)).names
                 /\ Current[m].allocates = Allocated(Text(m))
                 /\ Allocated(Text(m)) => (Current[m].generates <=> Lives(Generated(Indexed(m, Text(m)))))
<1>1. source[m] \in DOMAIN Source[m]
  BY DEF Sources
<1>2. Described[m][source[m]] = Describe(m, Text(m))
  BY <1>1 DEF Described, Text
<1>3. Current[m] = Describe(m, Text(m)) /\ Current[m] \in Texts[m]
  BY <1>1, <1>2 DEF Current, Texts
<1>4. CASE Text(m) = NoText
  <2>1. Current[m].present = FALSE
    BY <1>3, <1>4 DEF Describe
  <2>2. QED
    BY <1>3, <1>4, <2>1
<1>5. CASE Text(m) # NoText
  <2>1. PICK code : code = IF Allocated(Text(m)) THEN Generated(Indexed(m, Text(m))) ELSE <<>>
    OBVIOUS
  <2>2. Current[m] = [present |-> TRUE, imports |-> Indexed(m, Text(m)).names, allocates |-> Allocated(Text(m)),
                      generates |-> Lives(code)]
    BY <1>3, <1>5, <2>1 DEF Describe, Lives
  <2>3. /\ Current[m].present = TRUE /\ Current[m].imports = Indexed(m, Text(m)).names
        /\ Current[m].allocates = Allocated(Text(m)) /\ Current[m].generates = Lives(code)
    BY <2>2
  <2>4. Allocated(Text(m)) => code = Generated(Indexed(m, Text(m)))
    BY <2>1
  <2>5. QED
    BY <1>3, <1>5, <2>3, <2>4
<1>6. QED
  BY <1>4, <1>5

(* Nothing but the stack of what Build sees has changed.                   *)
LEMMA SeenSame ==
    ASSUME UNCHANGED <<source, file, built, written>>
    PROVE  UNCHANGED <<Current, Present, Needs, Times(written)>>
BY DEF Current, Present, Needs, Times

-----------------------------------------------------------------------------
(***************************************************************************)
(* Qbc implements Build: each of its actions is one of Build's.            *)
(***************************************************************************)
LEMMA TimesEmpty == Times(<<>>) = [m \in Name |-> 0]
<1>1. \A m : {k \in DOMAIN <<>> : <<>>[k] = m} = {}
  OBVIOUS
<1>2. QED
  BY <1>1, FS_EmptySet DEF Times

LEMMA TimesAppend ==
    ASSUME NEW s, IsSequence(s), NEW m \in Name
    PROVE  Times(Append(s, m)) = [Times(s) EXCEPT ![m] = @ + 1]
<1>1. PICK n \in Nat : n = Len(s)
  BY SequenceDomain
<1>2. PICK t : t = Append(s, m)
  OBVIOUS
<1>3. DOMAIN s = 1 .. n /\ DOMAIN t = DOMAIN s \cup {n + 1} /\ t[n + 1] = m /\ \A k \in DOMAIN s : t[k] = s[k]
  BY <1>1, <1>2, AppendSequence, SequenceDomain
<1>4. ASSUME NEW x \in Name
      PROVE  Cardinality({k \in DOMAIN t : t[k] = x})
               = IF x = m THEN Cardinality({k \in DOMAIN s : s[k] = x}) + 1 ELSE Cardinality({k \in DOMAIN s : s[k] = x})
  <2>1. PICK S : S = {k \in DOMAIN s : s[k] = x}
    OBVIOUS
  <2>2. IsFiniteSet(S)
    <3>1. IsFiniteSet(1 .. n)
      BY FS_Interval
    <3>2. S \subseteq 1 .. n
      BY <1>3, <2>1
    <3>3. QED
      BY <3>1, <3>2, FS_Subset
  <2>3. n + 1 \notin S
    BY <1>3, <2>1
  <2>4. CASE x = m
    <3>1. {k \in DOMAIN t : t[k] = x} = S \cup {n + 1}
      BY <1>3, <2>1, <2>4
    <3>2. Cardinality(S \cup {n + 1}) = Cardinality(S) + 1
      BY <2>2, <2>3, FS_AddElement
    <3>3. QED
      BY <2>1, <2>4, <3>1, <3>2
  <2>5. CASE x # m
    <3>1. {k \in DOMAIN t : t[k] = x} = S
      BY <1>3, <2>1, <2>5
    <3>2. QED
      BY <2>1, <2>5, <3>1
  <2>6. QED
    BY <2>4, <2>5
<1>5. Times(t) = [Times(s) EXCEPT ![m] = @ + 1]
  BY <1>4 DEF Times
<1>6. QED
  BY <1>2, <1>5

LEMMA ImplementsInit == ASSUME QbcInit PROVE B!Init
<1>1. Sources
  BY InitInv DEF Inv
<1>2. \A m \in Name : Current[m] \in Texts[m]
  BY <1>1, SeenText
<1>3. Current = [m \in Name |-> Current[m]]
  BY DEF Current
<1>4. Current \in [Name -> UNION {Texts[m] : m \in Name}]
  BY <1>2, <1>3
<1>5. Present = {} /\ Needs = [m \in Name |-> {}]
  BY DEF QbcInit, Present, Needs, NotBuilt
<1>6. Briefs(stack) = <<>> /\ Times(written) = [m \in Name |-> 0]
  BY SeenEmpty, TimesEmpty DEF QbcInit
<1>7. QED
  BY <1>2, <1>4, <1>5, <1>6 DEF QbcInit, B!Init

LEMMA DoesQbc == ASSUME Inv, NEW m \in Name, qbc(m) PROVE B!qbc(m)
<1>1. Briefs(stack) = <<>>
  BY SeenEmpty DEF qbc, Running
<1>2. Briefs(stack)' = <<B!Activation(m)>>
  <2>1. PICK a : a = Activation(m)
    OBVIOUS
  <2>2. Briefs(<<a>>) = <<Brief(a)>>
    BY DEF Briefs
  <2>3. stack' = <<a>>
    BY <2>1 DEF qbc
  <2>4. QED
    BY <2>1, <2>2, <2>3, SeenActivation
<1>3. UNCHANGED <<Current, Present, Needs>>
  BY DEF qbc, Current, Present, Needs
<1>4. Times(written)' = [n \in Name |-> 0]
  BY TimesEmpty DEF qbc
<1>5. QED
  BY <1>1, <1>2, <1>3, <1>4 DEF qbc, B!qbc, B!Running

(* A step of the activation on top that changes no file and no source.     *)
LEMMA SetBrief ==
    ASSUME Inv, Running, NEW t, GoodActivation(t), stack' = Set(t), NEW b, b = Brief(t)
    PROVE  Briefs(stack)' = B!Replace(b)
<1>1. Briefs(Set(t)) = B!Replace(b)
  BY SeenSet DEF Inv
<1>2. QED
  BY <1>1

LEMMA DoesOpen == ASSUME Inv, open_source PROVE B!open_source
<1>1. /\ Activations /\ Sources /\ Running /\ GoodActivation(Top) /\ Top.phase = "open"
      /\ B!At("open") /\ B!Top = Brief(Top) /\ B!Top.module = Top.module
  BY RunningTop, SeenTop, BriefOf DEF Inv, open_source, At
<1>2. Current[Top.module].present <=> Text(Top.module) # NoText
  BY <1>1, SeenText DEF GoodActivation
<1>3. UNCHANGED <<Current, Present, Needs, modmap, Times(written), died, runs>>
  BY SeenSame DEF open_source
<1>4. CASE Text(Top.module) = NoText
  <2>1. stack' = Return
    BY <1>4 DEF open_source
  <2>2. Briefs(stack)' = B!Return
    BY <1>1, <2>1, SeenReturn
  <2>3. QED
    BY <1>1, <1>2, <1>3, <1>4, <2>2 DEF B!open_source
<1>5. CASE Text(Top.module) # NoText
  <2>1. PICK t, b : t = [Top EXCEPT !.phase = "collect"] /\ b = [B!Top EXCEPT !.phase = "collect"]
    OBVIOUS
  <2>2. GoodActivation(t)
    BY <1>1, <1>5, <2>1 DEF GoodActivation, Collected
  <2>3. b = Brief(t)
    BY <1>1, <2>1 DEF Brief, GoodActivation
  <2>4. Briefs(stack)' = B!Replace(b)
    BY <1>1, <1>5, <2>1, <2>2, <2>3, SetBrief DEF open_source
  <2>5. QED
    BY <1>1, <1>2, <1>3, <1>5, <2>1, <2>4 DEF B!open_source
<1>6. QED
  BY <1>4, <1>5

LEMMA DoesCollect == ASSUME Inv, collect_and_index PROVE B!collect_and_index
<1>1. /\ Activations /\ Sources /\ Running /\ GoodActivation(Top) /\ Top.phase = "collect"
      /\ B!At("collect") /\ B!Top = Brief(Top) /\ B!Top.module = Top.module
  BY RunningTop, SeenTop, BriefOf DEF Inv, collect_and_index, At
<1>2. PICK rs : rs = Indexed(Top.module, Text(Top.module))
  OBVIOUS
<1>3. Current[Top.module].imports = rs.names
  BY <1>1, <1>2, SeenText DEF GoodActivation
<1>4. UNCHANGED <<Current, Present, Needs, modmap, Times(written), died, runs>>
  BY SeenSame DEF collect_and_index
<1>5. PICK t, b : /\ t = [Top EXCEPT !.phase = "import", !.rs = rs, !.todo = rs.names]
                  /\ b = [B!Top EXCEPT !.phase = "import", !.todo = Current[B!Top.module].imports]
  OBVIOUS
<1>6. GoodActivation(t)
  BY <1>1, <1>2, <1>5 DEF GoodActivation, Collected
<1>7. b = Brief(t)
  BY <1>1, <1>3, <1>5 DEF Brief, GoodActivation
<1>8. Briefs(stack)' = B!Replace(b)
  BY <1>1, <1>2, <1>5, <1>6, <1>7, SetBrief DEF collect_and_index
<1>9. QED
  BY <1>1, <1>4, <1>5, <1>8 DEF B!collect_and_index

LEMMA SeenReadable == ASSUME NEW m PROVE Readable(m) <=> m \in Present
BY DEF Readable, Present

LEMMA DoesLoad == ASSUME Inv, load_imported_modules PROVE \E m \in Name : B!load_imported_modules(m)
<1>1. /\ Activations /\ Running /\ GoodActivation(Top) /\ Top.phase = "import" /\ Top.todo # {}
      /\ B!At("import") /\ B!Top = Brief(Top) /\ B!Top.todo = Top.todo
  BY RunningTop, SeenTop, BriefOf DEF Inv, load_imported_modules, At
<1>2. PICK m : m = Next_import(Top.todo)
  OBVIOUS
<1>3. m \in Name /\ m \in Top.todo /\ m = B!Next_import(B!Top.todo)
  <2>1. m \in Name /\ m \in Top.todo
    BY <1>1, <1>2, ToImport, NextImport
  <2>2. m = B!Next_import(Top.todo)
    BY <1>2 DEF Next_import, B!Next_import
  <2>3. QED
    BY <1>1, <2>1, <2>2
<1>4. UNCHANGED <<Current, Present, Needs, modmap, Times(written), died, runs>>
  BY SeenSame DEF load_imported_modules
<1>5. CASE m \in modmap \/ Readable(m)
  <2>1. PICK t, b : t = [Top EXCEPT !.todo = @ \ {m}] /\ b = [B!Top EXCEPT !.todo = @ \ {m}]
    OBVIOUS
  <2>2. GoodActivation(t)
    BY <1>1, <2>1 DEF GoodActivation, Collected
  <2>3. b = Brief(t)
    BY <1>1, <2>1 DEF Brief, GoodActivation
  <2>4. stack' = Set(t)
    BY <1>2, <1>5, <2>1 DEF load_imported_modules
  <2>5. Briefs(stack)' = B!Replace(b)
    BY <1>1, <2>2, <2>3, <2>4, SetBrief
  <2>6. B!load_imported_modules(m)
    BY <1>1, <1>3, <1>4, <1>5, <2>1, <2>5, SeenReadable DEF B!load_imported_modules
  <2>7. QED
    BY <1>3, <2>6
<1>6. CASE ~(m \in modmap \/ Readable(m))
  <2>1. PICK t, b : t = [Top EXCEPT !.phase = "reload"] /\ b = [B!Top EXCEPT !.phase = "reload"]
    OBVIOUS
  <2>2. GoodActivation(t)
    BY <1>1, <2>1 DEF GoodActivation, Collected
  <2>3. b = Brief(t)
    BY <1>1, <2>1 DEF Brief, GoodActivation
  <2>4. PICK s : s = Set(t)
    OBVIOUS
  <2>5. stack' = Append(s, Activation(m))
    BY <1>2, <1>6, <2>1, <2>4 DEF load_imported_modules
  <2>6. IsSequence(s) /\ Briefs(s) = B!Replace(b)
    BY <1>1, <2>2, <2>3, <2>4, SetStack, SeenSet
  <2>7. Briefs(Append(s, Activation(m))) = Append(B!Replace(b), B!Activation(m))
    BY <2>6, SeenAppend, SeenActivation
  <2>8. Briefs(stack)' = Append(B!Replace(b), B!Activation(m))
    BY <2>5, <2>7
  <2>9. B!load_imported_modules(m)
    BY <1>1, <1>3, <1>4, <1>6, <2>1, <2>8, SeenReadable DEF B!load_imported_modules
  <2>10. QED
    BY <1>3, <2>9
<1>7. QED
  BY <1>5, <1>6

LEMMA Dies == ASSUME DIE PROVE B!DIE
<1>1. Briefs(stack)' = <<>>
  BY SeenEmpty DEF DIE
<1>2. QED
  BY <1>1 DEF DIE, B!DIE

LEMMA DoesReload == ASSUME Inv, reload PROVE \E m \in Name : B!reload(m)
<1>1. /\ Activations /\ Running /\ GoodActivation(Top) /\ Top.phase = "reload" /\ Top.todo # {}
      /\ B!At("reload") /\ B!Top = Brief(Top) /\ B!Top.todo = Top.todo
  BY RunningTop, SeenTop, BriefOf DEF Inv, reload, At, GoodActivation
<1>2. PICK m : m = Next_import(Top.todo)
  OBVIOUS
<1>3. m \in Name /\ m \in Top.todo /\ m = B!Next_import(B!Top.todo)
  <2>1. m \in Name /\ m \in Top.todo
    BY <1>1, <1>2, ToImport, NextImport
  <2>2. m = B!Next_import(Top.todo)
    BY <1>2 DEF Next_import, B!Next_import
  <2>3. QED
    BY <1>1, <2>1, <2>2
<1>4. UNCHANGED <<Current, Present, Needs, Times(written), runs>>
  BY SeenSame DEF reload
<1>5. CASE Readable(m)
  <2>1. PICK t, b : /\ t = [Top EXCEPT !.phase = "import", !.todo = @ \ {m}]
                    /\ b = [B!Top EXCEPT !.phase = "import", !.todo = @ \ {m}]
    OBVIOUS
  <2>2. GoodActivation(t)
    BY <1>1, <2>1 DEF GoodActivation, Collected
  <2>3. b = Brief(t)
    BY <1>1, <2>1 DEF Brief, GoodActivation
  <2>4. stack' = Set(t) /\ modmap' = modmap \cup {m} /\ UNCHANGED died
    BY <1>2, <1>5, <2>1 DEF reload
  <2>5. Briefs(stack)' = B!Replace(b)
    BY <1>1, <2>2, <2>3, <2>4, SetBrief
  <2>6. B!reload(m)
    BY <1>1, <1>3, <1>4, <1>5, <2>1, <2>4, <2>5, SeenReadable DEF B!reload
  <2>7. QED
    BY <1>3, <2>6
<1>6. CASE ~Readable(m)
  <2>1. B!DIE /\ UNCHANGED modmap
    BY <1>2, <1>6, Dies DEF reload
  <2>2. B!reload(m)
    BY <1>1, <1>3, <1>4, <1>6, <2>1, SeenReadable DEF B!reload
  <2>3. QED
    BY <1>3, <2>2
<1>7. QED
  BY <1>5, <1>6

LEMMA DoesAllocate == ASSUME Inv, allocate PROVE B!allocate
<1>1. /\ Activations /\ Sources /\ Running /\ GoodActivation(Top) /\ Top.phase = "import" /\ Top.todo = {}
      /\ B!At("import") /\ B!Top = Brief(Top) /\ B!Top.module = Top.module /\ B!Top.todo = Top.todo
  BY RunningTop, SeenTop, BriefOf DEF Inv, allocate, At
<1>2. Current[Top.module].allocates = Allocated(Text(Top.module))
  BY <1>1, SeenText DEF GoodActivation
<1>3. UNCHANGED <<Current, Present, Needs, modmap, Times(written), runs>>
  BY SeenSame DEF allocate
<1>4. CASE Allocated(Text(Top.module))
  <2>1. PICK t, b : t = [Top EXCEPT !.phase = "generate"] /\ b = [B!Top EXCEPT !.phase = "generate"]
    OBVIOUS
  <2>2. GoodActivation(t)
    BY <1>1, <1>4, <2>1 DEF GoodActivation, Collected
  <2>3. b = Brief(t)
    BY <1>1, <2>1 DEF Brief, GoodActivation
  <2>4. stack' = Set(t) /\ UNCHANGED died
    BY <1>4, <2>1 DEF allocate
  <2>5. Briefs(stack)' = B!Replace(b)
    BY <1>1, <2>2, <2>3, <2>4, SetBrief
  <2>6. QED
    BY <1>1, <1>2, <1>3, <1>4, <2>1, <2>4, <2>5 DEF B!allocate
<1>5. CASE ~Allocated(Text(Top.module))
  <2>1. B!DIE
    BY <1>5, Dies DEF allocate
  <2>2. QED
    BY <1>1, <1>2, <1>3, <1>5, <2>1 DEF B!allocate
<1>6. QED
  BY <1>4, <1>5

LEMMA DoesGenerate == ASSUME Inv, generate PROVE B!generate
<1>1. /\ Activations /\ Sources /\ Running /\ GoodActivation(Top) /\ Top.phase = "generate"
      /\ B!At("generate") /\ B!Top = Brief(Top) /\ B!Top.module = Top.module
  BY RunningTop, SeenTop, BriefOf DEF Inv, generate, At
<1>2. PICK code : code = Generated(Top.rs)
  OBVIOUS
<1>3. Current[Top.module].generates <=> Lives(code)
  <2>1. /\ Top.module \in Name /\ Text(Top.module) # NoText /\ Allocated(Text(Top.module))
        /\ Top.rs = Indexed(Top.module, Text(Top.module))
    BY <1>1 DEF GoodActivation, Collected
  <2>2. QED
    BY <1>1, <1>2, <2>1, SeenText
<1>4. UNCHANGED <<Current, Present, Needs, modmap, Times(written), runs>>
  BY SeenSame DEF generate
<1>5. CASE Lives(code)
  <2>1. PICK t, b : t = [Top EXCEPT !.phase = "write", !.code = code] /\ b = [B!Top EXCEPT !.phase = "write"]
    OBVIOUS
  <2>2. GoodActivation(t)
    BY <1>1, <1>2, <1>5, <2>1 DEF GoodActivation, Collected
  <2>3. b = Brief(t)
    BY <1>1, <2>1 DEF Brief, GoodActivation
  <2>4. stack' = Set(t) /\ UNCHANGED died
    BY <1>2, <1>5, <2>1 DEF generate, Lives
  <2>5. Briefs(stack)' = B!Replace(b)
    BY <1>1, <2>2, <2>3, <2>4, SetBrief
  <2>6. QED
    BY <1>1, <1>3, <1>4, <1>5, <2>1, <2>4, <2>5 DEF B!generate
<1>6. CASE ~Lives(code)
  <2>1. B!DIE
    BY <1>2, <1>6, Dies DEF generate, Lives
  <2>2. QED
    BY <1>1, <1>3, <1>4, <1>6, <2>1 DEF B!generate
<1>7. QED
  BY <1>5, <1>6

LEMMA DoesStore == ASSUME Inv, write_file, Stores PROVE B!write_file
<1>1. /\ Activations /\ Sources /\ Running /\ GoodActivation(Top) /\ Top.phase = "write"
      /\ B!At("write") /\ B!Top = Brief(Top) /\ B!Top.module = Top.module
  BY RunningTop, SeenTop, BriefOf DEF Inv, write_file, At
<1>2. PICK m : m = Top.module
  OBVIOUS
<1>3. m \in Name /\ Text(m) # NoText /\ Top.rs = Indexed(m, Text(m))
  BY <1>1, <1>2 DEF GoodActivation, Collected
<1>4. Current[m].imports = Top.rs.names
  BY <1>1, <1>3, SeenText
<1>5. Inv'
  BY InvWrite
<1>6. PICK o, b : /\ o = Object(Top.rs, Top.code)
                  /\ b = [source |-> source[m], rs |-> Top.rs, code |-> Top.code]
  OBVIOUS
<1>7. file' = [file EXCEPT ![m] = o] /\ built' = [built EXCEPT ![m] = b]
  BY <1>2, <1>6 DEF Stores
<1>8. /\ file'[m] = o /\ built'[m] = b
      /\ \A n \in Name \ {m} : file'[n] = file[n] /\ built'[n] = built[n]
  <2>1. file = [n \in Name |-> file[n]] /\ built = [n \in Name |-> built[n]]
    BY DEF Inv, FilesCompiled
  <2>2. QED
    BY <1>3, <1>7, <2>1
<1>9. source[m] # 0
  BY <1>1, <1>3, SourceAssumption DEF Sources
<1>10. o # NoFile
  <2>1. Compiled(m)'
    BY <1>3, <1>5 DEF Inv, FilesCompiled
  <2>2. QED
    BY <1>6, <1>8, <1>9, <2>1 DEF Compiled
<1>11. Present' = Present \cup {m}
  BY <1>3, <1>8, <1>10 DEF Present
<1>12. Needs' = [Needs EXCEPT ![m] = Current[m].imports]
  <2>1. built'[m].source # 0 /\ built'[m].rs.names = Current[m].imports
    BY <1>4, <1>6, <1>8, <1>9
  <2>2. PICK imports : imports = Current[m].imports
    OBVIOUS
  <2>3. \A n \in Name : (IF built'[n].source = 0 THEN {} ELSE built'[n].rs.names)
                          = IF n = m THEN imports ELSE IF built[n].source = 0 THEN {} ELSE built[n].rs.names
    BY <1>8, <2>1, <2>2
  <2>4. Needs' = [Needs EXCEPT ![m] = imports]
    BY <2>3 DEF Needs
  <2>5. QED
    BY <2>2, <2>4
<1>13. Times(written)' = [Times(written) EXCEPT ![m] = @ + 1]
  <2>1. written' = Append(written, m)
    BY <1>2 DEF Stores
  <2>2. Times(Append(written, m)) = [Times(written) EXCEPT ![m] = @ + 1]
    BY <1>3, TimesAppend DEF Inv, Record
  <2>3. QED
    BY <2>1, <2>2
<1>14. Briefs(stack)' = B!Return
  <2>1. stack' = Return
    BY DEF write_file
  <2>2. QED
    BY <1>1, <2>1, SeenReturn
<1>15. UNCHANGED <<Current, modmap, died, runs>>
  BY DEF write_file, Current
<1>16. QED
  BY <1>1, <1>2, <1>11, <1>12, <1>13, <1>14, <1>15 DEF B!write_file

LEMMA DoesWrite == ASSUME Inv, write_file PROVE B!write_file
<1>1. CASE Stores
  BY <1>1, DoesStore
<1>2. CASE Stays
  <2>1. /\ Activations /\ Running /\ B!At("write")
    BY RunningTop, SeenTop, BriefOf DEF Inv, write_file, At
  <2>2. UNCHANGED <<Present, Needs, Times(written)>>
    BY <1>2 DEF Stays, Present, Needs, Times
  <2>3. Briefs(stack)' = B!Return
    BY <2>1, SeenReturn DEF write_file
  <2>4. UNCHANGED <<Current, modmap, died, runs>>
    BY DEF write_file, Current
  <2>5. QED
    BY <2>1, <2>2, <2>3, <2>4 DEF B!write_file
<1>3. QED
  BY <1>1, <1>2 DEF write_file, Stores, Stays

LEMMA DoesOverflow == ASSUME Inv, overflow PROVE B!overflow
<1>1. Len(Briefs(stack)) = Len(stack)
  BY SeenStack DEF Inv, Activations
<1>2. B!DIE /\ UNCHANGED <<Current, Present, Needs, modmap, Times(written), runs>>
  BY Dies, SeenSame DEF overflow
<1>3. QED
  BY <1>1, <1>2 DEF overflow, B!overflow

LEMMA DoesEdit == ASSUME Inv, NEW m \in Name, edit(m) PROVE B!edit(m)
<1>1. PICK i \in DOMAIN Source[m] : source' = [source EXCEPT ![m] = i]
  BY DEF edit
<1>2. Described[m][i] \in Texts[m]
  BY DEF Texts
<1>3. Current' = [Current EXCEPT ![m] = Described[m][i]]
  BY <1>1 DEF Current, Inv, Sources
<1>4. ~B!Running
  BY SeenEmpty DEF edit, Running, B!Running
<1>5. UNCHANGED <<Present, Needs, Briefs(stack), modmap, Times(written), died, runs>>
  BY DEF edit, Present, Needs, Briefs, Times
<1>6. QED
  BY <1>2, <1>3, <1>4, <1>5 DEF B!edit

LEMMA ImplementsNext == ASSUME Inv, [QbcNext]_qbc_vars PROVE [B!Next]_B!vars
<1>1. CASE compile_module
  <2>1. Len(Briefs(stack)) <= MaxDepth
    BY <1>1, SeenStack DEF compile_module, Inv, Activations
  <2>2. \/ B!open_source \/ B!collect_and_index
        \/ \E m \in Name : B!load_imported_modules(m)
        \/ \E m \in Name : B!reload(m)
        \/ B!allocate \/ B!generate \/ B!write_file
    BY <1>1, DoesOpen, DoesCollect, DoesLoad, DoesReload, DoesAllocate, DoesGenerate, DoesWrite DEF compile_module
  <2>3. B!compile_module
    BY <2>1, <2>2 DEF B!compile_module
  <2>4. QED
    BY <2>3 DEF B!Next
<1>2. CASE overflow
  BY <1>2, DoesOverflow DEF B!Next
<1>3. CASE \E m \in Name : qbc(m) \/ edit(m)
  BY <1>3, DoesQbc, DoesEdit DEF B!Next
<1>4. CASE UNCHANGED qbc_vars
  <2>1. UNCHANGED <<source, file, stack, modmap, written, built, died, runs>>
    BY <1>4 DEF qbc_vars
  <2>2. UNCHANGED <<Current, Present, Needs, Times(written)>>
    BY <2>1, SeenSame
  <2>3. Briefs(stack)' = Briefs(stack)
    BY <2>1
  <2>4. QED
    BY <2>1, <2>2, <2>3 DEF B!vars
<1>5. QED
  BY <1>1, <1>2, <1>3, <1>4 DEF QbcNext

(* Whatever the phases of compile_module() compute, qbc writes the files   *)
(* Build says, when Build says it.                                         *)
THEOREM Refinement == QbcSpec => WritesAsBuild
<1>1. QbcInit => B!Init
  BY ImplementsInit
<1>2. Inv /\ [QbcNext]_qbc_vars => [B!Next]_B!vars
  BY ImplementsNext
<1>3. QED
  BY <1>1, <1>2, Invariance, PTL DEF QbcSpec, WritesAsBuild

-----------------------------------------------------------------------------
(***************************************************************************)
(* What BuildProof shows of Build, said of the files.                      *)
(***************************************************************************)
P == INSTANCE BuildProof WITH
        Source <- Texts, source <- Current, file <- Present, needs <- Needs, cut <- {}, stopped <- {},
        stack <- Briefs(stack), written <- Times(written)

LEMMA BuildSources == P!SourceAssumption /\ P!BoundsAssumption /\ P!OrderAssumption
<1>1. ASSUME NEW m \in Name, NEW t \in Texts[m] PROVE t \in P!Text /\ m \notin t.imports
  <2>1. PICK i \in DOMAIN Source[m] : t = Describe(m, Source[m][i])
    BY DEF Texts, Described
  <2>2. CASE Source[m][i] = NoText
    BY <2>1, <2>2 DEF Describe, P!Text
  <2>3. CASE Source[m][i] # NoText
    <3>1. PICK rs : rs = Indexed(m, Source[m][i])
      OBVIOUS
    <3>2. PICK code : code = IF Allocated(Source[m][i]) THEN Generated(rs) ELSE <<>>
      OBVIOUS
    <3>3. rs.names \subseteq Name \ {m} /\ Allocated(Source[m][i]) \in BOOLEAN
      BY <2>3, <3>1, IndexedText
    <3>4. t = [present |-> TRUE, imports |-> rs.names, allocates |-> Allocated(Source[m][i]), generates |-> Lives(code)]
      BY <2>1, <2>3, <3>1, <3>2 DEF Describe, Lives
    <3>5. Lives(code) \in BOOLEAN
      BY DEF Lives
    <3>6. QED
      BY <3>3, <3>4, <3>5 DEF P!Text
  <2>4. QED
    BY <2>2, <2>3
<1>2. QED
  BY <1>1, BoundsAssumption, OrderAssumption

LEMMA SameInit == B!Init => P!Init
BY DEF B!Init, P!Init

LEMMA SameNext == [B!Next]_B!vars => [P!Next]_P!vars
BY DEF B!Next, P!Next, B!vars, P!vars, B!compile_module, P!compile_module, B!overflow, P!overflow, B!kill, P!kill,
       B!qbc, P!qbc, B!edit, P!edit, B!open_source, P!open_source, B!collect_and_index, P!collect_and_index,
       B!load_imported_modules, P!load_imported_modules, B!reload, P!reload, B!allocate, P!allocate,
       B!generate, P!generate, B!write_file, P!write_file, B!DIE, P!DIE, B!At, P!At, B!Top, P!Top, B!Running,
       P!Running, B!Replace, P!Replace, B!Return, P!Return, B!Activation, P!Activation, B!Next_import, P!Next_import

LEMMA BuildInvariance == QbcSpec => []P!Inv
<1>1. QbcInit => P!Inv
  BY ImplementsInit, SameInit, BuildSources, P!InitInv
<1>2. Inv /\ P!Inv /\ [QbcNext]_qbc_vars => P!Inv'
  BY ImplementsNext, SameNext, BuildSources, P!NextInv
<1>3. QED
  BY <1>1, <1>2, Invariance, PTL DEF QbcSpec

(* The object files of all modules that a module was compiled with are     *)
(* there, as the runtime needs when it loads the module.                   *)
ImportsThere == \A m \in Name : file[m] # NoFile => \A n \in built[m].rs.names : file[n] # NoFile
THEOREM ImportsStay == QbcSpec => []ImportsThere
<1>1. Inv /\ P!Inv => ImportsThere
  <2>1. SUFFICES ASSUME Inv, P!Inv, NEW m \in Name, file[m] # NoFile, NEW n \in built[m].rs.names
                 PROVE  file[n] # NoFile
    BY DEF ImportsThere
  <2>2. built[m].source # 0 /\ m \in Present
    BY <2>1 DEF Inv, FilesCompiled, Compiled, Present
  <2>3. Needs[m] = built[m].rs.names
    BY <2>2 DEF Needs
  <2>4. Needs[m] \subseteq Present
    BY <2>1, <2>2 DEF P!Inv, P!ImportsFirst
  <2>5. QED
    BY <2>1, <2>3, <2>4 DEF Present
<1>2. QED
  BY <1>1, Invariance, BuildInvariance, PTL

(* No run writes the file of a module twice.                               *)
THEOREM WritesApart == QbcSpec => [](IsInjective(written))
<1>1. Inv /\ P!Inv => IsInjective(written)
  <2>1. SUFFICES ASSUME Inv, P!Inv, NEW i \in DOMAIN written, NEW j \in DOMAIN written, written[i] = written[j], i # j
                 PROVE  FALSE
    BY DEF IsInjective
  <2>2. PICK m, S : m = written[i] /\ S = {k \in DOMAIN written : written[k] = m}
    OBVIOUS
  <2>3. m \in Name /\ i \in S /\ j \in S
    BY <2>1, <2>2 DEF Inv, Record
  <2>4. IsFiniteSet(S)
    <3>1. DOMAIN written = 1 .. Len(written) /\ Len(written) \in Nat
      BY <2>1, SequenceDomain DEF Inv, Record
    <3>2. IsFiniteSet(1 .. Len(written))
      BY <3>1, FS_Interval
    <3>3. QED
      BY <2>2, <3>1, <3>2, FS_Subset
  <2>5. Cardinality({i, j}) = 2
    <3>1. IsFiniteSet({i}) /\ Cardinality({i}) = 1
      BY FS_Singleton
    <3>2. Cardinality({i} \cup {j}) = 2
      BY <2>1, <3>1, FS_AddElement
    <3>3. {i, j} = {i} \cup {j}
      OBVIOUS
    <3>4. QED
      BY <3>2, <3>3
  <2>6. Cardinality({i, j}) <= Cardinality(S) /\ Cardinality(S) \in Nat
    BY <2>3, <2>4, FS_Subset, FS_CardinalityType
  <2>7. Times(written)[m] = Cardinality(S)
    BY <2>2, <2>3 DEF Times
  <2>8. Times(written)[m] <= 1
    BY <2>1, <2>3 DEF P!Inv, P!WrittenOnce
  <2>9. QED
    BY <2>5, <2>6, <2>7, <2>8
<1>2. QED
  BY <1>1, Invariance, BuildInvariance, PTL

-----------------------------------------------------------------------------
(***************************************************************************)
(* Registers: the requests are answered one by one.                        *)
(***************************************************************************)
Answers(argc, all) ==
    CHOOSE ra : ra = [n \in 0 .. Len(all) |-> IF n = 0 THEN RegAlloc(argc) ELSE Answer(ra[n - 1], all[n])]

LEMMA AnswersDef ==
    ASSUME NEW argc, NEW all, Len(all) \in Nat
    PROVE  Answers(argc, all)
             = [n \in 0 .. Len(all) |->
                  IF n = 0 THEN RegAlloc(argc) ELSE Answer(Answers(argc, all)[n - 1], all[n])]
<1> DEFINE First == RegAlloc(argc)
           Step(r, k) == Answer(r, all[k])
           S == {n \in Nat : \E ra : ra = [k \in 0 .. n |-> IF k = 0 THEN First ELSE Step(ra[k - 1], k)]}
<1> HIDE DEF First, Step
<1>1. 0 \in S
  <2>1. PICK c : c = [k \in 0 .. 0 |-> First]
    OBVIOUS
  <2>2. c = [k \in 0 .. 0 |-> IF k = 0 THEN First ELSE Step(c[k - 1], k)]
    BY <2>1
  <2>3. QED
    BY <2>2
<1>2. ASSUME NEW n \in Nat, n \in S PROVE n + 1 \in S
  <2>1. PICK c : c = [k \in 0 .. n |-> IF k = 0 THEN First ELSE Step(c[k - 1], k)]
    BY <1>2
  <2>2. PICK d : d = [k \in 0 .. n + 1 |-> IF k = n + 1 THEN Step(c[n], n + 1) ELSE c[k]]
    OBVIOUS
  <2>3. \A k \in 0 .. n : d[k] = c[k]
    BY <2>2
  <2>4. ASSUME NEW k \in 0 .. n + 1 PROVE d[k] = IF k = 0 THEN First ELSE Step(d[k - 1], k)
    <3>1. CASE k = n + 1
      <4>1. d[k] = Step(c[n], n + 1) /\ d[k - 1] = c[n] /\ k # 0
        BY <2>2, <2>3, <3>1
      <4>2. QED
        BY <4>1, <3>1
    <3>2. CASE k = 0
      BY <2>1, <2>2, <3>2
    <3>3. CASE k \in 1 .. n
      <4>1. d[k] = c[k] /\ d[k - 1] = c[k - 1] /\ k # 0
        BY <2>3, <3>3
      <4>2. c[k] = Step(c[k - 1], k)
        BY <2>1, <3>3
      <4>3. QED
        BY <4>1, <4>2
    <3>4. QED
      BY <3>1, <3>2, <3>3
  <2>5. d = [k \in 0 .. n + 1 |-> IF k = 0 THEN First ELSE Step(d[k - 1], k)]
    BY <2>2, <2>4
  <2>6. QED
    BY <2>5
<1>3. Len(all) \in S
  <2> HIDE DEF S
  <2>1. PICK n \in Nat : n = Len(all)
    OBVIOUS
  <2>2. n \in S
    BY <1>1, <1>2, <2>1, UpTo
  <2>3. QED
    BY <2>1, <2>2
<1>4. \E ra : ra = [n \in 0 .. Len(all) |-> IF n = 0 THEN RegAlloc(argc) ELSE Answer(ra[n - 1], all[n])]
  BY <1>3 DEF First, Step
<1>5. QED
  BY <1>4, Zenon DEF Answers

LEMMA AllocationLast ==
    ASSUME NEW params, NEW regs
    PROVE  Allocation(params, regs) = Answers(argc_of(params), Asked(params, regs))[Len(Asked(params, regs))]
BY Zenon DEF Allocation, Answers

(* A variable: what AsmReg says but for its name.                          *)
LEMMA Var ==
    ASSUME NEW x
    PROVE  /\ var(x).name = x /\ var(x).idx = -1 /\ var(x).ext = -1 /\ var(x).specialid = 0
           /\ var(x).reg_type = "$"
<1>1. AsmReg.idx = -1 /\ AsmReg.ext = -1 /\ AsmReg.specialid = 0 /\ AsmReg.reg_type = "$"
  BY Zenon DEF AsmReg
<1>2. DOMAIN AsmReg = {"reg_type", "name", "idx", "ext", "specialid"}
  BY Zenon DEF AsmReg
<1>3. var(x).name = x /\ var(x).idx = -1 /\ var(x).ext = -1 /\ var(x).specialid = 0
  BY <1>1, <1>2, SMT DEF var
<1>4. var(x).reg_type = AsmReg.reg_type
  BY <1>2, SMT DEF var
<1>5. QED
  BY <1>1, <1>3, <1>4, Zenon

(* A registry after some requests: up to 256 names have numbers of their   *)
(* own, counted from 0.                                                    *)
GoodRegistry(ra, argc) ==
    LET names == DOMAIN ra.registry
    IN  /\ ra = [registry |-> ra.registry, argc |-> argc, counter |-> ra.counter, died |-> ra.died]
        /\ ra.registry = [x \in names |-> ra.registry[x]]
        /\ IsFiniteSet(names) /\ ra.counter = Cardinality(names) % 256
        /\ \A x \in names : ra.registry[x] \in 0 .. 255
        /\ Cardinality(names) <= 256 =>
              /\ \A x \in names : ra.registry[x] \in 0 .. Cardinality(names) - 1
              /\ \A x, y \in names : ra.registry[x] = ra.registry[y] => x = y

LEMMA DeclareArg ==
    ASSUME NEW ra, NEW argc, GoodRegistry(ra, argc), NEW name, name \notin DOMAIN ra.registry
    PROVE  LET new == declare_arg(ra, name)
           IN  /\ GoodRegistry(new, argc) /\ new.died = ra.died
               /\ DOMAIN new.registry = DOMAIN ra.registry \cup {name}
               /\ Cardinality(DOMAIN new.registry) = Cardinality(DOMAIN ra.registry) + 1
               /\ \A x \in DOMAIN ra.registry : new.registry[x] = ra.registry[x]
               /\ new.registry[name] = ra.counter
<1> DEFINE names == DOMAIN ra.registry
           registry == [x \in names \cup {name} |-> IF x = name THEN ra.counter ELSE ra.registry[x]]
           counter == (ra.counter + 1) % 256
           n == Cardinality(names)
<1>1. /\ ra = [registry |-> ra.registry, argc |-> argc, counter |-> ra.counter, died |-> ra.died]
      /\ ra.registry = [x \in names |-> ra.registry[x]]
      /\ IsFiniteSet(names) /\ ra.counter = n % 256 /\ \A x \in names : ra.registry[x] \in 0 .. 255
      /\ n <= 256 =>
            /\ \A x \in names : ra.registry[x] \in 0 .. n - 1
            /\ \A x, y \in names : ra.registry[x] = ra.registry[y] => x = y
  BY DEF GoodRegistry
<1>2. put(ra.registry, name, ra.counter) = registry
  BY DEF put
<1> HIDE DEF registry
<1>3. PICK new : new = declare_arg(ra, name)
  OBVIOUS
<1>n. /\ new = [registry |-> registry, argc |-> argc, counter |-> counter, died |-> ra.died]
      /\ new.registry = registry /\ new.counter = counter /\ new.died = ra.died
  <2>1. PICK r, c, d : ra = [registry |-> r, argc |-> argc, counter |-> c, died |-> d]
    BY <1>1
  <2>2. ra.registry = r /\ ra.counter = c /\ ra.died = d
    BY <2>1
  <2>3. new = [ra EXCEPT !.registry = registry, !.counter = counter]
    BY <1>2, <1>3 DEF declare_arg
  <2>4. QED
    BY <2>1, <2>2, <2>3
<1>4. n \in Nat /\ IsFiniteSet(names \cup {name}) /\ Cardinality(names \cup {name}) = n + 1
  BY <1>1, FS_CardinalityType, FS_AddElement
<1>5. DOMAIN registry = names \cup {name} /\ registry[name] = ra.counter
      /\ \A x \in names : registry[x] = ra.registry[x]
  BY DEF registry
<1>6. counter = (n + 1) % 256
  BY <1>1, <1>4
<1>7. ASSUME n + 1 <= 256
      PROVE  /\ \A x \in names \cup {name} : registry[x] \in 0 .. n
             /\ \A x, y \in names \cup {name} : registry[x] = registry[y] => x = y
  <2>1. ra.counter = n
    BY <1>1, <1>4, <1>7
  <2>2. /\ \A x \in names : ra.registry[x] \in 0 .. n - 1
        /\ \A x, y \in names : ra.registry[x] = ra.registry[y] => x = y
    BY <1>1, <1>4, <1>7
  <2> HIDE DEF n, names, registry, counter
  <2>3. QED
    BY <1>4, <1>5, <2>1, <2>2
<1>r. registry = [x \in names \cup {name} |-> registry[x]]
  BY DEF registry
<1> HIDE DEF counter, names, n
<1>8. GoodRegistry(new, argc)
  <2>1. DOMAIN new.registry = names \cup {name} /\ Cardinality(DOMAIN new.registry) - 1 = n
    BY <1>n, <1>4, <1>5
  <2>2. new.registry = [x \in DOMAIN new.registry |-> new.registry[x]]
    BY <1>n, <1>r, <2>1
  <2>3. new = [registry |-> new.registry, argc |-> argc, counter |-> new.counter, died |-> new.died]
    BY <1>n
  <2>4. IsFiniteSet(DOMAIN new.registry) /\ new.counter = Cardinality(DOMAIN new.registry) % 256
    BY <1>4, <1>6, <1>n, <2>1
  <2>5. Cardinality(DOMAIN new.registry) <= 256 =>
           /\ \A x \in DOMAIN new.registry : new.registry[x] \in 0 .. Cardinality(DOMAIN new.registry) - 1
           /\ \A x, y \in DOMAIN new.registry : new.registry[x] = new.registry[y] => x = y
    BY <1>4, <1>7, <1>n, <2>1
  <2>6. \A x \in DOMAIN new.registry : new.registry[x] \in 0 .. 255
    <3>1. ra.counter \in 0 .. 255
      BY <1>1, <1>4 DEF n
    <3>2. QED
      BY <1>1, <1>n, <1>5, <2>1, <3>1
  <2>7. QED
    BY <2>2, <2>3, <2>4, <2>5, <2>6 DEF GoodRegistry
<1>9. QED
  BY <1>3, <1>n, <1>4, <1>5, <1>8 DEF names, n

(* A request of a statement leaves the numbers there are; a name that      *)
(* comes with it is of a place that is written.                            *)
LEMMA AnswerOther ==
    ASSUME NEW ra, NEW argc, GoodRegistry(ra, argc), NEW asked, asked.use \in {"src", "dst"}
    PROVE  LET new == Answer(ra, asked)
           IN  /\ GoodRegistry(new, argc)
               /\ DOMAIN ra.registry \subseteq DOMAIN new.registry
               /\ \A x \in DOMAIN ra.registry : new.registry[x] = ra.registry[x]
               /\ \A x \in DOMAIN new.registry :
                     x \in DOMAIN ra.registry \/ (asked.use = "dst" /\ x = asked.reg.name)
               /\ ~new.died => /\ ~ra.died /\ ~(asked.reg.idx >= argc)
                               /\ Named(asked.reg) => asked.reg.name \in DOMAIN new.registry
                               /\ asked.use = "src" /\ Named(asked.reg) =>
                                     asked.reg.name \in DOMAIN ra.registry
<1> DEFINE reg == asked.reg
<1>r. ra = [registry |-> ra.registry, argc |-> argc, counter |-> ra.counter, died |-> ra.died]
  BY DEF GoodRegistry
<1>a. ra.argc = argc
  <2>1. PICK r, c, d : ra = [registry |-> r, argc |-> argc, counter |-> c, died |-> d]
    BY <1>r
  <2>2. QED
    BY <2>1
<1>d. ASSUME NEW b
      PROVE  /\ GoodRegistry([ra EXCEPT !.died = b], argc)
             /\ [ra EXCEPT !.died = b].registry = ra.registry /\ [ra EXCEPT !.died = b].died = b
  <2>1. PICK new : new = [ra EXCEPT !.died = b]
    OBVIOUS
  <2>2. PICK r, c, d : ra = [registry |-> r, argc |-> argc, counter |-> c, died |-> d]
    BY <1>r
  <2>3. new = [registry |-> r, argc |-> argc, counter |-> c, died |-> b] /\ ra.registry = r /\ ra.counter = c
    BY <2>1, <2>2
  <2>4. new.registry = ra.registry /\ new.counter = ra.counter /\ new.died = b
        /\ new = [registry |-> new.registry, argc |-> argc, counter |-> new.counter, died |-> new.died]
    BY <2>3
  <2>5. QED
    BY <2>1, <2>4 DEF GoodRegistry
<1>n. PICK new : new = Answer(ra, asked)
  OBVIOUS
<1>1. CASE asked.use = "src"
  <2>1. new = [ra EXCEPT !.died = ra.died \/ OutOfBounds(ra, reg) \/ ~Resolved(ra, reg)]
    BY <1>n, <1>1 DEF Answer, assign_src
  <2>2. PICK b : b = (ra.died \/ OutOfBounds(ra, reg) \/ ~Resolved(ra, reg))
    OBVIOUS
  <2>3. GoodRegistry(new, argc) /\ new.died = b /\ new.registry = ra.registry
    BY <2>1, <2>2, <1>d
  <2>4. ~b => ~ra.died /\ ~(reg.idx >= argc) /\ (Named(reg) => reg.name \in DOMAIN ra.registry)
    BY <1>a, <2>2 DEF OutOfBounds, Resolved
  <2>5. QED
    BY <1>n, <1>1, <2>3, <2>4
<1>2. CASE asked.use = "dst" /\ OutOfBounds(ra, reg)
  <2>1. new = [ra EXCEPT !.died = TRUE]
    BY <1>n, <1>2 DEF Answer, alloc_dst
  <2>2. GoodRegistry(new, argc) /\ new.died = TRUE /\ new.registry = ra.registry
    BY <2>1, <1>d
  <2>3. QED
    BY <1>n, <2>2
<1>3. CASE asked.use = "dst" /\ ~OutOfBounds(ra, reg) /\ Resolved(ra, reg)
  <2>1. new = ra
    BY <1>n, <1>3 DEF Answer, alloc_dst
  <2>2. ~(reg.idx >= argc) /\ (Named(reg) => reg.name \in DOMAIN ra.registry)
    BY <1>3, <1>a DEF OutOfBounds, Resolved
  <2>3. QED
    BY <1>n, <1>3, <2>1, <2>2
<1>4. CASE asked.use = "dst" /\ ~OutOfBounds(ra, reg) /\ ~Resolved(ra, reg)
  <2>1. new = declare_arg(ra, reg.name)
    BY <1>n, <1>4 DEF Answer, alloc_dst
  <2>2. reg.name \notin DOMAIN ra.registry /\ ~(reg.idx >= argc)
    BY <1>4, <1>a DEF Resolved, OutOfBounds
  <2>3. /\ GoodRegistry(new, argc) /\ new.died = ra.died
        /\ DOMAIN new.registry = DOMAIN ra.registry \cup {reg.name}
        /\ \A x \in DOMAIN ra.registry : new.registry[x] = ra.registry[x]
    BY <2>1, <2>2, DeclareArg
  <2>4. QED
    BY <1>n, <1>4, <2>2, <2>3
<1>5. QED
  BY <1>1, <1>2, <1>3, <1>4

-----------------------------------------------------------------------------
(* The registry before the statements: the parameters.                     *)
LEMMA FirstParameters ==
    ASSUME NEW params, IsSequence(params), IsInjective(params), NEW regs, IsSequence(regs)
    PROVE  LET ra == Answers(argc_of(params), Asked(params, regs))[Len(params)]
           IN  /\ GoodRegistry(ra, argc_of(params)) /\ ~ra.died
               /\ DOMAIN ra.registry = {params[k] : k \in DOMAIN params}
               /\ Cardinality(DOMAIN ra.registry) = Len(params)
               /\ \A k \in DOMAIN params : ra.registry[params[k]] = (k - 1) % 256
<1> DEFINE all == Asked(params, regs)
           argc == Len(params)
           few == argc_of(params)
           ra == Answers(few, all)
           Good(n) == /\ GoodRegistry(ra[n], few) /\ ~ra[n].died
                      /\ DOMAIN ra[n].registry = {params[k] : k \in 1 .. n}
                      /\ Cardinality(DOMAIN ra[n].registry) = n
                      /\ \A k \in 1 .. n : ra[n].registry[params[k]] = (k - 1) % 256
           S == {n \in 0 .. argc : Good(n)}
<1>1. argc \in Nat /\ DOMAIN params = 1 .. argc /\ Len(regs) \in Nat
  BY SequenceDomain
<1>2. Len(all) = argc + Len(regs) /\ \A k \in 1 .. argc : all[k] = [use |-> "arg", reg |-> var(params[k])]
  <2>1. PICK a : a = [k \in DOMAIN params |-> [use |-> "arg", reg |-> var(params[k])]]
    OBVIOUS
  <2>2. a = [k \in 1 .. argc |-> a[k]]
    BY <1>1, <2>1
  <2>3. IsSequence(a) /\ Len(a) = argc /\ DOMAIN a = 1 .. argc
    BY <1>1, <2>2, SequenceLength
  <2>4. all = a \o regs
    BY <2>1 DEF Asked
  <2> HIDE DEF all, argc
  <2>5. QED
    BY <1>1, <2>1, <2>3, <2>4, ConcatSequence
<1> HIDE DEF all, argc, few
<1>3. ra = [n \in 0 .. Len(all) |-> IF n = 0 THEN RegAlloc(few) ELSE Answer(ra[n - 1], all[n])]
  <2>1. Len(all) \in Nat
    BY <1>1, <1>2
  <2>2. QED
    BY <2>1, AnswersDef, Zenon
<1> HIDE DEF ra
<1>4. 0 \in S
  <2>1. ra[0] = RegAlloc(few)
    BY <1>1, <1>2, <1>3
  <2>2. /\ ra[0] = [registry |-> ra[0].registry, argc |-> few, counter |-> ra[0].counter, died |-> ra[0].died]
        /\ ra[0].registry = <<>> /\ ra[0].counter = 0 /\ ~ra[0].died
    BY <2>1 DEF RegAlloc
  <2>3. DOMAIN ra[0].registry = {} /\ ra[0].registry = [x \in DOMAIN ra[0].registry |-> ra[0].registry[x]]
    BY <2>2
  <2>4. IsFiniteSet({}) /\ Cardinality({}) = 0
    BY FS_EmptySet
  <2>5. GoodRegistry(ra[0], few)
    <3>1. ra[0].counter = Cardinality(DOMAIN ra[0].registry) % 256
      BY <2>2, <2>3, <2>4
    <3>2. Cardinality(DOMAIN ra[0].registry) <= 256
      BY <2>3, <2>4
    <3>3. QED
      BY <2>2, <2>3, <2>4, <3>1, <3>2 DEF GoodRegistry
  <2>6. QED
    BY <1>1, <2>2, <2>3, <2>4, <2>5
<1>5. ASSUME NEW n \in 0 .. argc, n # argc, n \in S PROVE n + 1 \in S
  <2>1. Good(n) /\ n + 1 \in 1 .. argc /\ n \in Nat
    BY <1>1, <1>5
  <2>2. ra[n + 1] = declare_arg(ra[n], params[n + 1])
    <3>1. ra[n + 1] = Answer(ra[n], all[n + 1])
      BY <1>1, <1>2, <1>3, <2>1
    <3>2. all[n + 1].use = "arg" /\ all[n + 1].reg.name = params[n + 1]
      <4>1. all[n + 1] = [use |-> "arg", reg |-> var(params[n + 1])]
        BY <1>2, <2>1
      <4>2. QED
        BY <4>1, Var
    <3>3. QED
      BY <3>1, <3>2 DEF Answer
  <2>3. params[n + 1] \notin DOMAIN ra[n].registry
    <3>1. \A k \in 1 .. n : params[k] # params[n + 1]
      BY <1>1, <2>1 DEF IsInjective
    <3>2. QED
      BY <2>1, <3>1
  <2>4. /\ GoodRegistry(ra[n + 1], few) /\ ra[n + 1].died = ra[n].died
        /\ DOMAIN ra[n + 1].registry = DOMAIN ra[n].registry \cup {params[n + 1]}
        /\ Cardinality(DOMAIN ra[n + 1].registry) = n + 1
        /\ \A x \in DOMAIN ra[n].registry : ra[n + 1].registry[x] = ra[n].registry[x]
        /\ ra[n + 1].registry[params[n + 1]] = ra[n].counter
    <3>1. PICK old, new, name : old = ra[n] /\ new = ra[n + 1] /\ name = params[n + 1]
      OBVIOUS
    <3>2. new = declare_arg(old, name) /\ name \notin DOMAIN old.registry /\ GoodRegistry(old, few)
          /\ Cardinality(DOMAIN old.registry) = n
      BY <2>1, <2>2, <2>3, <3>1
    <3>3. /\ GoodRegistry(new, few) /\ new.died = old.died
          /\ DOMAIN new.registry = DOMAIN old.registry \cup {name}
          /\ Cardinality(DOMAIN new.registry) = n + 1
          /\ \A x \in DOMAIN old.registry : new.registry[x] = old.registry[x]
          /\ new.registry[name] = old.counter
      BY <3>2, DeclareArg
    <3>4. QED
      BY <3>1, <3>3
  <2>5. ra[n].counter = n % 256
    BY <2>1 DEF GoodRegistry
  <2>6. DOMAIN ra[n + 1].registry = {params[k] : k \in 1 .. n + 1}
    BY <2>1, <2>4
  <2>7. \A k \in 1 .. n + 1 : ra[n + 1].registry[params[k]] = (k - 1) % 256
    <3>1. ASSUME NEW k \in 1 .. n + 1 PROVE ra[n + 1].registry[params[k]] = (k - 1) % 256
      <4>1. CASE k = n + 1
        BY <2>1, <2>4, <2>5, <4>1
      <4>2. CASE k # n + 1
        <5>1. k \in 1 .. n /\ params[k] \in DOMAIN ra[n].registry
          BY <2>1, <4>2
        <5>2. QED
          BY <2>1, <2>4, <5>1
      <4>3. QED
        BY <4>1, <4>2
    <3>2. QED
      BY <3>1
  <2>8. Good(n + 1) /\ n + 1 \in 0 .. argc
    BY <2>1, <2>4, <2>6, <2>7
  <2> HIDE DEF Good
  <2>9. QED
    BY <2>8
<1>6. Good(argc)
  <2>1. argc \in S
    <3> HIDE DEF S
    <3>1. QED
      BY <1>1, <1>4, <1>5, UpTo
  <2>2. QED
    BY <2>1
<1>7. QED
  BY <1>1, <1>6 DEF argc, few, ra, all

(* After n requests of the statements the names are those of parameters    *)
(* and of places written so far, with the numbers they were given; what    *)
(* was asked for so far was there.                                         *)
Registered(params, regs, n, ra) ==
    /\ GoodRegistry(ra, argc_of(params))
    /\ \A k \in DOMAIN params :
          params[k] \in DOMAIN ra.registry /\ ra.registry[params[k]] = (k - 1) % 256
    /\ Cardinality(DOMAIN ra.registry) >= Len(params)
    /\ \A x \in DOMAIN ra.registry : Written(params, regs, n + 1, x)
    /\ ~ra.died => \A k \in 1 .. n :
          /\ ~(regs[k].reg.idx >= argc_of(params))
          /\ Named(regs[k].reg) => regs[k].reg.name \in DOMAIN ra.registry
          /\ regs[k].use = "src" /\ Named(regs[k].reg) => Written(params, regs, k, regs[k].reg.name)

LEMMA AllRegistered ==
    ASSUME NEW params, IsSequence(params), IsInjective(params),
           NEW regs, IsSequence(regs), IsAsked(regs)
    PROVE  Registered(params, regs, Len(regs), Allocation(params, regs))
<1> DEFINE all == Asked(params, regs)
           argc == Len(params)
           last == Len(regs)
           few == argc_of(params)
           ra == Answers(few, all)
           Good(n) == Registered(params, regs, n, ra[argc + n])
           S == {n \in 0 .. last : Good(n)}
<1>1. argc \in Nat /\ DOMAIN params = 1 .. argc /\ last \in Nat /\ DOMAIN regs = 1 .. last
  BY SequenceDomain
<1>2. Len(all) = argc + last /\ \A k \in 1 .. last : all[argc + k] = regs[k]
  <2>1. PICK a : a = [k \in DOMAIN params |-> [use |-> "arg", reg |-> var(params[k])]]
    OBVIOUS
  <2>2. a = [k \in 1 .. argc |-> a[k]]
    BY <1>1, <2>1
  <2>3. IsSequence(a) /\ Len(a) = argc /\ DOMAIN a = 1 .. argc
    BY <1>1, <2>2, SequenceLength
  <2>4. all = a \o regs
    BY <2>1 DEF Asked
  <2> HIDE DEF all, argc
  <2>5. QED
    BY <1>1, <2>1, <2>3, <2>4, ConcatSequence
<1>f. /\ GoodRegistry(ra[argc], few) /\ ~ra[argc].died
      /\ DOMAIN ra[argc].registry = {params[k] : k \in DOMAIN params}
      /\ Cardinality(DOMAIN ra[argc].registry) = argc
      /\ \A k \in DOMAIN params : ra[argc].registry[params[k]] = (k - 1) % 256
  BY FirstParameters, Zenon
<1>l. Allocation(params, regs) = ra[Len(all)]
  BY AllocationLast
<1> HIDE DEF all
<1>3. ra = [n \in 0 .. Len(all) |-> IF n = 0 THEN RegAlloc(few) ELSE Answer(ra[n - 1], all[n])]
  <2> HIDE DEF argc
  <2>1. Len(all) \in Nat
    BY <1>1, <1>2
  <2>2. QED
    BY <2>1, AnswersDef, Zenon
<1> HIDE DEF ra, last
<1>4. 0 \in S
  <2>1. argc + 0 = argc
    BY <1>1
  <2>2. \A x \in DOMAIN ra[argc].registry : Written(params, regs, 1, x)
    BY <1>f DEF Written
  <2>3. Registered(params, regs, 0, ra[argc])
    <3>1. 0 + 1 = 1 /\ \A k : k \notin 1 .. 0
      OBVIOUS
    <3>2. Cardinality(DOMAIN ra[argc].registry) >= argc
      <4> HIDE DEF argc
      <4>1. QED
        BY <1>1, <1>f
    <3>3. \A k \in DOMAIN params : params[k] \in DOMAIN ra[argc].registry
      BY <1>f
    <3>4. ~ra[argc].died => \A k \in 1 .. 0 :
             /\ ~(regs[k].reg.idx >= argc_of(params))
             /\ Named(regs[k].reg) => regs[k].reg.name \in DOMAIN ra[argc].registry
             /\ regs[k].use = "src" /\ Named(regs[k].reg) => Written(params, regs, k, regs[k].reg.name)
      BY <3>1, Zenon
    <3>5. \A x \in DOMAIN ra[argc].registry : Written(params, regs, 0 + 1, x)
      BY <2>2, <3>1
    <3>6. QED
      BY <1>f, <3>2, <3>3, <3>4, <3>5, Zenon DEF Registered, argc
  <2>4. QED
    BY <1>1, <2>1, <2>3
<1>5. ASSUME NEW n \in 0 .. last, n # last, n \in S PROVE n + 1 \in S
  <2>1. n + 1 \in 1 .. last /\ n \in Nat /\ n + 1 \in Nat
    <3> HIDE DEF S, last
    <3>1. QED
      BY <1>1, <1>5
  <2>2. PICK old, new, asked : old = ra[argc + n] /\ new = ra[argc + (n + 1)] /\ asked = regs[n + 1]
    OBVIOUS
  <2>3. Registered(params, regs, n, old)
    BY <1>5, <2>2
  <2>4. new = Answer(old, asked)
    <3>1. argc + (n + 1) \in 0 .. Len(all) /\ argc + (n + 1) # 0 /\ argc + (n + 1) - 1 = argc + n
      BY <1>1, <1>2, <2>1
    <3>2. ra[argc + (n + 1)] = Answer(ra[argc + n], all[argc + (n + 1)])
      BY <1>3, <3>1
    <3>3. QED
      BY <1>2, <2>1, <2>2, <3>2
  <2>5. asked.use \in {"src", "dst"}
    BY <1>1, <2>1, <2>2 DEF IsAsked
  <2>6. GoodRegistry(old, few)
    BY <2>3 DEF Registered
  <2>7. /\ GoodRegistry(new, few)
        /\ DOMAIN old.registry \subseteq DOMAIN new.registry
        /\ \A x \in DOMAIN old.registry : new.registry[x] = old.registry[x]
        /\ \A x \in DOMAIN new.registry :
              x \in DOMAIN old.registry \/ (asked.use = "dst" /\ x = asked.reg.name)
        /\ ~new.died => /\ ~old.died /\ ~(asked.reg.idx >= few)
                        /\ Named(asked.reg) => asked.reg.name \in DOMAIN new.registry
                        /\ asked.use = "src" /\ Named(asked.reg) => asked.reg.name \in DOMAIN old.registry
    BY <2>4, <2>5, <2>6, AnswerOther
  <2>8. Cardinality(DOMAIN new.registry) >= argc
    <3>1. IsFiniteSet(DOMAIN new.registry) /\ IsFiniteSet(DOMAIN old.registry)
      BY <2>6, <2>7 DEF GoodRegistry
    <3>2. /\ Cardinality(DOMAIN old.registry) <= Cardinality(DOMAIN new.registry)
          /\ Cardinality(DOMAIN old.registry) \in Nat /\ Cardinality(DOMAIN new.registry) \in Nat
      BY <2>7, <3>1, FS_Subset, FS_CardinalityType
    <3>3. Cardinality(DOMAIN old.registry) >= argc
      BY <2>3 DEF Registered
    <3>4. QED
      BY <1>1, <3>2, <3>3
  <2>9. \A x \in DOMAIN new.registry : Written(params, regs, n + 2, x)
    <3>1. SUFFICES ASSUME NEW x \in DOMAIN new.registry PROVE Written(params, regs, n + 2, x)
      OBVIOUS
    <3>2. CASE x \in DOMAIN old.registry
      <4>1. Written(params, regs, n + 1, x)
        BY <2>3, <3>2 DEF Registered
      <4>2. \A j \in 1 .. (n + 1) - 1 : j \in 1 .. (n + 2) - 1
        BY <2>1
      <4>3. QED
        BY <4>1, <4>2 DEF Written
    <3>3. CASE asked.use = "dst" /\ x = asked.reg.name
      <4>1. n + 1 \in 1 .. (n + 2) - 1
        BY <2>1
      <4>2. QED
        BY <2>2, <3>3, <4>1 DEF Written
    <3>4. QED
      BY <2>7, <3>2, <3>3
  <2>10. ASSUME ~new.died, NEW k \in 1 .. n + 1
         PROVE  /\ ~(regs[k].reg.idx >= few)
                /\ Named(regs[k].reg) => regs[k].reg.name \in DOMAIN new.registry
                /\ regs[k].use = "src" /\ Named(regs[k].reg) => Written(params, regs, k, regs[k].reg.name)
    <3>1. CASE k = n + 1
      <4>1. asked.use = "src" /\ Named(asked.reg) => Written(params, regs, k, asked.reg.name)
        BY <2>3, <2>7, <2>10, <3>1 DEF Registered
      <4>2. QED
        BY <2>2, <2>7, <2>10, <3>1, <4>1
    <3>2. CASE k # n + 1
      <4>1. k \in 1 .. n
        BY <2>1, <3>2
      <4>2. QED
        BY <2>3, <2>7, <2>10, <4>1 DEF Registered
    <3>3. QED
      BY <3>1, <3>2
  <2>11. \A k \in DOMAIN params : params[k] \in DOMAIN new.registry /\ new.registry[params[k]] = (k - 1) % 256
    BY <2>3, <2>7 DEF Registered
  <2>12. n + 1 + 1 = n + 2
    BY <2>1
  <2>13. Registered(params, regs, n + 1, new)
    BY <2>7, <2>8, <2>9, <2>10, <2>11, <2>12 DEF Registered
  <2>14. QED
    BY <2>1, <2>2, <2>13
<1>6. Good(last)
  <2>1. last \in S
    <3> HIDE DEF S, last
    <3>1. QED
      BY <1>1, <1>4, <1>5, UpTo
  <2>2. QED
    BY <2>1
<1>7. QED
  BY <1>2, <1>6, <1>l DEF last

(* The number of a variable: 7 bits of its place among the names.          *)
LEMMA VarNumber ==
    ASSUME NEW registry, NEW x
    PROVE  reg_t(registry, var(x)) = 128 + (int8(registry[x]) % 128)
<1>1. /\ var(x).name = x /\ var(x).idx = -1 /\ var(x).ext = -1 /\ var(x).specialid = 0
      /\ var(x).reg_type = "$"
  BY Var
<1>2. ~(var(x).idx >= 0) /\ var(x).ext < 0
  BY <1>1
<1>3. var(x).reg_type \notin {"c", "s"} /\ var(x).reg_type \in {"%", "$"}
  BY <1>1, Zenon
<1>4. reg_t(registry, var(x)) = PRIMARY_REG(int8(registry[x]))
  BY <1>1, <1>2, <1>3 DEF reg_t
<1>5. QED
  BY <1>4 DEF PRIMARY_REG

LEMMA SecondaryNumber ==
    ASSUME NEW i \in 0 .. 127, NEW e \in 0 .. 127
    PROVE  PrimaryOf(SECONDARY_REG(i, e)) = i
<1>1. PICK r : r = i * 256 + e
  OBVIOUS
<1>2. r \div 128 = 2 * i
  BY <1>1
<1>3. r \div 256 = i
  BY <1>1
<1>4. (2 * i) % 2 = 0 /\ i % 128 = i /\ e % 128 = e
  OBVIOUS
<1>5. SECONDARY_REG(i, e) = r
  BY <1>1, <1>4 DEF SECONDARY_REG
<1>6. ~REG_IS_PRIMARY(r) /\ REG_EXTRACT_SECONDARY1(r) = i
  BY <1>2, <1>3, <1>4 DEF REG_IS_PRIMARY, REG_EXTRACT_SECONDARY1
<1>7. QED
  BY <1>5, <1>6 DEF PrimaryOf

LEMMA PrimaryNumber == ASSUME NEW i \in 0 .. 127 PROVE PrimaryOf(PRIMARY_REG(i)) = i
<1>1. PRIMARY_REG(i) = 128 + i
  BY DEF PRIMARY_REG
<1>2. REG_IS_PRIMARY(128 + i) /\ REG_EXTRACT_PRIMARY(128 + i) = i
  BY DEF REG_IS_PRIMARY, REG_EXTRACT_PRIMARY
<1>3. QED
  BY <1>1, <1>2 DEF PrimaryOf

(* The primary register of an operand with an index or a name.             *)
LEMMA OperandNumber ==
    ASSUME NEW registry, NEW reg, reg.reg_type \in {"%", "$"}, reg.ext \in -128 .. 127,
           NEW idx \in 0 .. 127, idx = IF reg.idx >= 0 THEN reg.idx ELSE int8(registry[reg.name])
    PROVE  PrimaryOf(reg_t(registry, reg)) = idx
<1>1. reg.reg_type \notin {"c", "s"}
  BY Zenon
<1>2. CASE reg.ext < 0
  <2>1. reg_t(registry, reg) = PRIMARY_REG(idx)
    BY <1>1, <1>2 DEF reg_t
  <2>2. QED
    BY <2>1, PrimaryNumber
<1>3. CASE reg.ext >= 0
  <2>1. reg_t(registry, reg) = SECONDARY_REG(idx, reg.ext)
    BY <1>1, <1>3 DEF reg_t
  <2>2. reg.ext \in 0 .. 127
    BY <1>3
  <2>3. QED
    BY <2>1, <2>2, SecondaryNumber
<1>4. QED
  BY <1>2, <1>3

(* RegAlloc, dfunc_stmt::allocate_registers(): whatever the parameters of  *)
(* a function are and whatever registers its statements name, when the     *)
(* allocation does not end the program every variable is read behind a     *)
(* place that writes it, and the parameters are where the caller puts      *)
(* them, every name has a register of its own and the frame has room for   *)
(* all of them exactly when a function has no more than 128 names: an      *)
(* operand has 7 bits for them.                                            *)
THEOREM OwnRegisters ==
    ASSUME NEW params, IsSequence(params), IsInjective(params),
           NEW regs, IsSequence(regs), IsAsked(regs),
           ~Allocation(params, regs).died
    PROVE  /\ WrittenFirst(params, regs)
           /\ Apart(params, regs) <=> Cardinality(DOMAIN Allocation(params, regs).registry) <= 128
<1> DEFINE argc == Len(params)
           last == Len(regs)
           registry == Allocation(params, regs).registry
           names == DOMAIN registry
           n == Cardinality(names)
           number(name) == reg_t(registry, var(name))
<1>1. argc \in Nat /\ DOMAIN params = 1 .. argc /\ last \in Nat /\ DOMAIN regs = 1 .. last
  BY SequenceDomain
<1>2. /\ \A k \in DOMAIN params : params[k] \in names /\ registry[params[k]] = (k - 1) % 256
      /\ n >= argc
      /\ \A k \in 1 .. last :
            /\ ~(regs[k].reg.idx >= argc_of(params))
            /\ Named(regs[k].reg) => regs[k].reg.name \in names
            /\ regs[k].use = "src" /\ Named(regs[k].reg) => Written(params, regs, k, regs[k].reg.name)
  BY AllRegistered DEF Registered
<1>3. /\ IsFiniteSet(names) /\ Allocation(params, regs).counter = n % 256
      /\ \A x \in names : registry[x] \in 0 .. 255
      /\ n <= 256 =>
            /\ \A x \in names : registry[x] \in 0 .. n - 1
            /\ \A x, y \in names : registry[x] = registry[y] => x = y
  BY AllRegistered DEF Registered, GoodRegistry
<1>4. n \in Nat
  BY <1>3, FS_CardinalityType
<1>a. n >= argc
  BY <1>2
<1>5. \A x : number(x) = 128 + (int8(registry[x]) % 128)
  BY VarNumber
<1>6. WrittenFirst(params, regs)
  BY <1>1, <1>2 DEF WrittenFirst
<1>7. ASSUME n <= 128 PROVE Apart(params, regs)
  <2>0. argc_of(params) = argc
    <3> HIDE DEF n
    <3>1. PICK a \in Nat : a = argc
      BY <1>1
    <3>2. a \in 0 .. 255
      <4>1. n >= a
        BY <1>a, <3>1
      <4>2. QED
        BY <1>4, <1>7, <4>1
    <3>3. a % 256 = a
      BY <3>2
    <3>4. QED
      BY <3>1, <3>3 DEF argc_of
  <2>1. Room(params, regs) = n
    <3>1. Room(params, regs) = argc + (((n % 256) - argc) % 256)
      BY <1>3, <2>0 DEF Room
    <3> HIDE DEF n, argc
    <3>2. n % 256 = n /\ n - argc \in 0 .. 255
      BY <1>1, <1>a, <1>4, <1>7
    <3>3. (n - argc) % 256 = n - argc
      BY <3>2
    <3>4. QED
      BY <1>1, <1>4, <3>1, <3>2, <3>3
  <2>2. \A x \in names : registry[x] \in 0 .. 127 /\ int8(registry[x]) = registry[x] /\ registry[x] < n
    <3> HIDE DEF n, names, registry
    <3>1. \A x \in names : registry[x] \in 0 .. 127 /\ registry[x] < n
      BY <1>3, <1>4, <1>7
    <3>2. QED
      BY <3>1 DEF int8
  <2>3. \A x \in names : number(x) = 128 + registry[x]
    <3> HIDE DEF names, registry, number
    <3>1. QED
      BY <1>5, <2>2
  <2>4. \A k \in DOMAIN params : number(params[k]) = PRIMARY_REG(k - 1)
    <3>1. SUFFICES ASSUME NEW k \in 1 .. argc PROVE number(params[k]) = PRIMARY_REG(k - 1)
      BY <1>1
    <3>2. k - 1 \in 0 .. 127
      <4> HIDE DEF n, argc
      <4>1. QED
        BY <1>1, <1>2, <1>4, <1>7
    <3>3. params[k] \in names /\ registry[params[k]] = k - 1
      <4>1. (k - 1) % 256 = k - 1
        BY <3>2
      <4>2. params[k] \in names /\ registry[params[k]] = (k - 1) % 256
        BY <1>1, <1>2
      <4>3. QED
        BY <4>1, <4>2
    <3>4. PRIMARY_REG(k - 1) = 128 + (k - 1)
      BY <3>2 DEF PRIMARY_REG
    <3> HIDE DEF names, registry, number
    <3>5. QED
      BY <2>3, <3>3, <3>4
  <2>5. \A x, y \in names : number(x) = number(y) => x = y
    <3> HIDE DEF n, names, registry, number
    <3>1. QED
      BY <1>3, <1>4, <1>7, <2>2, <2>3
  <2>6. ASSUME NEW k \in DOMAIN regs, regs[k].reg.reg_type \in {"%", "$"}
        PROVE  PrimaryOf(reg_t(registry, regs[k].reg)) < n
    <3>1. PICK reg : reg = regs[k].reg
      OBVIOUS
    <3>2. /\ reg.reg_type \in {"%", "$"} /\ reg.ext \in -128 .. 127 /\ reg.idx \in -128 .. 127
          /\ reg.specialid = 0
      BY <2>6, <3>1 DEF IsAsked
    <3>3. ~(reg.idx >= argc) /\ (Named(reg) => reg.name \in names)
      BY <1>1, <1>2, <2>0, <3>1
    <3>4. PICK idx : idx = IF reg.idx >= 0 THEN reg.idx ELSE int8(registry[reg.name])
      OBVIOUS
    <3>5. idx \in 0 .. 127 /\ idx < n
      <4> HIDE DEF n, argc, names, registry
      <4>1. CASE reg.idx >= 0
        <5>1. idx = reg.idx /\ ~(idx >= argc) /\ idx \in -128 .. 127 /\ idx >= 0
          BY <3>2, <3>3, <3>4, <4>1
        <5>2. QED
          <6>1. argc \in Nat
            BY <1>1
          <6>2. idx \in Int /\ idx >= 0 /\ idx < argc
            BY <5>1, <6>1
          <6>3. QED
            BY <1>a, <1>4, <1>7, <6>1, <6>2
      <4>2. CASE ~(reg.idx >= 0)
        <5>1. reg.idx < 0
          BY <3>2, <4>2
        <5>2. reg.name \in names
          BY <3>2, <3>3, <5>1 DEF Named
        <5>3. idx = registry[reg.name]
          BY <2>2, <3>4, <4>2, <5>2
        <5>4. QED
          BY <2>2, <5>2, <5>3
      <4>3. QED
        BY <4>1, <4>2
    <3>6. PrimaryOf(reg_t(registry, reg)) = idx
      BY <3>2, <3>4, <3>5, OperandNumber
    <3>7. QED
      BY <3>1, <3>5, <3>6
  <2>7. QED
    BY <2>1, <2>4, <2>5, <2>6 DEF Apart
<1>8. ASSUME Apart(params, regs) PROVE n <= 128
  <2>1. SUFFICES ASSUME n > 128 PROVE FALSE
    BY <1>4
  <2>2. \A x, y \in names : number(x) = number(y) => x = y
    BY <1>8 DEF Apart
  <2>3. \A x \in names : number(x) \in 128 .. 255
    <3>1. \A x \in names : int8(registry[x]) \in Int
      BY <1>3 DEF int8
    <3> HIDE DEF names, registry, number
    <3>2. QED
      BY <1>5, <3>1
  <2>4. PICK f : f = [x \in names |-> number(x)]
    OBVIOUS
  <2>5. f \in [names -> 128 .. 255] /\ \A x \in names : f[x] = number(x)
    <3> HIDE DEF names, number
    <3>1. QED
      BY <2>3, <2>4
  <2>6. IsFiniteSet(128 .. 255) /\ Cardinality(128 .. 255) = 128
    <3>1. PICK a, b \in Int : a = 128 /\ b = 255
      OBVIOUS
    <3>2. IsFiniteSet(a .. b) /\ Cardinality(a .. b) = IF a > b THEN 0 ELSE b - a + 1
      BY FS_Interval
    <3>3. QED
      BY <3>1, <3>2
  <2>7. \E x, y \in names : x # y /\ f[x] = f[y]
    <3> HIDE DEF names
    <3>1. QED
      BY <1>3, <2>1, <2>5, <2>6, FS_PigeonHole
  <2> HIDE DEF names, number
  <2>8. QED
    BY <2>2, <2>5, <2>7
<1>9. QED
  BY <1>6, <1>7, <1>8

-----------------------------------------------------------------------------
(***************************************************************************)
(* Code: instructions and their sizes.                                     *)
(***************************************************************************)
LEMMA Sizes == \A op \in DOMAIN WRITER : INSTRUCTION_SIZE[op] \in 1 .. 9
<1>1. \A op \in DOMAIN WRITER : WRITER[op].SIZE \in 1 .. 9
  BY SMTT(60) DEF WRITER, binaryop_instruction, consti_instruction, call_instruction, call1_instruction,
     call2_instruction, return_instruction, cfailure_instruction, lcontext_instruction, lfunc_instruction,
     loadtype_instruction, loadobj_instruction, move_instruction, ref_instruction, copy_instruction,
     goto_instruction, if_instruction, iffail_instruction, match_instruction, matchargs_instruction,
     cmp_instruction, fork_instruction, newproc_instruction, recv_instruction, consts_instruction,
     consthash_instruction, stracc_instruction, ctuple_instruction, fieldget_instruction,
     fieldset_instruction, lconstruct_instruction, patternvar_instruction, stuple_instruction,
     clist_instruction, cons_instruction
<1>2. QED
  BY <1>1 DEF INSTRUCTION_SIZE

Sums(code, from, count) ==
    CHOOSE sum : sum = [n \in 0 .. count |-> IF n = 0 THEN 0 ELSE sum[n - 1] + isize(code[from + n - 1])]

LEMMA SumsDef ==
    ASSUME NEW code, NEW from, NEW count \in Nat
    PROVE  Sums(code, from, count)
             = [n \in 0 .. count |-> IF n = 0 THEN 0 ELSE Sums(code, from, count)[n - 1] + isize(code[from + n - 1])]
<1> DEFINE Step(s, k) == s + isize(code[from + k - 1])
           S == {n \in Nat : \E sum : sum = [k \in 0 .. n |-> IF k = 0 THEN 0 ELSE Step(sum[k - 1], k)]}
<1> HIDE DEF Step
<1>1. 0 \in S
  <2>1. PICK c : c = [k \in 0 .. 0 |-> 0]
    OBVIOUS
  <2>2. c = [k \in 0 .. 0 |-> IF k = 0 THEN 0 ELSE Step(c[k - 1], k)]
    BY <2>1
  <2>3. QED
    BY <2>2
<1>2. ASSUME NEW n \in Nat, n \in S PROVE n + 1 \in S
  <2>1. PICK c : c = [k \in 0 .. n |-> IF k = 0 THEN 0 ELSE Step(c[k - 1], k)]
    BY <1>2
  <2>2. PICK d : d = [k \in 0 .. n + 1 |-> IF k = n + 1 THEN Step(c[n], n + 1) ELSE c[k]]
    OBVIOUS
  <2>3. \A k \in 0 .. n : d[k] = c[k]
    BY <2>2
  <2>4. ASSUME NEW k \in 0 .. n + 1 PROVE d[k] = IF k = 0 THEN 0 ELSE Step(d[k - 1], k)
    <3>1. CASE k = n + 1
      <4>1. d[k] = Step(c[n], n + 1) /\ d[k - 1] = c[n] /\ k # 0
        BY <2>2, <2>3, <3>1
      <4>2. QED
        BY <4>1, <3>1
    <3>2. CASE k = 0
      BY <2>1, <2>2, <3>2
    <3>3. CASE k \in 1 .. n
      <4>1. d[k] = c[k] /\ d[k - 1] = c[k - 1] /\ k # 0
        BY <2>3, <3>3
      <4>2. c[k] = Step(c[k - 1], k)
        BY <2>1, <3>3
      <4>3. QED
        BY <4>1, <4>2
    <3>4. QED
      BY <3>1, <3>2, <3>3
  <2>5. d = [k \in 0 .. n + 1 |-> IF k = 0 THEN 0 ELSE Step(d[k - 1], k)]
    BY <2>2, <2>4
  <2>6. QED
    BY <2>5
<1>3. count \in S
  <2> HIDE DEF S
  <2>1. QED
    BY <1>1, <1>2, UpTo
<1>4. \E sum : sum = [n \in 0 .. count |-> IF n = 0 THEN 0 ELSE sum[n - 1] + isize(code[from + n - 1])]
  BY <1>3 DEF Step
<1>5. QED
  BY <1>4, Zenon DEF Sums

(* Sums over more instructions go on where sums over fewer stop.           *)
LEMMA Passed ==
    ASSUME NEW code, NEW from \in Int
    PROVE  /\ Bytes_passed(code, from, 0) = 0
           /\ \A n \in Nat : Bytes_passed(code, from, n + 1) = Bytes_passed(code, from, n) + isize(code[from + n])
<1> DEFINE Passing(n) == Bytes_passed(code, from, n)
<1>1. \A n : Passing(n) = Sums(code, from, n)[n]
  BY Zenon DEF Bytes_passed, Sums
<1>2. \A n \in Nat : Sums(code, from, n)[0] = 0
  BY SumsDef
<1>3. \A n \in Nat : \A k \in 0 .. n : k # n =>
         Sums(code, from, n)[k + 1] = Sums(code, from, n)[k] + isize(code[from + k])
  <2>1. SUFFICES ASSUME NEW n \in Nat, NEW k \in 0 .. n, k # n
                 PROVE  Sums(code, from, n)[k + 1] = Sums(code, from, n)[k] + isize(code[from + k])
    OBVIOUS
  <2>2. k + 1 \in 0 .. n /\ k + 1 # 0 /\ (k + 1) - 1 = k
    BY <2>1
  <2>3. Sums(code, from, n)[k + 1] = Sums(code, from, n)[(k + 1) - 1] + isize(code[from + (k + 1) - 1])
    BY <2>2, SumsDef
  <2>4. from + (k + 1) - 1 = from + k
    BY <2>2
  <2>5. QED
    BY <2>2, <2>3, <2>4
<1>4. ASSUME NEW n \in Nat PROVE \A k \in 0 .. n : Sums(code, from, n + 1)[k] = Sums(code, from, n)[k]
  <2> DEFINE S == {k \in 0 .. n : Sums(code, from, n + 1)[k] = Sums(code, from, n)[k]}
  <2>1. 0 \in S
    BY <1>2
  <2>2. ASSUME NEW k \in 0 .. n, k # n, k \in S PROVE k + 1 \in S
    <3>1. k \in 0 .. n + 1 /\ k # n + 1 /\ k + 1 \in 0 .. n /\ n + 1 \in Nat
      BY <2>2
    <3>2. Sums(code, from, n + 1)[k + 1] = Sums(code, from, n + 1)[k] + isize(code[from + k])
      BY <1>3, <3>1
    <3>3. Sums(code, from, n)[k + 1] = Sums(code, from, n)[k] + isize(code[from + k])
      BY <1>3, <2>2
    <3>4. QED
      BY <2>2, <3>1, <3>2, <3>3
  <2>3. \A k \in 0 .. n : k \in S
    <3> HIDE DEF S
    <3>1. QED
      BY <2>1, <2>2, UpTo
  <2>4. QED
    BY <2>3
<1>5. ASSUME NEW n \in Nat PROVE Passing(n + 1) = Passing(n) + isize(code[from + n])
  <2>1. Sums(code, from, n + 1)[n + 1] = Sums(code, from, n + 1)[n] + isize(code[from + n])
    BY <1>3
  <2>2. Sums(code, from, n + 1)[n] = Sums(code, from, n)[n]
    BY <1>4
  <2>3. QED
    BY <1>1, <2>1, <2>2
<1>6. QED
  BY <1>1, <1>2, <1>5

(* Every instruction has a size.                                           *)
Sized(code, len) == \A k \in 1 .. len : isize(code[k]) \in 1 .. 9

(* The bytes before a place count at least the instructions before it, and *)
(* depend on sizes only.                                                   *)
LEMMA Offsets ==
    ASSUME NEW code, NEW len \in Nat, Sized(code, len)
    PROVE  /\ Offset(code, 0) = 0
           /\ \A n \in 0 .. len : Offset(code, n) \in Nat /\ Offset(code, n) >= n
           /\ \A n \in 0 .. len : n # len => Offset(code, n + 1) = Offset(code, n) + isize(code[n + 1])
<1> DEFINE S == {n \in 0 .. len : Offset(code, n) \in Nat /\ Offset(code, n) >= n}
<1>1. Offset(code, 0) = 0
  BY Passed DEF Offset
<1>2. \A n \in Nat : Offset(code, n + 1) = Offset(code, n) + isize(code[n + 1])
  <2>1. \A n \in Nat : Offset(code, n + 1) = Offset(code, n) + isize(code[1 + n])
    <3>1. 1 \in Int
      OBVIOUS
    <3>2. QED
      BY <3>1, Passed, Zenon DEF Offset
  <2>2. \A n \in Nat : 1 + n = n + 1
    OBVIOUS
  <2>3. QED
    BY <2>1, <2>2
<1>3. 0 \in S
  BY <1>1
<1>4. ASSUME NEW n \in 0 .. len, n # len, n \in S PROVE n + 1 \in S
  <2>1. n \in Nat /\ n + 1 \in 1 .. len /\ Offset(code, n) \in Nat /\ Offset(code, n) >= n
    BY <1>4
  <2>2. isize(code[n + 1]) \in 1 .. 9
    BY <2>1 DEF Sized
  <2>3. Offset(code, n + 1) = Offset(code, n) + isize(code[n + 1])
    BY <1>2, <2>1
  <2>4. Offset(code, n + 1) \in Nat /\ Offset(code, n + 1) >= n + 1
    BY <2>1, <2>2, <2>3
  <2>5. QED
    BY <2>1, <2>4
<1>5. \A n \in 0 .. len : n \in S
  <2> HIDE DEF S
  <2>1. QED
    BY <1>3, <1>4, UpTo
<1>6. QED
  BY <1>1, <1>2, <1>5

LEMMA SameOffsets ==
    ASSUME NEW code, NEW other, NEW len \in Nat,
           \A k \in 1 .. len : isize(other[k]) = isize(code[k]), Sized(code, len)
    PROVE  \A n \in 0 .. len : Offset(other, n) = Offset(code, n)
<1> DEFINE S == {n \in 0 .. len : Offset(other, n) = Offset(code, n)}
<1>1. Sized(other, len)
  BY DEF Sized
<1>2. Offset(other, 0) = 0 /\ Offset(code, 0) = 0
  BY <1>1, Offsets
<1>3. 0 \in S
  BY <1>2
<1>4. ASSUME NEW n \in 0 .. len, n # len, n \in S PROVE n + 1 \in S
  <2>1. n + 1 \in 1 .. len /\ n + 1 \in 0 .. len /\ Offset(other, n) = Offset(code, n)
    BY <1>4
  <2>2. Offset(other, n + 1) = Offset(other, n) + isize(other[n + 1])
    BY <1>1, <1>4, Offsets
  <2>3. Offset(code, n + 1) = Offset(code, n) + isize(code[n + 1])
    BY <1>4, Offsets
  <2>4. QED
    BY <2>1, <2>2, <2>3
<1>5. \A n \in 0 .. len : n \in S
  <2> HIDE DEF S
  <2>1. QED
    BY <1>3, <1>4, UpTo
<1>6. QED
  BY <1>5

(* The bytes of a stretch of code are the difference of two offsets.       *)
LEMMA Stretch ==
    ASSUME NEW code, NEW len \in Nat, Sized(code, len), NEW a \in 0 .. len, NEW b \in 0 .. len, a <= b
    PROVE  Bytes_passed(code, a + 1, b - a) = Offset(code, b) - Offset(code, a)
<1> DEFINE S == {n \in 0 .. b - a : Bytes_passed(code, a + 1, n) = Offset(code, a + n) - Offset(code, a)}
           last == b - a
<1>1. last \in Nat /\ a + last = b /\ a + 0 = a /\ a + 1 \in Int /\ a \in Nat
  OBVIOUS
<1>2. \A n \in 0 .. len : Offset(code, n) \in Nat
  BY Offsets
<1>3. 0 \in S
  <2>1. Bytes_passed(code, a + 1, 0) = 0
    BY <1>1, Passed
  <2>2. QED
    BY <1>1, <1>2, <2>1
<1>4. ASSUME NEW n \in 0 .. last, n # last, n \in S PROVE n + 1 \in S
  <2>1. /\ n + 1 \in 0 .. last /\ n \in Nat /\ a + n \in 0 .. len /\ a + n # len
        /\ a + (n + 1) = a + n + 1 /\ a + 1 + n = a + n + 1 /\ a + n + 1 \in 1 .. len
    BY <1>4
  <2>2. Bytes_passed(code, a + 1, n) = Offset(code, a + n) - Offset(code, a)
    BY <1>4
  <2>3. Bytes_passed(code, a + 1, n + 1) = Bytes_passed(code, a + 1, n) + isize(code[a + 1 + n])
    BY <1>1, <2>1, Passed, Zenon
  <2>4. Offset(code, a + n + 1) = Offset(code, a + n) + isize(code[a + n + 1])
    BY <2>1, Offsets
  <2>5. isize(code[a + n + 1]) \in Int /\ Offset(code, a + n) \in Int /\ Offset(code, a) \in Int
    BY <1>2, <2>1 DEF Sized
  <2>6. Bytes_passed(code, a + 1, n + 1) = Offset(code, a + (n + 1)) - Offset(code, a)
    BY <2>1, <2>2, <2>3, <2>4, <2>5
  <2>7. QED
    BY <2>1, <2>6
<1>5. last \in S
  <2> HIDE DEF S, last
  <2>1. last \in Nat /\ last \in 0 .. last
    BY <1>1
  <2>2. \A n \in 0 .. last : n # last /\ n \in S => n + 1 \in S
    BY <1>4
  <2>3. QED
    BY <1>3, <2>1, <2>2, UpTo
<1>6. QED
  BY <1>1, <1>5

-----------------------------------------------------------------------------
(***************************************************************************)
(* Code is gathered instruction by instruction.                            *)
(***************************************************************************)
Gathered(dos) == CHOOSE f : f = [n \in 0 .. Len(dos) |-> IF n = 0 THEN NoCode ELSE Generate(f[n - 1], dos[n])]

LEMMA GatheredDef ==
    ASSUME NEW dos, Len(dos) \in Nat
    PROVE  Gathered(dos) = [n \in 0 .. Len(dos) |-> IF n = 0 THEN NoCode ELSE Generate(Gathered(dos)[n - 1], dos[n])]
<1> DEFINE First == NoCode
           Step(r, k) == Generate(r, dos[k])
           S == {n \in Nat : \E f : f = [k \in 0 .. n |-> IF k = 0 THEN First ELSE Step(f[k - 1], k)]}
<1> HIDE DEF First, Step
<1>1. 0 \in S
  <2>1. PICK c : c = [k \in 0 .. 0 |-> First]
    OBVIOUS
  <2>2. c = [k \in 0 .. 0 |-> IF k = 0 THEN First ELSE Step(c[k - 1], k)]
    BY <2>1
  <2>3. QED
    BY <2>2
<1>2. ASSUME NEW n \in Nat, n \in S PROVE n + 1 \in S
  <2>1. PICK c : c = [k \in 0 .. n |-> IF k = 0 THEN First ELSE Step(c[k - 1], k)]
    BY <1>2
  <2>2. PICK d : d = [k \in 0 .. n + 1 |-> IF k = n + 1 THEN Step(c[n], n + 1) ELSE c[k]]
    OBVIOUS
  <2>3. \A k \in 0 .. n : d[k] = c[k]
    BY <2>2
  <2>4. ASSUME NEW k \in 0 .. n + 1 PROVE d[k] = IF k = 0 THEN First ELSE Step(d[k - 1], k)
    <3>1. CASE k = n + 1
      <4>1. d[k] = Step(c[n], n + 1) /\ d[k - 1] = c[n] /\ k # 0
        BY <2>2, <2>3, <3>1
      <4>2. QED
        BY <4>1, <3>1
    <3>2. CASE k = 0
      BY <2>1, <2>2, <3>2
    <3>3. CASE k \in 1 .. n
      <4>1. d[k] = c[k] /\ d[k - 1] = c[k - 1] /\ k # 0
        BY <2>3, <3>3
      <4>2. c[k] = Step(c[k - 1], k)
        BY <2>1, <3>3
      <4>3. QED
        BY <4>1, <4>2
    <3>4. QED
      BY <3>1, <3>2, <3>3
  <2>5. d = [k \in 0 .. n + 1 |-> IF k = 0 THEN First ELSE Step(d[k - 1], k)]
    BY <2>2, <2>4
  <2>6. QED
    BY <2>5
<1>3. Len(dos) \in S
  <2> HIDE DEF S
  <2>1. PICK n \in Nat : n = Len(dos)
    OBVIOUS
  <2>2. n \in S
    BY <1>1, <1>2, <2>1, UpTo
  <2>3. QED
    BY <2>1, <2>2
<1>4. \E f : f = [n \in 0 .. Len(dos) |-> IF n = 0 THEN NoCode ELSE Generate(f[n - 1], dos[n])]
  BY <1>3 DEF First, Step
<1>5. QED
  BY <1>4, Zenon DEF Gathered

LEMMA GatherLast == ASSUME NEW dos PROVE Gather(dos) = Gathered(dos)[Len(dos)]
BY Zenon DEF Gather, Gathered

(* Counting the instructions before a place.                               *)
LEMMA AheadNext ==
    ASSUME NEW dos
    PROVE  /\ Ahead(dos, 1) = 0
           /\ \A i \in Nat \ {0} :
                 /\ Ahead(dos, i) \in Nat
                 /\ Ahead(dos, i + 1) = IF dos[i].do = "label" THEN Ahead(dos, i) ELSE Ahead(dos, i) + 1
<1> DEFINE Insns(i) == {k \in 1 .. i - 1 : dos[k].do # "label"}
<1>1. Ahead(dos, 1) = 0
  <2>1. Insns(1) = {}
    OBVIOUS
  <2>2. QED
    BY <2>1, FS_EmptySet DEF Ahead
<1>2. ASSUME NEW i \in Nat \ {0}
      PROVE  /\ Ahead(dos, i) \in Nat
             /\ Ahead(dos, i + 1) = IF dos[i].do = "label" THEN Ahead(dos, i) ELSE Ahead(dos, i) + 1
  <2>1. IsFiniteSet(Insns(i))
    <3>1. i - 1 \in Int /\ 1 \in Int
      BY <1>2
    <3>2. IsFiniteSet(1 .. i - 1)
      BY <3>1, FS_Interval
    <3>3. Insns(i) \in SUBSET (1 .. i - 1)
      OBVIOUS
    <3>4. QED
      BY <3>2, <3>3, FS_Subset
  <2>2. i \notin Insns(i)
    BY <1>2
  <2>3. Insns(i + 1) = IF dos[i].do = "label" THEN Insns(i) ELSE Insns(i) \cup {i}
    <3>1. \A k : k \in 1 .. (i + 1) - 1 <=> k \in 1 .. i - 1 \/ k = i
      BY <1>2
    <3>2. QED
      BY <3>1
  <2>4. Ahead(dos, i) = Cardinality(Insns(i)) /\ Ahead(dos, i + 1) = Cardinality(Insns(i + 1))
    BY DEF Ahead
  <2> HIDE DEF Insns
  <2>5. Cardinality(Insns(i) \cup {i}) = Cardinality(Insns(i)) + 1 /\ Cardinality(Insns(i)) \in Nat
    BY <2>1, <2>2, FS_AddElement, FS_CardinalityType
  <2>6. QED
    BY <2>3, <2>4, <2>5
<1>3. QED
  BY <1>1, <1>2

(* It grows, and from an instruction on it is larger.                      *)
LEMMA AheadGrows ==
    ASSUME NEW dos, NEW i \in Nat \ {0}, NEW j \in Nat, i < j
    PROVE  Ahead(dos, i) <= Ahead(dos, j) /\ (dos[i].do # "label" => Ahead(dos, i) < Ahead(dos, j))
<1> DEFINE last == j - (i + 1)
           Good(n) == Ahead(dos, i + 1) <= Ahead(dos, i + 1 + n)
           S == {n \in 0 .. last : Good(n)}
<1>1. last \in Nat /\ last \in 0 .. last /\ i + 1 + last = j /\ i + 1 + 0 = i + 1
  OBVIOUS
<1>2. \A n \in Nat : i + 1 + n \in Nat \ {0} /\ i + 1 + (n + 1) = i + 1 + n + 1
  OBVIOUS
<1>a. \A k \in Nat \ {0} : Ahead(dos, k) \in Nat
  BY AheadNext
<1>b. i + 1 \in Nat \ {0}
  OBVIOUS
<1>3. 0 \in S
  <2>1. Ahead(dos, i + 1) \in Nat
    BY <1>a, <1>b
  <2>2. QED
    BY <1>1, <2>1
<1>4. \A n \in 0 .. last : n # last /\ n \in S => n + 1 \in S
  <2>1. SUFFICES ASSUME NEW n \in 0 .. last, n # last, n \in S PROVE n + 1 \in S
    BY Zenon
  <2>2. n \in Nat /\ n + 1 \in 0 .. last /\ Ahead(dos, i + 1) <= Ahead(dos, i + 1 + n)
    BY <2>1
  <2>3. Ahead(dos, i + 1) \in Nat /\ Ahead(dos, i + 1 + n) \in Nat
    BY <1>2, <1>a, <1>b, <2>2
  <2>4. Ahead(dos, i + 1 + (n + 1)) \in {Ahead(dos, i + 1 + n), Ahead(dos, i + 1 + n) + 1}
    <3>1. Ahead(dos, i + 1 + n + 1) \in {Ahead(dos, i + 1 + n), Ahead(dos, i + 1 + n) + 1}
      BY <1>2, <2>2, AheadNext
    <3>2. QED
      BY <1>2, <2>2, <3>1
  <2>5. Ahead(dos, i + 1) <= Ahead(dos, i + 1 + (n + 1))
    BY <2>2, <2>3, <2>4
  <2>6. QED
    BY <2>2, <2>5
<1>5. last \in S
  <2> HIDE DEF S, last
  <2>1. QED
    BY <1>1, <1>3, <1>4, UpTo
<1>6. Ahead(dos, i + 1) <= Ahead(dos, j)
  BY <1>1, <1>5
<1>7. /\ Ahead(dos, i) \in Nat /\ Ahead(dos, j) \in Nat
      /\ Ahead(dos, i + 1) = IF dos[i].do = "label" THEN Ahead(dos, i) ELSE Ahead(dos, i) + 1
  BY AheadNext
<1>8. QED
  BY <1>6, <1>7

(* The code gathered from the first n places.                              *)
Entry(dos, k) == [op |-> dos[k].op, args |-> dos[k].args]
Spot(dos, k) == [label |-> dos[k].label, jump_offset |-> Ahead(dos, k)]

CodeUpTo(dos, n, code) ==
    /\ IsSequence(code) /\ Len(code) = Ahead(dos, n + 1)
    /\ \A k \in 1 .. n : dos[k].do # "label" => code[Ahead(dos, k) + 1] = Entry(dos, k)
    /\ \A c \in DOMAIN code : \E k \in 1 .. n : dos[k].do # "label" /\ c = Ahead(dos, k) + 1
JumpsUpTo(dos, n, jumps) ==
    /\ IsSequence(jumps)
    /\ \A j \in DOMAIN jumps : \E k \in 1 .. n : dos[k].do = "jump" /\ jumps[j] = Spot(dos, k)
    /\ \A k \in 1 .. n : dos[k].do = "jump" => \E j \in DOMAIN jumps : jumps[j] = Spot(dos, k)
LabelsUpTo(dos, n, labels) ==
    \A k \in 1 .. n :
        dos[k].do = "label" => dos[k].label \in DOMAIN labels /\ labels[dos[k].label] = Ahead(dos, k)

GoodCode(dos, n, f) ==
    /\ f = [code |-> f.code, label |-> f.label, jump |-> f.jump, died |-> f.died]
    /\ CodeUpTo(dos, n, f.code) /\ JumpsUpTo(dos, n, f.jump)
    /\ ~f.died => LabelsUpTo(dos, n, f.label)

(* An instruction goes behind those there are.                             *)
LEMMA AppendInstruction ==
    ASSUME NEW dos, NEW n \in Nat, NEW old, CodeUpTo(dos, n, old), dos[n + 1].do # "label"
    PROVE  CodeUpTo(dos, n + 1, Append(old, Entry(dos, n + 1)))
<1>1. PICK code : code = Append(old, Entry(dos, n + 1))
  OBVIOUS
<1>2. IsSequence(old) /\ Len(old) = Ahead(dos, n + 1)
  BY DEF CodeUpTo
<1>3. /\ IsSequence(code) /\ Len(code) = Len(old) + 1 /\ code[Len(old) + 1] = Entry(dos, n + 1)
      /\ \A k \in DOMAIN old : code[k] = old[k]
      /\ DOMAIN code = DOMAIN old \cup {Len(old) + 1}
  BY <1>1, <1>2, AppendSequence
<1>4. n + 1 \in Nat \ {0} /\ n + 1 \in 1 .. n + 1 /\ \A k \in 1 .. n : k \in 1 .. n + 1
  OBVIOUS
<1>5. Ahead(dos, n + 1 + 1) = Ahead(dos, n + 1) + 1 /\ Ahead(dos, n + 1) \in Nat
  BY <1>4, AheadNext
<1>6. DOMAIN old = 1 .. Ahead(dos, n + 1)
  BY <1>2, SequenceDomain
<1>7. ASSUME NEW k \in 1 .. n + 1, dos[k].do # "label" PROVE code[Ahead(dos, k) + 1] = Entry(dos, k)
  <2>1. CASE k = n + 1
    BY <1>2, <1>3, <2>1
  <2>2. CASE k # n + 1
    <3>1. k \in 1 .. n /\ k \in Nat \ {0} /\ k < n + 1
      BY <2>2
    <3>2. Ahead(dos, k) < Ahead(dos, n + 1)
      BY <1>4, <1>7, <3>1, AheadGrows
    <3>3. Ahead(dos, k) \in Nat
      BY <3>1, AheadNext
    <3>4. Ahead(dos, k) + 1 \in DOMAIN old
      BY <1>5, <1>6, <3>2, <3>3
    <3>5. old[Ahead(dos, k) + 1] = Entry(dos, k)
      BY <1>7, <3>1 DEF CodeUpTo
    <3>6. QED
      BY <1>3, <3>4, <3>5
  <2>3. QED
    BY <2>1, <2>2
<1>8. ASSUME NEW c \in DOMAIN code PROVE \E k \in 1 .. n + 1 : dos[k].do # "label" /\ c = Ahead(dos, k) + 1
  <2>1. CASE c \in DOMAIN old
    <3>1. PICK k \in 1 .. n : dos[k].do # "label" /\ c = Ahead(dos, k) + 1
      BY <2>1 DEF CodeUpTo
    <3>2. QED
      BY <1>4, <3>1
  <2>2. CASE c = Len(old) + 1
    BY <1>2, <1>4, <2>2
  <2>3. QED
    BY <1>3, <1>8, <2>1, <2>2
<1>9. CodeUpTo(dos, n + 1, code)
  BY <1>2, <1>3, <1>5, <1>7, <1>8 DEF CodeUpTo
<1>10. QED
  BY <1>1, <1>9

LEMMA AppendJump ==
    ASSUME NEW dos, NEW n \in Nat, NEW old, JumpsUpTo(dos, n, old), dos[n + 1].do = "jump"
    PROVE  JumpsUpTo(dos, n + 1, Append(old, Spot(dos, n + 1)))
<1>1. PICK new : new = Append(old, Spot(dos, n + 1))
  OBVIOUS
<1>2. n + 1 \in 1 .. n + 1 /\ (\A k \in 1 .. n : k \in 1 .. n + 1) /\ \A k \in 1 .. n + 1 : k \in 1 .. n \/ k = n + 1
  OBVIOUS
<1>3. /\ IsSequence(new) /\ new[Len(old) + 1] = Spot(dos, n + 1)
      /\ \A q \in DOMAIN old : q \in DOMAIN new /\ new[q] = old[q]
      /\ DOMAIN new = DOMAIN old \cup {Len(old) + 1}
  BY <1>1, AppendSequence DEF JumpsUpTo
<1>4. ASSUME NEW q \in DOMAIN new PROVE \E k \in 1 .. n + 1 : dos[k].do = "jump" /\ new[q] = Spot(dos, k)
  <2>1. CASE q \in DOMAIN old
    <3>1. PICK k \in 1 .. n : dos[k].do = "jump" /\ old[q] = Spot(dos, k)
      BY <2>1 DEF JumpsUpTo
    <3>2. QED
      BY <1>2, <1>3, <2>1, <3>1
  <2>2. CASE q = Len(old) + 1
    BY <1>2, <1>3, <2>2
  <2>3. QED
    BY <1>3, <2>1, <2>2
<1>5. ASSUME NEW k \in 1 .. n + 1, dos[k].do = "jump" PROVE \E q \in DOMAIN new : new[q] = Spot(dos, k)
  <2>1. CASE k \in 1 .. n
    <3>1. PICK q \in DOMAIN old : old[q] = Spot(dos, k)
      BY <1>5, <2>1 DEF JumpsUpTo
    <3>2. QED
      BY <1>3, <3>1
  <2>2. CASE k = n + 1
    BY <1>3, <2>2
  <2>3. QED
    BY <1>2, <2>1, <2>2
<1>6. JumpsUpTo(dos, n + 1, new)
  BY <1>3, <1>4, <1>5 DEF JumpsUpTo
<1>7. QED
  BY <1>1, <1>6

(* What a place does not touch.                                            *)
LEMMA Untouched ==
    ASSUME NEW dos, NEW n \in Nat, NEW x
    PROVE  /\ dos[n + 1].do = "label" /\ CodeUpTo(dos, n, x) => CodeUpTo(dos, n + 1, x)
           /\ dos[n + 1].do # "jump" /\ JumpsUpTo(dos, n, x) => JumpsUpTo(dos, n + 1, x)
           /\ dos[n + 1].do # "label" /\ LabelsUpTo(dos, n, x) => LabelsUpTo(dos, n + 1, x)
<1>1. (\A k \in 1 .. n : k \in 1 .. n + 1) /\ \A k \in 1 .. n + 1 : k \in 1 .. n \/ k = n + 1
  OBVIOUS
<1>2. dos[n + 1].do = "label" => Ahead(dos, n + 1 + 1) = Ahead(dos, n + 1)
  <2>1. n + 1 \in Nat \ {0}
    OBVIOUS
  <2>2. QED
    BY <2>1, AheadNext
<1>3. dos[n + 1].do = "label" /\ CodeUpTo(dos, n, x) => CodeUpTo(dos, n + 1, x)
  BY <1>1, <1>2, Zenon DEF CodeUpTo
<1>4. dos[n + 1].do # "jump" /\ JumpsUpTo(dos, n, x) => JumpsUpTo(dos, n + 1, x)
  BY <1>1, Zenon DEF JumpsUpTo
<1>5. dos[n + 1].do # "label" /\ LabelsUpTo(dos, n, x) => LabelsUpTo(dos, n + 1, x)
  BY <1>1, Zenon DEF LabelsUpTo
<1>6. QED
  BY <1>3, <1>4, <1>5, Zenon

LEMMA GenerateGood ==
    ASSUME NEW dos, NEW n \in Nat, NEW f, GoodCode(dos, n, f),
           dos[n + 1].do \in {"instruction", "jump", "label"}
    PROVE  GoodCode(dos, n + 1, Generate(f, dos[n + 1]))
<1> DEFINE x == dos[n + 1]
           i == Entry(dos, n + 1)
<1>1. PICK new : new = Generate(f, x)
  OBVIOUS
<1>2. PICK c, l, j, d : f = [code |-> c, label |-> l, jump |-> j, died |-> d]
  BY DEF GoodCode
<1>3. f.code = c /\ f.label = l /\ f.jump = j /\ f.died = d
  BY <1>2
<1>4. CodeUpTo(dos, n, c) /\ JumpsUpTo(dos, n, j) /\ (~d => LabelsUpTo(dos, n, l))
  BY <1>3 DEF GoodCode
<1>5. CASE x.do = "instruction"
  <2>1. new = [code |-> Append(c, i), label |-> l, jump |-> j, died |-> d]
    BY <1>1, <1>2, <1>5 DEF Generate, Entry
  <2>2. new.code = Append(c, i) /\ new.label = l /\ new.jump = j /\ new.died = d
    BY <2>1
  <2>3. CodeUpTo(dos, n + 1, new.code)
    BY <1>4, <1>5, <2>2, AppendInstruction
  <2>4. JumpsUpTo(dos, n + 1, j) /\ (~d => LabelsUpTo(dos, n + 1, l))
    BY <1>4, <1>5, Untouched
  <2>5. QED
    BY <1>1, <2>1, <2>2, <2>3, <2>4 DEF GoodCode
<1>6. CASE x.do = "jump"
  <2>1. new = [code |-> Append(c, i), label |-> l, jump |-> Append(j, Spot(dos, n + 1)), died |-> d]
    <3>1. Len(f.code) = Ahead(dos, n + 1)
      BY <1>3, <1>4 DEF CodeUpTo
    <3>2. QED
      BY <1>1, <1>2, <1>6, <3>1 DEF Generate, Entry, Spot
  <2>2. new.code = Append(c, i) /\ new.label = l /\ new.jump = Append(j, Spot(dos, n + 1)) /\ new.died = d
    BY <2>1
  <2>3. CodeUpTo(dos, n + 1, new.code)
    BY <1>4, <1>6, <2>2, AppendInstruction
  <2>4. JumpsUpTo(dos, n + 1, new.jump)
    BY <1>4, <1>6, <2>2, AppendJump
  <2>5. ~d => LabelsUpTo(dos, n + 1, l)
    BY <1>4, <1>6, Untouched
  <2>6. QED
    BY <1>1, <2>1, <2>2, <2>3, <2>4, <2>5 DEF GoodCode
<1>7. CASE x.do = "label"
  <2> DEFINE again == x.label \in DOMAIN l
             labels == IF again THEN l ELSE put(l, x.label, Len(c))
  <2>1. new = [code |-> c, label |-> labels, jump |-> j, died |-> IF again THEN TRUE ELSE d]
    BY <1>1, <1>2, <1>7 DEF Generate
  <2>2. new.code = c /\ new.label = labels /\ new.jump = j /\ new.died = IF again THEN TRUE ELSE d
    BY <2>1
  <2>3. CodeUpTo(dos, n + 1, c) /\ JumpsUpTo(dos, n + 1, j)
    BY <1>4, <1>7, Untouched
  <2>4. ASSUME ~new.died PROVE LabelsUpTo(dos, n + 1, labels)
    <3>1. ~again /\ ~d /\ labels = put(l, x.label, Len(c))
      BY <2>2, <2>4
    <3>2. DOMAIN labels = DOMAIN l \cup {x.label} /\ labels[x.label] = Len(c)
          /\ \A y \in DOMAIN l : labels[y] = l[y]
      BY <3>1 DEF put
    <3>3. Len(c) = Ahead(dos, n + 1) /\ LabelsUpTo(dos, n, l)
      BY <1>4, <3>1 DEF CodeUpTo
    <3> HIDE DEF labels, again
    <3>4. ASSUME NEW k \in 1 .. n + 1, dos[k].do = "label"
          PROVE  dos[k].label \in DOMAIN labels /\ labels[dos[k].label] = Ahead(dos, k)
      <4>1. CASE k = n + 1
        BY <3>2, <3>3, <4>1
      <4>2. CASE k # n + 1
        <5>1. k \in 1 .. n
          BY <4>2
        <5>2. dos[k].label \in DOMAIN l /\ l[dos[k].label] = Ahead(dos, k)
          BY <3>3, <3>4, <5>1 DEF LabelsUpTo
        <5>3. QED
          BY <3>2, <5>2
      <4>3. QED
        BY <4>1, <4>2
    <3>5. QED
      BY <3>4 DEF LabelsUpTo
  <2> HIDE DEF labels, again
  <2>5. QED
    BY <1>1, <2>1, <2>2, <2>3, <2>4 DEF GoodCode
<1>8. QED
  BY <1>5, <1>6, <1>7

LEMMA GatherGood ==
    ASSUME NEW dos, IsSequence(dos), \A k \in DOMAIN dos : dos[k].do \in {"instruction", "jump", "label"}
    PROVE  GoodCode(dos, Len(dos), Gather(dos))
<1> DEFINE last == Len(dos)
           f == Gathered(dos)
           Good(n) == GoodCode(dos, n, f[n])
           S == {n \in 0 .. last : Good(n)}
<1>1. last \in Nat /\ DOMAIN dos = 1 .. last
  BY SequenceDomain
<1>2. f = [n \in 0 .. last |-> IF n = 0 THEN NoCode ELSE Generate(f[n - 1], dos[n])]
  BY <1>1, GatheredDef, Zenon
<1> HIDE DEF f, last
<1>3. 0 \in S
  <2>1. f[0] = NoCode
    BY <1>1, <1>2
  <2>2. /\ f[0] = [code |-> f[0].code, label |-> f[0].label, jump |-> f[0].jump, died |-> f[0].died]
        /\ f[0].code = <<>> /\ f[0].jump = <<>> /\ f[0].died = FALSE
    BY <2>1 DEF NoCode
  <2>3. IsSequence(<<>>) /\ Len(<<>>) = 0 /\ DOMAIN <<>> = {}
    BY EmptySequence
  <2>4. Ahead(dos, 0 + 1) = 0
    BY AheadNext
  <2>5. \A k : k \notin 1 .. 0
    OBVIOUS
  <2>6. GoodCode(dos, 0, f[0])
    BY <2>2, <2>3, <2>4, <2>5 DEF GoodCode, CodeUpTo, JumpsUpTo, LabelsUpTo
  <2>7. QED
    BY <1>1, <2>6
<1>4. \A n \in 0 .. last : n # last /\ n \in S => n + 1 \in S
  <2>1. SUFFICES ASSUME NEW n \in 0 .. last, n # last, n \in S PROVE n + 1 \in S
    BY Zenon
  <2>2. n \in Nat /\ n + 1 \in 1 .. last /\ n + 1 \in 0 .. last /\ n + 1 # 0 /\ (n + 1) - 1 = n
    <3> HIDE DEF S
    <3>1. QED
      BY <1>1, <2>1
  <2>3. GoodCode(dos, n, f[n])
    BY <2>1
  <2>4. dos[n + 1].do \in {"instruction", "jump", "label"}
    BY <1>1, <2>2
  <2>5. f[n + 1] = Generate(f[n], dos[n + 1])
    BY <1>2, <2>2
  <2>6. GoodCode(dos, n + 1, f[n + 1])
    BY <2>2, <2>3, <2>4, <2>5, GenerateGood
  <2>7. QED
    BY <2>2, <2>6
<1>5. last \in S
  <2> HIDE DEF S
  <2>1. last \in 0 .. last
    BY <1>1
  <2>2. QED
    BY <1>1, <1>3, <1>4, <2>1, UpTo
<1>6. QED
  BY <1>5, GatherLast DEF f, last

-----------------------------------------------------------------------------
(***************************************************************************)
(* Measuring: jumps get their counts, then their bytes.                    *)
(***************************************************************************)
LEMMA SetJump ==
    ASSUME NEW op, NEW args, 1 \in DOMAIN args, NEW v, NEW i, i = [op |-> op, args |-> args]
    PROVE  /\ setjump(i, v) = [op |-> op, args |-> [args EXCEPT ![1] = v]]
           /\ setjump(i, v).op = op /\ DOMAIN setjump(i, v).args = DOMAIN args
           /\ jump(setjump(i, v)) = v /\ \A k \in DOMAIN args : k # 1 => setjump(i, v).args[k] = args[k]
<1>1. PICK new : new = setjump(i, v)
  OBVIOUS
<1>2. new = [op |-> op, args |-> [args EXCEPT ![1] = v]]
  BY <1>1 DEF setjump
<1>3. new.op = op /\ new.args = [args EXCEPT ![1] = v]
  BY <1>2
<1>4. QED
  BY <1>1, <1>2, <1>3 DEF jump

(* No two instructions have the same place.                                *)
LEMMA OnePlace ==
    ASSUME NEW dos, NEW i \in Nat \ {0}, NEW j \in Nat \ {0}, dos[i].do # "label", dos[j].do # "label",
           Ahead(dos, i) = Ahead(dos, j)
    PROVE  i = j
<1>1. Ahead(dos, i) \in Nat /\ Ahead(dos, j) \in Nat
  BY AheadNext
<1>2. CASE i < j
  <2>1. Ahead(dos, i) < Ahead(dos, j)
    BY <1>2, AheadGrows
  <2>2. QED
    BY <1>1, <2>1
<1>3. CASE j < i
  <2>1. Ahead(dos, j) < Ahead(dos, i)
    BY <1>3, AheadGrows
  <2>2. QED
    BY <1>1, <2>1
<1>4. QED
  BY <1>2, <1>3

(* The count of instructions a jump at i has at first.                     *)
Count(dos, f, i) == int16(label_index(f.label, dos[i].label) - Ahead(dos, i))

LEMMA CountedCode ==
    ASSUME NEW dos, NEW n \in Nat, NEW f, GoodCode(dos, n, f)
    PROVE  /\ DOMAIN Counted(f) = DOMAIN f.code
           /\ \A i \in 1 .. n :
                 /\ dos[i].do = "instruction" => Counted(f)[Ahead(dos, i) + 1] = Entry(dos, i)
                 /\ dos[i].do = "jump" =>
                       Counted(f)[Ahead(dos, i) + 1] = setjump(Entry(dos, i), Count(dos, f, i))
<1>1. DOMAIN Counted(f) = DOMAIN f.code
  BY DEF Counted
<1> DEFINE HasJump(k) == \E j \in DOMAIN f.jump : f.jump[j].jump_offset = k - 1
           J(k) == CHOOSE j \in DOMAIN f.jump : f.jump[j].jump_offset = k - 1
           Recount(k) == setjump(f.code[k], int16(label_index(f.label, f.jump[J(k)].label) - (k - 1)))
<1>a. \A k \in DOMAIN f.code : Counted(f)[k] = IF HasJump(k) THEN Recount(k) ELSE f.code[k]
  BY Zenon DEF Counted
<1> HIDE DEF HasJump, J, Recount
<1>2. ASSUME NEW i \in 1 .. n, dos[i].do # "label"
      PROVE  \E k \in DOMAIN f.code :
                k = Ahead(dos, i) + 1 /\ f.code[k] = Entry(dos, i) /\ k - 1 = Ahead(dos, i)
  <2>1. i \in Nat \ {0} /\ n + 1 \in Nat /\ i < n + 1
    OBVIOUS
  <2>2. Ahead(dos, i) < Ahead(dos, n + 1) /\ Ahead(dos, i) \in Nat
    BY <1>2, <2>1, AheadGrows, AheadNext
  <2>3. DOMAIN f.code = 1 .. Ahead(dos, n + 1) /\ Ahead(dos, n + 1) \in Nat
    BY SequenceDomain DEF GoodCode, CodeUpTo
  <2>4. f.code[Ahead(dos, i) + 1] = Entry(dos, i)
    BY <1>2 DEF GoodCode, CodeUpTo
  <2>5. QED
    BY <2>2, <2>3, <2>4
<1>3. ASSUME NEW i \in 1 .. n, dos[i].do # "label", NEW j \in DOMAIN f.jump, f.jump[j].jump_offset = Ahead(dos, i)
      PROVE  dos[i].do = "jump" /\ f.jump[j].label = dos[i].label
  <2>1. PICK k \in 1 .. n : dos[k].do = "jump" /\ f.jump[j] = Spot(dos, k)
    BY DEF GoodCode, JumpsUpTo
  <2>2. f.jump[j].label = dos[k].label /\ f.jump[j].jump_offset = Ahead(dos, k)
    BY <2>1 DEF Spot
  <2>3. i \in Nat \ {0} /\ k \in Nat \ {0}
    OBVIOUS
  <2>4. dos[k].do # "label"
    BY <2>1
  <2>5. k = i
    BY <1>3, <2>2, <2>3, <2>4, OnePlace
  <2>6. QED
    BY <2>1, <2>2, <2>5
<1>4. ASSUME NEW i \in 1 .. n, dos[i].do = "instruction"
      PROVE  Counted(f)[Ahead(dos, i) + 1] = Entry(dos, i)
  <2>1. dos[i].do # "label" /\ dos[i].do # "jump"
    BY <1>4
  <2>3. PICK k \in DOMAIN f.code :
            k = Ahead(dos, i) + 1 /\ f.code[k] = Entry(dos, i) /\ k - 1 = Ahead(dos, i)
    BY <1>2, <2>1, Zenon
  <2>4. ~HasJump(k)
    BY <1>3, <2>1, <2>3, Zenon DEF HasJump
  <2>5. Counted(f)[k] = f.code[k]
    BY <1>a, <2>3, <2>4
  <2>6. QED
    BY <2>3, <2>5, Zenon
<1>5. ASSUME NEW i \in 1 .. n, dos[i].do = "jump"
      PROVE  Counted(f)[Ahead(dos, i) + 1] = setjump(Entry(dos, i), Count(dos, f, i))
  <2>2. dos[i].do # "label"
    BY <1>5
  <2>3. PICK k \in DOMAIN f.code :
            k = Ahead(dos, i) + 1 /\ f.code[k] = Entry(dos, i) /\ k - 1 = Ahead(dos, i)
    BY <1>2, <2>2, Zenon
  <2>4. HasJump(k)
    <3>1. PICK j \in DOMAIN f.jump : f.jump[j] = Spot(dos, i)
      BY <1>5 DEF GoodCode, JumpsUpTo
    <3>2. f.jump[j].jump_offset = Ahead(dos, i)
      BY <3>1 DEF Spot
    <3>3. QED
      BY <2>3, <3>2 DEF HasJump
  <2>5. Counted(f)[k] = setjump(f.code[k], int16(label_index(f.label, f.jump[J(k)].label) - (k - 1)))
    BY <1>a, <2>3, <2>4 DEF Recount
  <2>6. J(k) \in DOMAIN f.jump /\ f.jump[J(k)].jump_offset = Ahead(dos, i)
    BY <2>3, <2>4 DEF HasJump, J
  <2>7. f.jump[J(k)].label = dos[i].label
    BY <1>3, <2>2, <2>6, Zenon
  <2>8. Counted(f)[k] = setjump(Entry(dos, i), Count(dos, f, i))
    BY <2>3, <2>5, <2>7, Zenon DEF Count
  <2>9. QED
    BY <2>3, <2>8, Zenon
<1>6. QED
  BY <1>1, <1>4, <1>5

(* Counted instructions have the sizes of the statements, and so have the  *)
(* measured ones, of which only jumps are set again.                       *)
LEMMA CountedSizes ==
    ASSUME NEW dos, NEW n \in Nat, NEW f, GoodCode(dos, n, f),
           \A i \in 1 .. n : /\ dos[i].do \in {"instruction", "jump", "label"}
                             /\ dos[i].do # "label" => dos[i].op \in DOMAIN WRITER
                             /\ dos[i].do = "jump" => 1 \in DOMAIN dos[i].args
    PROVE  /\ DOMAIN Counted(f) = 1 .. Ahead(dos, n + 1) /\ Ahead(dos, n + 1) \in Nat
           /\ Sized(Counted(f), Ahead(dos, n + 1))
           /\ \A i \in 1 .. n : dos[i].do # "label" => Counted(f)[Ahead(dos, i) + 1].op = dos[i].op
<1> DEFINE len == Ahead(dos, n + 1)
<1>1. len \in Nat /\ DOMAIN f.code = 1 .. len
  BY SequenceDomain DEF GoodCode, CodeUpTo
<1>2. DOMAIN Counted(f) = 1 .. len
  BY <1>1, CountedCode
<1>3. ASSUME NEW i \in 1 .. n, dos[i].do # "label" PROVE Counted(f)[Ahead(dos, i) + 1].op = dos[i].op
  <2>1. CASE dos[i].do = "instruction"
    <3>1. Counted(f)[Ahead(dos, i) + 1] = Entry(dos, i)
      BY <2>1, CountedCode
    <3>2. QED
      BY <3>1 DEF Entry
  <2>2. CASE dos[i].do = "jump"
    <3>1. Counted(f)[Ahead(dos, i) + 1] = setjump(Entry(dos, i), Count(dos, f, i))
      BY <2>2, CountedCode
    <3>2. PICK args, v : args = dos[i].args /\ v = Count(dos, f, i)
      OBVIOUS
    <3>3. 1 \in DOMAIN args /\ Entry(dos, i) = [op |-> dos[i].op, args |-> args]
      BY <2>2, <3>2 DEF Entry
    <3>4. setjump(Entry(dos, i), v).op = dos[i].op
      BY <3>3, SetJump
    <3>5. QED
      BY <3>1, <3>2, <3>4
  <2>3. QED
    BY <1>3, <2>1, <2>2
<1>4. ASSUME NEW c \in 1 .. len PROVE isize(Counted(f)[c]) \in 1 .. 9
  <2>1. PICK k \in 1 .. n : dos[k].do # "label" /\ c = Ahead(dos, k) + 1
    BY <1>1 DEF GoodCode, CodeUpTo
  <2>2. Counted(f)[c].op = dos[k].op
    BY <1>3, <2>1
  <2>3. dos[k].op \in DOMAIN WRITER
    BY <2>1
  <2>4. QED
    BY <2>2, <2>3, Sizes DEF isize
<1>5. QED
  BY <1>1, <1>2, <1>3, <1>4 DEF Sized

LEMMA MeasuredCode ==
    ASSUME NEW dos, NEW n \in Nat, NEW f, GoodCode(dos, n, f),
           \A i \in 1 .. n : /\ dos[i].do \in {"instruction", "jump", "label"}
                             /\ dos[i].do # "label" => dos[i].op \in DOMAIN WRITER
                             /\ dos[i].do = "instruction" => dos[i].op \notin measured
                             /\ dos[i].do = "jump" => dos[i].op \in measured /\ 1 \in DOMAIN dos[i].args
    PROVE  /\ DOMAIN measure_jump_bytes(Counted(f)) = 1 .. Ahead(dos, n + 1)
           /\ \A i \in 1 .. n :
                 /\ dos[i].do = "instruction" => measure_jump_bytes(Counted(f))[Ahead(dos, i) + 1] = Entry(dos, i)
                 /\ dos[i].do = "jump" =>
                       measure_jump_bytes(Counted(f))[Ahead(dos, i) + 1]
                         = setjump(setjump(Entry(dos, i), Count(dos, f, i)),
                                   count_jump_bytes(Counted(f), Ahead(dos, i) + 1, Count(dos, f, i)))
<1> DEFINE len == Ahead(dos, n + 1)
           Resize(c) == setjump(Counted(f)[c], count_jump_bytes(Counted(f), c, jump(Counted(f)[c])))
<1>1. DOMAIN Counted(f) = 1 .. len
  BY CountedSizes
<1>2. \A c \in 1 .. len : measure_jump_bytes(Counted(f))[c]
                            = IF Counted(f)[c].op \in measured THEN Resize(c) ELSE Counted(f)[c]
  BY <1>1, Zenon DEF measure_jump_bytes
<1>3. DOMAIN measure_jump_bytes(Counted(f)) = 1 .. len
  BY <1>1 DEF measure_jump_bytes
<1> HIDE DEF Resize
<1>4. ASSUME NEW i \in 1 .. n, dos[i].do # "label"
      PROVE  Ahead(dos, i) + 1 \in 1 .. len /\ Counted(f)[Ahead(dos, i) + 1].op = dos[i].op
  <2>1. i \in Nat \ {0} /\ n + 1 \in Nat /\ i < n + 1 /\ n + 1 \in Nat \ {0}
    OBVIOUS
  <2>2. Ahead(dos, i) < len /\ Ahead(dos, i) \in Nat /\ len \in Nat
    BY <1>4, <2>1, AheadGrows, AheadNext
  <2>3. Counted(f)[Ahead(dos, i) + 1].op = dos[i].op
    BY <1>4, CountedSizes
  <2>4. QED
    BY <2>2, <2>3
<1>5. ASSUME NEW i \in 1 .. n, dos[i].do = "instruction"
      PROVE  measure_jump_bytes(Counted(f))[Ahead(dos, i) + 1] = Entry(dos, i)
  <2>1. PICK c \in 1 .. len : c = Ahead(dos, i) + 1 /\ Counted(f)[c].op = dos[i].op
    BY <1>4, <1>5
  <2>2. Counted(f)[c] = Entry(dos, i) /\ Counted(f)[c].op \notin measured
    BY <1>5, <2>1, CountedCode
  <2>3. QED
    BY <1>2, <2>1, <2>2
<1>6. ASSUME NEW i \in 1 .. n, dos[i].do = "jump"
      PROVE  measure_jump_bytes(Counted(f))[Ahead(dos, i) + 1]
               = setjump(setjump(Entry(dos, i), Count(dos, f, i)),
                         count_jump_bytes(Counted(f), Ahead(dos, i) + 1, Count(dos, f, i)))
  <2>1. PICK c \in 1 .. len : c = Ahead(dos, i) + 1 /\ Counted(f)[c].op = dos[i].op
    BY <1>4, <1>6
  <2>2. Counted(f)[c] = setjump(Entry(dos, i), Count(dos, f, i)) /\ Counted(f)[c].op \in measured
    BY <1>6, <2>1, CountedCode
  <2>3. PICK args, v : args = dos[i].args /\ v = Count(dos, f, i)
    OBVIOUS
  <2>4. 1 \in DOMAIN args /\ Entry(dos, i) = [op |-> dos[i].op, args |-> args]
    BY <1>6, <2>3 DEF Entry
  <2>5. jump(setjump(Entry(dos, i), v)) = v
    BY <2>4, SetJump
  <2>6. measure_jump_bytes(Counted(f))[c] = Resize(c)
    BY <1>2, <2>2
  <2>7. QED
    BY <2>1, <2>2, <2>3, <2>5, <2>6, Zenon DEF Resize
<1>7. QED
  BY <1>3, <1>5, <1>6

(* No offset is larger than the one at the end.                            *)
LEMMA OffsetGrows ==
    ASSUME NEW code, NEW len \in Nat, Sized(code, len), NEW a \in 0 .. len
    PROVE  Offset(code, a) <= Offset(code, len)
<1> DEFINE last == len - a
           S == {n \in 0 .. last : Offset(code, a) <= Offset(code, a + n)}
<1>1. last \in Nat /\ a + last = len /\ a + 0 = a
  OBVIOUS
<1>2. \A n \in 0 .. len : Offset(code, n) \in Nat
  BY Offsets
<1>3. 0 \in S
  BY <1>1, <1>2
<1>4. ASSUME NEW n \in 0 .. last, n # last, n \in S PROVE n + 1 \in S
  <2>1. /\ n + 1 \in 0 .. last /\ a + n \in 0 .. len /\ a + n # len /\ a + (n + 1) = a + n + 1
        /\ a + n + 1 \in 1 .. len /\ a + n + 1 \in 0 .. len
    BY <1>4
  <2>2. Offset(code, a + n + 1) = Offset(code, a + n) + isize(code[a + n + 1])
    BY <2>1, Offsets
  <2>3. isize(code[a + n + 1]) \in 1 .. 9
    BY <2>1 DEF Sized
  <2>4. Offset(code, a) \in Nat /\ Offset(code, a + n) \in Nat /\ Offset(code, a) <= Offset(code, a + n)
    BY <1>2, <1>4, <2>1
  <2>5. Offset(code, a) <= Offset(code, a + (n + 1))
    BY <2>1, <2>2, <2>3, <2>4
  <2>6. QED
    BY <2>1, <2>5
<1>5. last \in S
  <2> HIDE DEF S, last
  <2>1. last \in Nat /\ last \in 0 .. last
    BY <1>1
  <2>2. \A n \in 0 .. last : n # last /\ n \in S => n + 1 \in S
    BY <1>4
  <2>3. QED
    BY <1>3, <2>1, <2>2, UpTo
<1>6. QED
  BY <1>1, <1>5

(* A number that fits is what it was, in 16 bits.                          *)
LEMMA Fits == \A i \in Int : -32768 <= i /\ i < 32768 => int16(i) = i
BY DEF int16

(* The bytes of a jump over the instructions between two places: forward   *)
(* from the jump on, backward up to the jump, which is not among them.     *)
LEMMA JumpBytes ==
    ASSUME NEW code, NEW len \in Nat, Sized(code, len), Offset(code, len) < 32768,
           NEW a \in 0 .. len, NEW b \in 0 .. len
    PROVE  count_jump_bytes(code, a + 1, b - a) = Offset(code, b) - Offset(code, a)
<1>1. PICK at, by : at = Offset(code, a) /\ by = Offset(code, b)
  OBVIOUS
<1>2. at \in Nat /\ by \in Nat
  BY <1>1, Offsets
<1>3. at < 32768 /\ by < 32768
  <2>1. at <= Offset(code, len) /\ by <= Offset(code, len) /\ Offset(code, len) \in Nat
    BY <1>1, Offsets, OffsetGrows
  <2>2. QED
    BY <1>2, <2>1
<1>4. int16(by - at) = by - at
  <2>1. by - at \in Int /\ -32768 <= by - at /\ by - at < 32768
    BY <1>2, <1>3
  <2>2. QED
    BY <2>1, Fits
<1>5. CASE b < a
  <2>1. PICK d, k : d = b - a /\ k = a + 1
    OBVIOUS
  <2>2. d < 0 /\ k + d = b + 1 /\ 0 - d = a - b /\ b <= a
    BY <1>5, <2>1
  <2>3. Bytes_passed(code, b + 1, a - b) = at - by
    BY <1>1, <2>2, Stretch
  <2>4. count_jump_bytes(code, k, d) = int16(0 - Bytes_passed(code, k + d, 0 - d))
    BY <2>2 DEF count_jump_bytes
  <2>5. 0 - (at - by) = by - at
    BY <1>2
  <2>6. count_jump_bytes(code, k, d) = int16(by - at)
    BY <2>2, <2>3, <2>4, <2>5
  <2>7. QED
    BY <1>1, <1>4, <2>1, <2>6
<1>6. CASE a <= b
  <2>1. PICK d, k : d = b - a /\ k = a + 1
    OBVIOUS
  <2>2. ~(d < 0)
    BY <1>6, <2>1
  <2>3. Bytes_passed(code, a + 1, b - a) = by - at
    BY <1>1, <1>6, Stretch
  <2>4. count_jump_bytes(code, k, d) = int16(Bytes_passed(code, k, d))
    BY <2>2 DEF count_jump_bytes
  <2>5. QED
    BY <1>1, <1>4, <2>1, <2>3, <2>4
<1>7. QED
  BY <1>5, <1>6

(* For every function of the statements: its instructions are those of the *)
(* statements, in order, and measuring changes nothing but jumps; when no  *)
(* label is given twice and the function has less than 32K of code, every  *)
(* jump ends at its label (AsmFunc's generate, measure_function_jumps and  *)
(* count_jump_bytes of lib/qbc.cpp).                                       *)
THEOREM Jumps ==
    ASSUME NEW dos, IsSequence(dos), IsCode(dos)
    PROVE  /\ InOrder(dos)
           /\ LET code == measure_function_jumps(Gather(dos)).code
              IN  ~Gather(dos).died /\ Offset(code, Len(code)) < 32768 => Lands(dos)
<1> DEFINE last == Len(dos)
           len == Ahead(dos, last + 1)
           Made(f) == measure_function_jumps(f).code
<1>1. last \in Nat /\ DOMAIN dos = 1 .. last
  BY SequenceDomain
<1>2. PICK f : f = Gather(dos)
  OBVIOUS
<1>3. GoodCode(dos, last, f)
  BY <1>2, GatherGood DEF IsCode
<1>4. \A i \in 1 .. last : /\ dos[i].do \in {"instruction", "jump", "label"}
                           /\ dos[i].do # "label" => dos[i].op \in DOMAIN WRITER
                           /\ dos[i].do = "instruction" => dos[i].op \notin measured
                           /\ dos[i].do = "jump" => dos[i].op \in measured /\ 1 \in DOMAIN dos[i].args
  BY <1>1 DEF IsCode
<1>5. Made(f) = measure_jump_bytes(Counted(f))
  <2>1. PICK new : new = measure_function_jumps(f)
    OBVIOUS
  <2>2. PICK c, l, j, d : f = [code |-> c, label |-> l, jump |-> j, died |-> d]
    BY <1>3 DEF GoodCode
  <2>3. new.code = measure_jump_bytes(Counted(f))
    BY <2>1, <2>2, Zenon DEF measure_function_jumps
  <2>4. QED
    BY <2>1, <2>3
<1> HIDE DEF Made, last
<1>6. PICK code, counted : code = Made(f) /\ counted = Counted(f)
  OBVIOUS
<1>7. /\ len \in Nat /\ DOMAIN counted = 1 .. len /\ Sized(counted, len)
      /\ \A i \in 1 .. last : dos[i].do # "label" => counted[Ahead(dos, i) + 1].op = dos[i].op
  BY <1>1, <1>3, <1>4, <1>6, CountedSizes
<1>8. /\ DOMAIN code = 1 .. len
      /\ \A i \in 1 .. last :
            /\ dos[i].do = "instruction" => code[Ahead(dos, i) + 1] = Entry(dos, i)
            /\ dos[i].do = "jump" =>
                  code[Ahead(dos, i) + 1]
                    = setjump(setjump(Entry(dos, i), Count(dos, f, i)),
                              count_jump_bytes(counted, Ahead(dos, i) + 1, Count(dos, f, i)))
  BY <1>1, <1>3, <1>4, <1>5, <1>6, MeasuredCode
<1>9. Len(code) = len
  BY <1>7, <1>8, SequenceLength
(* What the places of the measured code hold.                              *)
<1>10. ASSUME NEW i \in 1 .. last, dos[i].do = "jump"
       PROVE  /\ code[Ahead(dos, i) + 1].op = dos[i].op
              /\ DOMAIN code[Ahead(dos, i) + 1].args = DOMAIN dos[i].args
              /\ jump(code[Ahead(dos, i) + 1]) = count_jump_bytes(counted, Ahead(dos, i) + 1, Count(dos, f, i))
              /\ \A k \in DOMAIN dos[i].args : k # 1 => code[Ahead(dos, i) + 1].args[k] = dos[i].args[k]
  <2>1. PICK op, args, v, w :
           op = dos[i].op /\ args = dos[i].args /\ v = Count(dos, f, i)
           /\ w = count_jump_bytes(counted, Ahead(dos, i) + 1, Count(dos, f, i))
    OBVIOUS
  <2>2. 1 \in DOMAIN args /\ Entry(dos, i) = [op |-> op, args |-> args]
    BY <1>4, <1>10, <2>1 DEF Entry
  <2>3. PICK one : one = [args EXCEPT ![1] = v]
    OBVIOUS
  <2>4. setjump(Entry(dos, i), v) = [op |-> op, args |-> one] /\ DOMAIN one = DOMAIN args
        /\ \A k \in DOMAIN args : k # 1 => one[k] = args[k]
    BY <2>2, <2>3, SetJump
  <2>5. PICK it : it = setjump([op |-> op, args |-> one], w)
    OBVIOUS
  <2>6. /\ it.op = op /\ DOMAIN it.args = DOMAIN one /\ jump(it) = w
        /\ \A k \in DOMAIN one : k # 1 => it.args[k] = one[k]
    BY <2>2, <2>4, <2>5, SetJump
  <2>7. code[Ahead(dos, i) + 1] = it
    BY <1>8, <1>10, <2>1, <2>4, <2>5
  <2>8. QED
    BY <2>1, <2>4, <2>6, <2>7, Zenon
<1>11. InOrder(dos)
  <2>1. ASSUME NEW i \in 1 .. last, dos[i].do # "label"
        PROVE  LET it == code[Ahead(dos, i) + 1]
               IN  /\ it.op = dos[i].op /\ DOMAIN it.args = DOMAIN dos[i].args
                   /\ \A k \in DOMAIN it.args :
                         ~(dos[i].do = "jump" /\ k = 1) => it.args[k] = dos[i].args[k]
    <3>1. CASE dos[i].do = "instruction"
      <4>1. code[Ahead(dos, i) + 1] = Entry(dos, i)
        BY <1>8, <3>1
      <4>2. QED
        BY <3>1, <4>1 DEF Entry
    <3>2. CASE dos[i].do = "jump"
      BY <1>10, <3>2, Zenon
    <3>3. QED
      BY <1>4, <2>1, <3>1, <3>2
  <2>2. QED
    BY <1>1, <1>2, <1>6, <1>9, <2>1, Zenon DEF InOrder, Made, last
<1>12. ASSUME ~f.died, Offset(code, Len(code)) < 32768 PROVE Lands(dos)
  <2>1. \A n \in 0 .. len : Offset(code, n) = Offset(counted, n)
    <3>1. ASSUME NEW c \in 1 .. len PROVE isize(code[c]) = isize(counted[c])
      <4>1. PICK i \in 1 .. last : dos[i].do # "label" /\ c = Ahead(dos, i) + 1
        <5>1. DOMAIN f.code = 1 .. len
          BY SequenceDomain, <1>3 DEF GoodCode, CodeUpTo
        <5>2. QED
          BY <1>3, <5>1 DEF GoodCode, CodeUpTo
      <4>2. counted[c].op = dos[i].op
        BY <1>7, <4>1
      <4>3. code[c].op = dos[i].op
        <5>1. CASE dos[i].do = "instruction"
          <6>1. code[c] = Entry(dos, i)
            BY <1>8, <4>1, <5>1
          <6>2. QED
            BY <6>1 DEF Entry
        <5>2. CASE dos[i].do = "jump"
          BY <1>10, <4>1, <5>2
        <5>3. QED
          BY <1>4, <4>1, <5>1, <5>2
      <4>4. QED
        BY <4>2, <4>3 DEF isize
    <3>2. QED
      BY <1>7, <3>1, SameOffsets, Zenon
  <2>2. Offset(counted, len) < 32768
    BY <1>7, <1>9, <1>12, <2>1
  <2>3. ASSUME NEW i \in 1 .. last, NEW j \in 1 .. last,
               dos[i].do = "jump", dos[j].do = "label", dos[j].label = dos[i].label
        PROVE  Offset(code, Ahead(dos, i)) + jump(code[Ahead(dos, i) + 1]) = Offset(code, Ahead(dos, j))
    <3>1. PICK a, b : a = Ahead(dos, i) /\ b = Ahead(dos, j)
      OBVIOUS
    <3>2. a \in 0 .. len /\ b \in 0 .. len
      <4>1. /\ i \in Nat \ {0} /\ j \in Nat \ {0} /\ last + 1 \in Nat /\ i < last + 1 /\ j < last + 1
        BY <1>1
      <4>2. a \in Nat /\ b \in Nat /\ a <= len /\ b <= len
        BY <3>1, <4>1, AheadNext, AheadGrows
      <4>3. QED
        BY <1>7, <4>2
    <3>3. label_index(f.label, dos[i].label) = b
      <4>1. LabelsUpTo(dos, last, f.label)
        BY <1>3, <1>12 DEF GoodCode
      <4>2. dos[i].label \in DOMAIN f.label /\ f.label[dos[i].label] = b
        BY <2>3, <3>1, <4>1 DEF LabelsUpTo
      <4>3. QED
        BY <4>2 DEF label_index
    <3>4. Count(dos, f, i) = b - a
      <4>1. Offset(counted, len) >= len /\ Offset(counted, len) \in Nat
        BY <1>7, Offsets
      <4>2. b - a \in Int /\ -32768 <= b - a /\ b - a < 32768
        BY <1>7, <2>2, <3>2, <4>1
      <4>3. QED
        BY <3>1, <3>3, <4>2, Fits DEF Count
    <3>5. jump(code[a + 1]) = count_jump_bytes(counted, a + 1, b - a)
      BY <1>10, <2>3, <3>1, <3>4
    <3>6. count_jump_bytes(counted, a + 1, b - a) = Offset(counted, b) - Offset(counted, a)
      BY <1>7, <2>2, <3>2, JumpBytes
    <3>7. Offset(counted, a) \in Nat /\ Offset(counted, b) \in Nat
      BY <1>7, <3>2, Offsets
    <3>8. Offset(code, a) + jump(code[a + 1]) = Offset(code, b)
      BY <2>1, <3>2, <3>5, <3>6, <3>7
    <3>9. QED
      BY <3>1, <3>8
  <2>4. QED
    BY <1>1, <1>2, <1>6, <2>3, Zenon DEF Lands, Made, last
<1>13. measure_function_jumps(Gather(dos)).code = code
  BY <1>2, <1>6 DEF Made
<1>14. QED
  BY <1>2, <1>11, <1>12, <1>13

-----------------------------------------------------------------------------
(***************************************************************************)
(* Indices: the keys of the resources are in a strict total order.         *)
(***************************************************************************)
LEMMA KeyIrreflexive == ASSUME NEW a \in Seq(Int) PROVE ~KeyLess(a, a)
<1>1. \A i \in DOMAIN a : a[i] \in Int
  BY ElementOfSeq
<1>2. QED
  BY <1>1 DEF KeyLess

LEMMA KeyTransitive ==
    ASSUME NEW a \in Seq(Int), NEW b \in Seq(Int), NEW c \in Seq(Int), KeyLess(a, b), KeyLess(b, c)
    PROVE  KeyLess(a, c)
<1>0. /\ DOMAIN a = 1 .. Len(a) /\ DOMAIN b = 1 .. Len(b) /\ DOMAIN c = 1 .. Len(c)
      /\ Len(a) \in Nat /\ Len(b) \in Nat /\ Len(c) \in Nat
  OBVIOUS
<1>a. (\A i \in DOMAIN a : a[i] \in Int) /\ (\A i \in DOMAIN b : b[i] \in Int) /\ \A i \in DOMAIN c : c[i] \in Int
  BY ElementOfSeq
<1>1. PICK i \in DOMAIN b : /\ \A n \in 1 .. i - 1 : n \in DOMAIN a /\ a[n] = b[n]
                            /\ i \in DOMAIN a => a[i] < b[i]
  BY DEF KeyLess
<1>2. PICK j \in DOMAIN c : /\ \A n \in 1 .. j - 1 : n \in DOMAIN b /\ b[n] = c[n]
                            /\ j \in DOMAIN b => b[j] < c[j]
  BY DEF KeyLess
<1>3. i \in Nat \ {0} /\ j \in Nat \ {0} /\ i <= Len(b) /\ j <= Len(c)
  BY <1>0
<1>4. CASE i < j
  <2>1. i \in 1 .. j - 1 /\ i \in DOMAIN c /\ \A n \in 1 .. i - 1 : n \in 1 .. j - 1
    BY <1>0, <1>3, <1>4
  <2>2. b[i] = c[i]
    BY <1>2, <2>1
  <2>3. \A n \in 1 .. i - 1 : n \in DOMAIN a /\ a[n] = c[n]
    BY <1>1, <1>2, <2>1
  <2>4. QED
    BY <1>1, <2>1, <2>2, <2>3 DEF KeyLess
<1>5. CASE i = j
  <2>1. \A n \in 1 .. i - 1 : n \in DOMAIN a /\ a[n] = c[n]
    BY <1>1, <1>2, <1>5
  <2>2. i \in DOMAIN a => a[i] < c[i]
    <3>1. SUFFICES ASSUME i \in DOMAIN a PROVE a[i] < c[i]
      OBVIOUS
    <3>2. a[i] \in Int /\ b[i] \in Int /\ c[i] \in Int
      BY <1>a, <1>5, <3>1
    <3>3. a[i] < b[i] /\ b[i] < c[i]
      BY <1>1, <1>2, <1>5, <3>1
    <3>4. QED
      BY <3>2, <3>3
  <2>3. QED
    BY <1>5, <2>1, <2>2 DEF KeyLess
<1>6. CASE j < i
  <2>1. j \in 1 .. i - 1 /\ j \in DOMAIN b /\ \A n \in 1 .. j - 1 : n \in 1 .. i - 1
    BY <1>0, <1>3, <1>6
  <2>2. j \in DOMAIN a /\ a[j] = b[j]
    BY <1>1, <2>1
  <2>3. \A n \in 1 .. j - 1 : n \in DOMAIN a /\ a[n] = c[n]
    BY <1>1, <1>2, <2>1
  <2>4. QED
    BY <1>2, <2>1, <2>2, <2>3 DEF KeyLess
<1>7. QED
  BY <1>3, <1>4, <1>5, <1>6

LEMMA KeyTotal ==
    ASSUME NEW a \in Seq(Int), NEW b \in Seq(Int), a # b
    PROVE  KeyLess(a, b) \/ KeyLess(b, a)
<1> DEFINE Same(i) == i \in DOMAIN a /\ i \in DOMAIN b /\ a[i] = b[i]
           S == {i \in Nat \ {0} : ~Same(i)}
<1>0. /\ DOMAIN a = 1 .. Len(a) /\ DOMAIN b = 1 .. Len(b) /\ Len(a) \in Nat /\ Len(b) \in Nat
      /\ \A i \in DOMAIN a : a[i] \in Int
      /\ \A i \in DOMAIN b : b[i] \in Int
  BY ElementOfSeq
<1>1. Len(a) + 1 \in S
  BY <1>0
<1>2. PICK m \in S : \A n \in S : m <= n
  <2>1. S \in SUBSET Nat /\ S # {}
    BY <1>1
  <2> HIDE DEF S
  <2>2. QED
    BY <2>1, Least
<1>3. \A n \in 1 .. m - 1 : Same(n)
  <2>1. SUFFICES ASSUME NEW n \in 1 .. m - 1, n \in S PROVE FALSE
    OBVIOUS
  <2>2. m <= n /\ m \in Nat
    BY <1>2, <2>1
  <2>3. QED
    BY <2>1, <2>2
<1>4. m \in Nat \ {0} /\ ~Same(m)
  BY <1>2
<1> HIDE DEF S
<1>5. CASE m \in DOMAIN a /\ m \in DOMAIN b
  <2>1. a[m] \in Int /\ b[m] \in Int /\ a[m] # b[m]
    BY <1>0, <1>4, <1>5
  <2>2. a[m] < b[m] \/ b[m] < a[m]
    BY <2>1
  <2>3. QED
    BY <1>3, <1>5, <2>2 DEF KeyLess
<1>6. CASE m \in DOMAIN a /\ m \notin DOMAIN b
  BY <1>3, <1>6 DEF KeyLess
<1>7. CASE m \notin DOMAIN a /\ m \in DOMAIN b
  BY <1>3, <1>7 DEF KeyLess
<1>8. CASE m \notin DOMAIN a /\ m \notin DOMAIN b
  <2>1. Len(a) = Len(b)
    <3>1. PICK p, q : p = Len(a) /\ q = Len(b)
      OBVIOUS
    <3>2. p \in Nat /\ q \in Nat /\ p < m /\ q < m /\ DOMAIN a = 1 .. p /\ DOMAIN b = 1 .. q
      BY <1>0, <1>4, <1>8, <3>1
    <3>3. ~(p < q)
      <4>1. SUFFICES ASSUME p < q PROVE FALSE
        OBVIOUS
      <4>2. q \in 1 .. m - 1 /\ q \notin DOMAIN a
        BY <1>4, <3>2, <4>1
      <4>3. QED
        BY <1>3, <4>2
    <3>4. ~(q < p)
      <4>1. SUFFICES ASSUME q < p PROVE FALSE
        OBVIOUS
      <4>2. p \in 1 .. m - 1 /\ p \notin DOMAIN b
        BY <1>4, <3>2, <4>1
      <4>3. QED
        BY <1>3, <4>2
    <3>5. p = q
      BY <3>2, <3>3, <3>4
    <3>6. QED
      BY <3>1, <3>5, Zenon
  <2>2. \A i \in DOMAIN a : a[i] = b[i]
    <3>1. \A i \in DOMAIN a : i \in 1 .. m - 1
      BY <1>0, <1>4, <1>8
    <3>2. QED
      BY <1>3, <3>1
  <2>3. a = b
    BY <1>0, <2>1, <2>2, SeqEqual
  <2>4. QED
    BY <2>3
<1>9. QED
  BY <1>5, <1>6, <1>7, <1>8

(* A smaller key has fewer before it.                                      *)
Smaller(keys, k) == {j \in keys : KeyLess(j, k)}

LEMMA PlaceOf ==
    ASSUME NEW keys \in SUBSET Seq(Int), IsFiniteSet(keys), NEW k \in keys
    PROVE  /\ Cardinality(Smaller(keys, k)) \in Nat /\ Cardinality(keys) \in Nat
           /\ 1 + Cardinality(Smaller(keys, k)) \in 1 .. Cardinality(keys)
           /\ \A j \in keys : KeyLess(j, k) =>
                 1 + Cardinality(Smaller(keys, j)) < 1 + Cardinality(Smaller(keys, k))
<1>1. \A j \in keys : Smaller(keys, j) \in SUBSET keys /\ j \notin Smaller(keys, j)
  BY KeyIrreflexive DEF Smaller
<1>2. \A j \in keys : IsFiniteSet(Smaller(keys, j)) /\ Cardinality(Smaller(keys, j)) \in Nat
  BY <1>1, FS_Subset, FS_CardinalityType
<1>3. \A j \in keys : Cardinality(Smaller(keys, j) \cup {j}) = Cardinality(Smaller(keys, j)) + 1
  BY <1>1, <1>2, FS_AddElement
<1>4. Cardinality(keys) \in Nat
  BY FS_CardinalityType
<1>5. Cardinality(Smaller(keys, k)) + 1 <= Cardinality(keys)
  <2>1. Smaller(keys, k) \cup {k} \in SUBSET keys
    BY <1>1
  <2>2. Cardinality(Smaller(keys, k) \cup {k}) <= Cardinality(keys)
    BY <2>1, FS_Subset
  <2>3. QED
    BY <1>3, <2>2
<1>6. ASSUME NEW j \in keys, KeyLess(j, k)
      PROVE  Cardinality(Smaller(keys, j)) + 1 <= Cardinality(Smaller(keys, k))
  <2>1. Smaller(keys, j) \cup {j} \in SUBSET Smaller(keys, k)
    <3>1. ASSUME NEW i \in keys, KeyLess(i, j) PROVE KeyLess(i, k)
      <4>1. i \in Seq(Int) /\ j \in Seq(Int) /\ k \in Seq(Int)
        OBVIOUS
      <4>2. QED
        BY <1>6, <3>1, <4>1, KeyTransitive
    <3>2. QED
      BY <1>6, <3>1 DEF Smaller
  <2>2. Cardinality(Smaller(keys, j) \cup {j}) <= Cardinality(Smaller(keys, k))
    BY <1>2, <2>1, FS_Subset
  <2>3. QED
    BY <1>3, <2>2
<1>7. QED
  BY <1>2, <1>4, <1>5, <1>6

(* However many resources there are, each has one index, from 1 on, no two *)
(* share an index, and the indices are in the order of the keys            *)
(* (ResourceSet and index_resources of lib/qbc.cpp).                       *)
THEOREM Indices ==
    ASSUME NEW keys \in SUBSET Seq(Int), IsFiniteSet(keys)
    PROVE  /\ Len(Ascending(keys)) = Cardinality(keys) /\ Range(Ascending(keys)) = keys
           /\ IsInjective(Ascending(keys))
           /\ \A i, j \in DOMAIN Ascending(keys) : i < j => KeyLess(Ascending(keys)[i], Ascending(keys)[j])
<1> DEFINE N == Cardinality(keys)
           place == [k \in keys |-> 1 + Cardinality({j \in keys : KeyLess(j, k)})]
<1>1. N \in Nat /\ IsFiniteSet(1 .. N) /\ Cardinality(1 .. N) = N
  BY FS_CardinalityType, FS_Interval
<1>2. place \in [keys -> 1 .. N]
  BY PlaceOf DEF Smaller
<1>3. ASSUME NEW j \in keys, NEW k \in keys, KeyLess(j, k) PROVE place[j] < place[k]
  BY <1>3, PlaceOf DEF Smaller
<1>4. Ascending(keys) = [i \in 1 .. N |-> CHOOSE k \in keys : place[k] = i]
  BY Zenon DEF Ascending
<1> HIDE DEF place, N
<1>5. ASSUME NEW j \in keys, NEW k \in keys, place[j] = place[k] PROVE j = k
  <2>1. j \in Seq(Int) /\ k \in Seq(Int) /\ place[j] \in Nat
    BY <1>2
  <2>2. ~KeyLess(j, k) /\ ~KeyLess(k, j)
    BY <1>3, <1>5, <2>1
  <2>3. QED
    BY <2>1, <2>2, KeyTotal
<1>6. \A i \in 1 .. N : \E k \in keys : place[k] = i
  <2>1. place \in Injection(keys, 1 .. N)
    BY <1>2, <1>5 DEF Injection, IsInjective
  <2>2. place \in Surjection(keys, 1 .. N)
    BY <1>1, <2>1, FS_Injection DEF N
  <2>3. QED
    BY <2>2 DEF Surjection
<1>7. PICK order : order = Ascending(keys)
  OBVIOUS
<1>8. order = [i \in 1 .. N |-> order[i]] /\ \A i \in 1 .. N : order[i] \in keys /\ place[order[i]] = i
  BY <1>4, <1>6, <1>7
<1>9. Len(order) = N /\ DOMAIN order = 1 .. N
  BY <1>1, <1>8, SequenceLength
<1>10. Range(order) = keys
  <2>1. ASSUME NEW k \in keys PROVE k \in Range(order)
    <3>1. place[k] \in 1 .. N
      BY <1>2
    <3>2. order[place[k]] = k
      BY <1>5, <1>8, <3>1
    <3>3. QED
      BY <1>9, <3>1, <3>2 DEF Range
  <2>2. QED
    BY <1>8, <1>9, <2>1 DEF Range
<1>11. IsInjective(order)
  BY <1>8, <1>9 DEF IsInjective
<1>12. ASSUME NEW i \in 1 .. N, NEW j \in 1 .. N, i < j PROVE KeyLess(order[i], order[j])
  <2>1. PICK a \in keys, b \in keys : a = order[i] /\ b = order[j] /\ place[a] = i /\ place[b] = j
    BY <1>8
  <2>2. a # b /\ ~(j < i)
    BY <1>12, <2>1
  <2>3. ~KeyLess(b, a)
    BY <1>3, <2>1, <2>2
  <2>4. KeyLess(a, b)
    BY <2>2, <2>3, KeyTotal
  <2>5. QED
    BY <2>1, <2>4
<1>13. QED
  BY <1>7, <1>9, <1>10, <1>11, <1>12, Zenon DEF N
=============================================================================
