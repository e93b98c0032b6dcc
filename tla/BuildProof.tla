----------------------------- MODULE BuildProof -----------------------------
(***************************************************************************)
(* Proofs about Build for every set of modules, whatever they import, any  *)
(* number of runs and any depth of the machine's stack.                    *)
(***************************************************************************)
EXTENDS Build, SequenceTheorems, TLAPS

-----------------------------------------------------------------------------
(***************************************************************************)
(* The inductive invariant.                                                *)
(***************************************************************************)
(* TypeOK, in parts.                                                       *)
Entry == [module : Name, todo : SUBSET Name,
          phase : {"open", "collect", "import", "reload", "generate", "write"}]
Types ==
    /\ source \in [Name -> Text] /\ \A m \in Name : source[m] \in Source[m]
    /\ file \subseteq Name /\ needs \in [Name -> SUBSET Name]
    /\ modmap \subseteq file /\ written \in [Name -> Nat] /\ died \in BOOLEAN
Bounds == Len(stack) <= MaxDepth + 1 /\ runs \in 0 .. MaxRuns
Shape == stack \in Seq(Entry)

(* What compile_module() is busy with on behalf of another module has no   *)
(* object file, until it is at the end.                                    *)
Pending == \A k \in 2 .. Len(stack) : stack[k].module \notin file

(* Each activation is compiled for an import of the one below it.          *)
Waiting ==
    \A k \in 1 .. Len(stack) - 1 :
        stack[k].phase = "reload" /\ stack[k + 1].module \in source[stack[k].module].imports

(* What an activation no longer has to do is done.                         *)
Done ==
    \A k \in 1 .. Len(stack) :
        /\ stack[k].phase \in {"import", "reload", "generate", "write"} =>
               source[stack[k].module].imports \subseteq file \cup stack[k].todo
        /\ stack[k].todo \subseteq source[stack[k].module].imports
        /\ stack[k].phase \in {"generate", "write"} => stack[k].todo = {}

(* The module the run was started for is written last.                     *)
First == Running => written[stack[1].module] = 0

WrittenHasFile == \A m \in Name : written[m] > 0 => m \in file

Inv ==
    /\ Types /\ Bounds /\ Shape
    /\ ImportsFirst /\ WrittenOnce /\ WrittenHasFile
    /\ Pending /\ Waiting /\ Done /\ First

(* Truncated files are files qbc was stopped at.                           *)
Truncated == cut \subseteq stopped /\ stopped \subseteq file

LEMMA InvTypes == Inv /\ Truncated => TypeOK
BY DEF Inv, Types, Bounds, Shape, Entry, TypeOK, Truncated

-----------------------------------------------------------------------------
(***************************************************************************)
(* The stack.                                                              *)
(***************************************************************************)
(* The running activation is the last one.                                 *)
LEMMA RunningTop ==
    ASSUME Shape, Running
    PROVE  Len(stack) \in Nat /\ Len(stack) >= 1 /\ Top \in Entry /\ Top = stack[Len(stack)]
BY DEF Shape, Running, Top

(* Replace() changes the running activation only.                          *)
LEMMA ReplaceStack ==
    ASSUME Shape, Running, NEW t \in Entry
    PROVE  /\ Replace(t) \in Seq(Entry) /\ Len(Replace(t)) = Len(stack)
           /\ \A k \in 1 .. Len(stack) :
                 Replace(t)[k] = IF k = Len(stack) THEN t ELSE stack[k]
BY RunningTop, ExceptSeq DEF Shape, Replace

(* Return drops the running activation only.                               *)
LEMMA ReturnStack ==
    ASSUME Shape, Running
    PROVE  /\ Return \in Seq(Entry) /\ Len(Return) = Len(stack) - 1
           /\ \A k \in 1 .. Len(stack) - 1 : Return[k] = stack[k]
<1>1. Len(stack) \in Nat /\ Len(stack) >= 1
  BY RunningTop
<1>2. \A k \in 1 .. Len(stack) - 1 : stack[k] \in Entry
  BY <1>1 DEF Shape
<1>3. /\ Return \in Seq(Entry)
      /\ Len(Return) = IF 1 <= Len(stack) - 1 THEN Len(stack) - 1 - 1 + 1 ELSE 0
      /\ \A k \in 1 .. Len(stack) - 1 - 1 + 1 : Return[k] = stack[1 + k - 1]
  BY <1>1, <1>2, SubSeqProperties DEF Return
<1>4. \A k \in 1 .. Len(stack) - 1 : k \in 1 .. Len(stack) - 1 - 1 + 1 /\ 1 + k - 1 = k
  BY <1>1
<1>5. \A k \in 1 .. Len(stack) - 1 : Return[k] = stack[k]
  BY <1>3, <1>4
<1>6. Len(Return) = Len(stack) - 1
  <2>1. Len(stack) = 1 \/ 1 <= Len(stack) - 1
    <3>1. \A n \in Nat : n >= 1 => n = 1 \/ 1 <= n - 1
      OBVIOUS
    <3>2. QED
      BY <3>1, <1>1
  <2>2. CASE Len(stack) = 1
    BY <2>2, <1>3
  <2>3. CASE 1 <= Len(stack) - 1
    BY <2>3, <1>1, <1>3
  <2>4. QED
    BY <2>1, <2>2, <2>3
<1>7. QED
  BY <1>3, <1>5, <1>6

(* An activation that goes on without calling itself, when no file and no  *)
(* source changes, keeps the invariant if it keeps its own part of it.     *)
LEMMA Advance ==
    ASSUME Inv, Running, NEW t \in Entry,
           t.module = Top.module, Top.phase # "reload" \/ t.phase # "reload",
           t.phase \in {"import", "reload", "generate", "write"} =>
               source[t.module].imports \subseteq file \cup t.todo,
           t.todo \subseteq source[t.module].imports,
           t.phase \in {"generate", "write"} => t.todo = {},
           stack' = Replace(t), modmap' \subseteq file, died' \in BOOLEAN,
           UNCHANGED <<source, file, needs, written, runs>>
    PROVE  Inv'
<1> USE DEF Inv
<1>1. Len(stack) \in Nat /\ Len(stack) >= 1 /\ Top = stack[Len(stack)]
  BY RunningTop
<1>2. /\ stack' \in Seq(Entry) /\ Len(stack') = Len(stack)
      /\ \A k \in 1 .. Len(stack) : stack'[k] = IF k = Len(stack) THEN t ELSE stack[k]
  BY ReplaceStack
<1>3. \A k \in 1 .. Len(stack) : stack'[k].module = stack[k].module
  BY <1>1, <1>2
<1>4. Shape' /\ Bounds' /\ Types'
  BY <1>2 DEF Shape, Bounds, Types
<1>5. ImportsFirst' /\ WrittenOnce' /\ WrittenHasFile'
  BY DEF ImportsFirst, WrittenOnce, WrittenHasFile
<1>6. Pending'
  BY <1>1, <1>2, <1>3 DEF Pending
<1>7. Waiting'
  <2>1. SUFFICES ASSUME NEW k \in 1 .. Len(stack) - 1
                 PROVE  /\ stack'[k].phase = "reload"
                        /\ stack'[k + 1].module \in source[stack'[k].module].imports
    BY <1>2 DEF Waiting
  <2>2. k \in 1 .. Len(stack) /\ k + 1 \in 1 .. Len(stack) /\ k # Len(stack)
    BY <1>1
  <2>3. QED
    BY <2>2, <1>2, <1>3 DEF Waiting
<1>8. Done'
  BY <1>1, <1>2 DEF Done
<1>9. First'
  BY <1>1, <1>2, <1>3 DEF First, Running
<1>10. QED
  BY <1>4, <1>5, <1>6, <1>7, <1>8, <1>9

(* Nothing is left of a run that has ended.                                *)
LEMMA Ended ==
    ASSUME Inv, stack' = <<>>, Types', ImportsFirst', WrittenOnce', WrittenHasFile',
           UNCHANGED runs
    PROVE  Inv'
<1>1. Len(stack') = 0 /\ stack' \in Seq(Entry)
  BY EmptySeq
<1>2. Bounds' /\ Shape'
  BY <1>1, BoundsAssumption DEF Inv, Bounds, Shape
<1>3. Pending' /\ Waiting' /\ Done' /\ First'
  BY <1>1 DEF Pending, Waiting, Done, First, Running
<1>4. QED
  BY <1>2, <1>3 DEF Inv

(* An activation that returns without having written anything.             *)
LEMMA Returned ==
    ASSUME Inv, Running, stack' = Return,
           UNCHANGED <<source, file, needs, modmap, written, died, runs>>
    PROVE  Inv'
<1> USE DEF Inv
<1>1. Len(stack) \in Nat /\ Len(stack) >= 1
  BY RunningTop
<1>2. /\ stack' \in Seq(Entry) /\ Len(stack') = Len(stack) - 1
      /\ \A k \in 1 .. Len(stack) - 1 : stack'[k] = stack[k]
  BY ReturnStack
<1>3. Types' /\ Bounds' /\ Shape'
  BY <1>1, <1>2, BoundsAssumption DEF Types, Bounds, Shape
<1>4. ImportsFirst' /\ WrittenOnce' /\ WrittenHasFile'
  BY DEF ImportsFirst, WrittenOnce, WrittenHasFile
<1>5. Pending'
  BY <1>1, <1>2 DEF Pending
<1>6. Waiting'
  <2>1. SUFFICES ASSUME NEW k \in 1 .. Len(stack) - 2
                 PROVE  /\ stack'[k].phase = "reload"
                        /\ stack'[k + 1].module \in source[stack'[k].module].imports
    BY <1>1, <1>2 DEF Waiting
  <2>2. k \in 1 .. Len(stack) - 1 /\ k + 1 \in 1 .. Len(stack) - 1
    BY <1>1
  <2>3. QED
    BY <2>2, <1>2 DEF Waiting
<1>7. Done'
  BY <1>1, <1>2 DEF Done
<1>8. First'
  <2>1. Len(stack) = 1 \/ Len(stack) > 1
    BY <1>1
  <2>2. CASE Len(stack) = 1
    BY <2>2, <1>2, EmptySeq DEF First, Running
  <2>3. CASE Len(stack) > 1
    BY <2>3, <1>1, <1>2 DEF First, Running
  <2>4. QED
    BY <2>1, <2>2, <2>3
<1>9. QED
  BY <1>3, <1>4, <1>5, <1>6, <1>7, <1>8

-----------------------------------------------------------------------------
(***************************************************************************)
(* One lemma for each action.                                              *)
(***************************************************************************)
(* The running activation is typed, and its own part of the invariant.     *)
LEMMA TopFacts ==
    ASSUME Inv, Running
    PROVE  /\ Top \in Entry /\ Top.module \in Name /\ source[Top.module] \in Text
           /\ Top.phase \in {"import", "reload", "generate", "write"} =>
                  source[Top.module].imports \subseteq file \cup Top.todo
           /\ Top.todo \subseteq source[Top.module].imports
           /\ Top.phase \in {"generate", "write"} => Top.todo = {}
<1>1. Top \in Entry /\ Top = stack[Len(stack)] /\ Len(stack) \in 1 .. Len(stack)
  BY RunningTop DEF Inv
<1>2. Top.module \in Name /\ source[Top.module] \in Text
  BY <1>1 DEF Inv, Entry, Types
<1>3. QED
  BY <1>1, <1>2 DEF Inv, Done

LEMMA InitInv == Init => Inv
<1>1. SUFFICES ASSUME Init PROVE Inv
  OBVIOUS
<1>2. source \in [Name -> Text]
  BY <1>1, SourceAssumption DEF Init
<1>3. Len(stack) = 0 /\ stack \in Seq(Entry)
  BY <1>1, EmptySeq DEF Init
<1>4. Types /\ Bounds /\ Shape
  <2>1. Types
    BY <1>1, <1>2 DEF Init, Types
  <2>2. Bounds
    BY <1>1, <1>3, BoundsAssumption DEF Init, Bounds
  <2>3. QED
    BY <2>1, <2>2, <1>3 DEF Shape
<1>5. ImportsFirst /\ WrittenOnce /\ WrittenHasFile
  BY <1>1 DEF Init, ImportsFirst, WrittenOnce, WrittenHasFile
<1>6. Pending /\ Waiting /\ Done /\ First
  BY <1>1, <1>3 DEF Init, Pending, Waiting, Done, First, Running
<1>7. QED
  BY <1>4, <1>5, <1>6 DEF Inv

LEMMA QbcInv == ASSUME Inv, NEW m \in Name, qbc(m) PROVE Inv'
<1> USE DEF Inv
<1>1. /\ Activation(m) \in Entry /\ Activation(m).module = m
      /\ Activation(m).phase = "open" /\ Activation(m).todo = {}
  BY DEF Activation, Entry
<1>2. stack' \in Seq(Entry) /\ Len(stack') = 1 /\ stack'[1] = Activation(m)
  BY <1>1 DEF qbc
<1>3. Types' /\ Bounds' /\ Shape'
  <2>1. Types'
    BY DEF qbc, Types
  <2>2. Bounds'
    BY <1>2, BoundsAssumption DEF qbc, Bounds
  <2>3. QED
    BY <2>1, <2>2, <1>2 DEF Shape
<1>4. ImportsFirst' /\ WrittenOnce' /\ WrittenHasFile'
  BY DEF qbc, ImportsFirst, WrittenOnce, WrittenHasFile
<1>5. Pending' /\ Waiting'
  BY <1>2 DEF Pending, Waiting
<1>6. Done'
  BY <1>1, <1>2 DEF Done
<1>7. First'
  BY <1>1, <1>2 DEF First, qbc
<1>8. QED
  BY <1>3, <1>4, <1>5, <1>6, <1>7

LEMMA OpenInv == ASSUME Inv, open_source PROVE Inv'
<1>1. Running /\ Top.phase = "open"
  BY DEF open_source, At
<1>2. CASE ~source[Top.module].present
  BY <1>1, <1>2, Returned DEF open_source
<1>3. CASE source[Top.module].present
  <2> DEFINE t == [Top EXCEPT !.phase = "collect"]
  <2>1. t \in Entry /\ t.module = Top.module /\ t.phase = "collect" /\ t.todo = Top.todo
    BY <1>1, TopFacts DEF Entry
  <2>2. stack' = Replace(t)
    BY <1>3 DEF open_source
  <2>3. modmap' \subseteq file /\ died' \in BOOLEAN
    BY DEF open_source, Inv, Types
  <2>4. QED
    BY <1>1, <2>1, <2>2, <2>3, TopFacts, Advance DEF open_source
<1>4. QED
  BY <1>2, <1>3

LEMMA CollectInv == ASSUME Inv, collect_and_index PROVE Inv'
<1>1. Running /\ Top.phase = "collect"
  BY DEF collect_and_index, At
<1> DEFINE t == [Top EXCEPT !.phase = "import", !.todo = source[Top.module].imports]
<1>2. source[Top.module].imports \in SUBSET Name
  BY <1>1, TopFacts DEF Text
<1>3. /\ t \in Entry /\ t.module = Top.module /\ t.phase = "import"
      /\ t.todo = source[Top.module].imports
  BY <1>1, <1>2, TopFacts DEF Entry
<1>4. stack' = Replace(t)
  BY DEF collect_and_index
<1>5. modmap' \subseteq file /\ died' \in BOOLEAN
  BY DEF collect_and_index, Inv, Types
<1>6. QED
  BY <1>1, <1>3, <1>4, <1>5, Advance DEF collect_and_index

(* Compiling an import: an activation more, for a module without a file.   *)
LEMMA CallInv ==
    ASSUME Inv, NEW m \in Name, At("import"), m \in Top.todo, m \notin file,
           stack' = Append(Replace([Top EXCEPT !.phase = "reload"]), Activation(m)),
           Len(stack) <= MaxDepth,
           UNCHANGED <<source, file, needs, modmap, written, died, runs>>
    PROVE  Inv'
<1> USE DEF Inv
<1> DEFINE t == [Top EXCEPT !.phase = "reload"]
           r == Replace(t)
           n == Len(stack)
<1>1. Running /\ Top.phase = "import"
  BY DEF At
<1>2. n \in Nat /\ n >= 1 /\ Top = stack[n] /\ n \in 1 .. n
  BY <1>1, RunningTop
<1>3. t \in Entry /\ t.module = Top.module /\ t.phase = "reload" /\ t.todo = Top.todo
  BY <1>1, TopFacts DEF Entry
<1>4. /\ Activation(m) \in Entry /\ Activation(m).module = m
      /\ Activation(m).phase = "open" /\ Activation(m).todo = {}
  BY DEF Activation, Entry
<1>5. /\ r \in Seq(Entry) /\ Len(r) = n
      /\ \A k \in 1 .. n : r[k] = IF k = n THEN t ELSE stack[k]
  BY <1>1, <1>3, ReplaceStack
<1>6. /\ stack' \in Seq(Entry) /\ Len(stack') = n + 1 /\ stack'[n + 1] = Activation(m)
      /\ \A k \in 1 .. n : stack'[k] = r[k]
  <2>1. stack' = Append(r, Activation(m))
    OBVIOUS
  <2>2. r \in Seq(Entry) /\ Activation(m) \in Entry /\ Len(r) = n
    BY <1>4, <1>5
  <2> HIDE DEF r, n
  <2>3. /\ Append(r, Activation(m)) \in Seq(Entry)
        /\ Len(Append(r, Activation(m))) = Len(r) + 1
        /\ \A k \in 1 .. Len(r) : Append(r, Activation(m))[k] = r[k]
        /\ Append(r, Activation(m))[Len(r) + 1] = Activation(m)
    BY <2>2, AppendProperties
  <2>4. QED
    BY <2>1, <2>2, <2>3
<1>7. \A k \in 1 .. n : stack'[k] = IF k = n THEN t ELSE stack[k]
  BY <1>5, <1>6
<1>8. \A k \in 1 .. n : stack'[k].module = stack[k].module /\ stack'[k].todo = stack[k].todo
  BY <1>2, <1>3, <1>7
<1> HIDE DEF t, r, n
<1>9. Types' /\ Bounds' /\ Shape'
  BY <1>2, <1>6, BoundsAssumption DEF Types, Bounds, Shape, n
<1>10. ImportsFirst' /\ WrittenOnce' /\ WrittenHasFile'
  BY DEF ImportsFirst, WrittenOnce, WrittenHasFile
<1>11. \A k \in 1 .. n + 1 : k \in 1 .. n \/ k = n + 1
  BY <1>2
<1>12. Pending'
  <2>1. SUFFICES ASSUME NEW k \in 2 .. n + 1 PROVE stack'[k].module \notin file
    BY <1>6 DEF Pending
  <2>2. k \in 2 .. n \/ k = n + 1
    BY <1>2
  <2>3. CASE k \in 2 .. n
    <3>1. k \in 1 .. n
      BY <2>3, <1>2
    <3>2. QED
      BY <3>1, <2>3, <1>8 DEF Pending, n
  <2>4. CASE k = n + 1
    BY <2>4, <1>4, <1>6
  <2>5. QED
    BY <2>2, <2>3, <2>4
<1>13. Waiting'
  <2>1. SUFFICES ASSUME NEW k \in 1 .. n
                 PROVE  /\ stack'[k].phase = "reload"
                        /\ stack'[k + 1].module \in source[stack'[k].module].imports
    <3>1. Len(stack') - 1 = n
      <4>1. \A x \in Nat : x + 1 - 1 = x
        OBVIOUS
      <4>2. Len(stack') = n + 1
        BY <1>6
      <4>3. QED
        BY <4>1, <4>2, <1>2
    <3>2. QED
      BY <2>1, <3>1 DEF Waiting
  <2>2. k \in 1 .. n - 1 \/ k = n
    BY <1>2
  <2>3. CASE k \in 1 .. n - 1
    <3>1. k + 1 \in 1 .. n /\ k # n
      BY <2>3, <1>2
    <3>2. stack'[k] = stack[k] /\ stack'[k + 1].module = stack[k + 1].module
      BY <3>1, <1>7, <1>8
    <3>3. QED
      BY <3>2, <2>3 DEF Waiting, n
  <2>4. CASE k = n
    BY <2>4, <1>1, <1>2, <1>3, <1>4, <1>6, <1>7, TopFacts
  <2>5. QED
    BY <2>2, <2>3, <2>4
<1>14. Done'
  <2>1. SUFFICES ASSUME NEW k \in 1 .. n + 1
                 PROVE  /\ stack'[k].phase \in {"import", "reload", "generate", "write"} =>
                              source[stack'[k].module].imports \subseteq file \cup stack'[k].todo
                        /\ stack'[k].todo \subseteq source[stack'[k].module].imports
                        /\ stack'[k].phase \in {"generate", "write"} => stack'[k].todo = {}
    BY <1>6 DEF Done
  <2>2. CASE k = n + 1
    BY <2>2, <1>4, <1>6
  <2>3. CASE k = n
    BY <2>3, <1>1, <1>2, <1>3, <1>7, TopFacts
  <2>4. CASE k \in 1 .. n /\ k # n
    BY <2>4, <1>7 DEF Done, n
  <2>5. QED
    BY <2>2, <2>3, <2>4, <1>11
<1>15. First'
  BY <1>1, <1>2, <1>8 DEF First, n
<1>16. QED
  BY <1>9, <1>10, <1>12, <1>13, <1>14, <1>15

(* A run that ends with an error changes nothing but the stack.            *)
LEMMA DieInv ==
    ASSUME Inv, DIE, UNCHANGED <<source, file, needs, modmap, written, runs>>
    PROVE  Inv'
<1>1. Types' /\ ImportsFirst' /\ WrittenOnce' /\ WrittenHasFile' /\ stack' = <<>>
  BY DEF Inv, DIE, Types, ImportsFirst, WrittenOnce, WrittenHasFile
<1>2. QED
  BY <1>1, Ended

LEMMA LoadInv ==
    ASSUME Inv, NEW m \in Name, load_imported_modules(m), Len(stack) <= MaxDepth PROVE Inv'
<1>1. Running /\ Top.phase = "import" /\ m \in Top.todo
  BY DEF load_imported_modules, At
<1>2. CASE (m \in modmap \/ m \in file) /\ stack' = Replace([Top EXCEPT !.todo = @ \ {m}]) /\ UNCHANGED died
  <2> DEFINE t == [Top EXCEPT !.todo = @ \ {m}]
  <2>1. m \in file
    BY <1>2 DEF Inv, Types
  <2>2. t \in Entry /\ t.module = Top.module /\ t.phase = "import" /\ t.todo = Top.todo \ {m}
    BY <1>1, TopFacts DEF Entry
  <2>3. source[t.module].imports \subseteq file \cup t.todo
    BY <2>1, <2>2, <1>1, TopFacts
  <2>4. t.todo \subseteq source[t.module].imports
    BY <2>2, <1>1, TopFacts
  <2>5. stack' = Replace(t)
    BY <1>2
  <2>6. modmap' \subseteq file /\ died' \in BOOLEAN
    BY <1>2 DEF load_imported_modules, Inv, Types
  <2>7. QED
    BY <1>1, <2>2, <2>3, <2>4, <2>5, <2>6, <1>2, Advance DEF load_imported_modules
<1>3. CASE DIE
  BY <1>3, DieInv DEF load_imported_modules
<1>4. CASE /\ m \notin modmap /\ m \notin file /\ UNCHANGED died
           /\ stack' = Append(Replace([Top EXCEPT !.phase = "reload"]), Activation(m))
  BY <1>1, <1>4, CallInv DEF load_imported_modules
<1>5. QED
  BY <1>2, <1>3, <1>4 DEF load_imported_modules

LEMMA ReloadInv == ASSUME Inv, NEW m \in Name, reload(m) PROVE Inv'
<1>1. Running /\ Top.phase = "reload" /\ m \in Top.todo
  BY DEF reload, At
<1>2. CASE m \in file
  <2> DEFINE t == [Top EXCEPT !.phase = "import", !.todo = @ \ {m}]
  <2>1. t \in Entry /\ t.module = Top.module /\ t.phase = "import" /\ t.todo = Top.todo \ {m}
    BY <1>1, TopFacts DEF Entry
  <2>2. source[t.module].imports \subseteq file \cup t.todo
    BY <1>2, <2>1, <1>1, TopFacts
  <2>3. t.todo \subseteq source[t.module].imports
    BY <2>1, <1>1, TopFacts
  <2>4. stack' = Replace(t)
    BY <1>2 DEF reload
  <2>5. modmap' \subseteq file /\ died' \in BOOLEAN
    BY <1>2 DEF reload, Inv, Types
  <2>6. QED
    BY <1>1, <2>1, <2>2, <2>3, <2>4, <2>5, Advance DEF reload
<1>3. CASE m \notin file
  BY <1>3, DieInv DEF reload
<1>4. QED
  BY <1>2, <1>3

LEMMA AllocateInv == ASSUME Inv, allocate PROVE Inv'
<1>1. Running /\ Top.phase = "import" /\ Top.todo = {}
  BY DEF allocate, At
<1>2. CASE source[Top.module].allocates
  <2> DEFINE t == [Top EXCEPT !.phase = "generate"]
  <2>1. t \in Entry /\ t.module = Top.module /\ t.phase = "generate" /\ t.todo = {}
    BY <1>1, TopFacts DEF Entry
  <2>2. source[t.module].imports \subseteq file \cup t.todo
    BY <2>1, <1>1, TopFacts
  <2>3. stack' = Replace(t)
    BY <1>2 DEF allocate
  <2>4. modmap' \subseteq file /\ died' \in BOOLEAN
    BY <1>2 DEF allocate, Inv, Types
  <2>5. QED
    BY <1>1, <2>1, <2>2, <2>3, <2>4, Advance DEF allocate
<1>3. CASE ~source[Top.module].allocates
  BY <1>3, DieInv DEF allocate
<1>4. QED
  BY <1>2, <1>3

LEMMA GenerateInv == ASSUME Inv, generate PROVE Inv'
<1>1. Running /\ Top.phase = "generate" /\ Top.todo = {}
  BY TopFacts DEF generate, At
<1>2. CASE source[Top.module].generates
  <2> DEFINE t == [Top EXCEPT !.phase = "write"]
  <2>1. t \in Entry /\ t.module = Top.module /\ t.phase = "write" /\ t.todo = {}
    BY <1>1, TopFacts DEF Entry
  <2>2. source[t.module].imports \subseteq file \cup t.todo
    BY <2>1, <1>1, TopFacts
  <2>3. stack' = Replace(t)
    BY <1>2 DEF generate
  <2>4. modmap' \subseteq file /\ died' \in BOOLEAN
    BY <1>2 DEF generate, Inv, Types
  <2>5. QED
    BY <1>1, <2>1, <2>2, <2>3, <2>4, Advance DEF generate
<1>3. CASE ~source[Top.module].generates
  BY <1>3, DieInv DEF generate
<1>4. QED
  BY <1>2, <1>3

(* All imports of a module about to be written have files, so none of the  *)
(* activations below it, which wait for an import without one, is for the  *)
(* same module.                                                            *)
LEMMA WriteAlone ==
    ASSUME Inv, At("write")
    PROVE  /\ source[Top.module].imports \subseteq file
           /\ \A k \in 1 .. Len(stack) - 1 : stack[k].module # Top.module
<1>1. Running /\ Top.phase = "write"
  BY DEF At
<1>2. source[Top.module].imports \subseteq file
  BY <1>1, TopFacts
<1>3. Len(stack) \in Nat
  BY <1>1, RunningTop DEF Inv
<1>4. ASSUME NEW k \in 1 .. Len(stack) - 1, stack[k].module = Top.module PROVE FALSE
  <2>1. stack[k + 1].module \in file
    BY <1>2, <1>4 DEF Inv, Waiting
  <2>2. k + 1 \in 2 .. Len(stack)
    BY <1>3
  <2>3. QED
    BY <2>1, <2>2 DEF Inv, Pending
<1>5. QED
  BY <1>2, <1>4

LEMMA StoreInv ==
    ASSUME Inv, At("write"), stack' = Return, UNCHANGED <<source, modmap, died, runs>>,
           file' = file \cup {Top.module},
           needs' = [needs EXCEPT ![Top.module] = source[Top.module].imports],
           written' = [written EXCEPT ![Top.module] = @ + 1]
    PROVE  Inv'
<1> DEFINE x == Top.module
           n == Len(stack)
<1>1. At("write") /\ Running /\ Top.phase = "write"
  BY DEF At
<1>2. n \in Nat /\ n >= 1 /\ Top = stack[n] /\ x \in Name
  BY <1>1, RunningTop, TopFacts DEF Inv
<1>3. source[x].imports \subseteq file /\ \A k \in 1 .. n - 1 : stack[k].module # x
  BY <1>1, WriteAlone
<1>4. written[x] = 0
  <2>1. n = 1 \/ n \in 2 .. n
    <3>1. \A i \in Nat : i >= 1 => i = 1 \/ i \in 2 .. i
      OBVIOUS
    <3>2. QED
      BY <3>1, <1>2
  <2>2. CASE n = 1
    BY <2>2, <1>1, <1>2 DEF Inv, First
  <2>3. CASE n \in 2 .. n
    <3>1. x \notin file
      BY <2>3, <1>2 DEF Inv, Pending
    <3>2. written[x] \in Nat
      BY <1>2 DEF Inv, Types
    <3>3. QED
      BY <3>1, <3>2, <1>2 DEF Inv, WrittenHasFile
  <2>4. QED
    BY <2>1, <2>2, <2>3
<1>5. /\ stack' \in Seq(Entry) /\ Len(stack') = n - 1
      /\ \A k \in 1 .. n - 1 : stack'[k] = stack[k]
  BY <1>1, ReturnStack DEF Inv
<1>6. /\ file' = file \cup {x} /\ UNCHANGED <<source, modmap, died, runs>>
      /\ needs' = [needs EXCEPT ![x] = source[x].imports]
      /\ written' = [written EXCEPT ![x] = @ + 1]
  OBVIOUS
<1> HIDE DEF x, n
<1>7. Types' /\ Bounds' /\ Shape'
  <2>1. Types'
    <3>1. needs' \in [Name -> SUBSET Name]
      BY <1>2, <1>3, <1>6 DEF Inv, Types
    <3>2. written' \in [Name -> Nat]
      BY <1>2, <1>4, <1>6 DEF Inv, Types
    <3>3. QED
      BY <3>1, <3>2, <1>2, <1>6 DEF Inv, Types
  <2>2. Bounds'
    BY <1>2, <1>5, <1>6, BoundsAssumption DEF Inv, Bounds, n
  <2>3. QED
    BY <2>1, <2>2, <1>5 DEF Shape
<1>8. ImportsFirst'
  <2>1. SUFFICES ASSUME NEW m \in file' PROVE needs'[m] \subseteq file'
    BY DEF ImportsFirst
  <2>2. CASE m = x
    BY <2>2, <1>2, <1>3, <1>6 DEF Inv, Types
  <2>3. CASE m # x
    BY <2>3, <1>6 DEF Inv, Types, ImportsFirst
  <2>4. QED
    BY <2>2, <2>3
<1>9. WrittenOnce' /\ WrittenHasFile'
  <2>1. SUFFICES ASSUME NEW m \in Name
                 PROVE  written'[m] <= 1 /\ (written'[m] > 0 => m \in file')
    BY DEF WrittenOnce, WrittenHasFile
  <2>2. CASE m = x
    BY <2>2, <1>2, <1>4, <1>6 DEF Inv, Types
  <2>3. CASE m # x
    BY <2>3, <1>6 DEF Inv, Types, WrittenOnce, WrittenHasFile
  <2>4. QED
    BY <2>2, <2>3
<1>10. \A k \in 1 .. n - 1 : k \in 1 .. n
  BY <1>2
<1>11. Pending'
  <2>1. SUFFICES ASSUME NEW k \in 2 .. n - 1 PROVE stack'[k].module \notin file'
    BY <1>5 DEF Pending
  <2>2. k \in 1 .. n - 1 /\ k \in 2 .. n
    BY <1>2
  <2>3. QED
    BY <2>2, <1>3, <1>5, <1>6 DEF Inv, Pending, n
<1>12. Waiting'
  <2>1. SUFFICES ASSUME NEW k \in 1 .. n - 2
                 PROVE  /\ stack'[k].phase = "reload"
                        /\ stack'[k + 1].module \in source[stack'[k].module].imports
    <3>1. Len(stack') - 1 = n - 2
      <4>1. Len(stack') = n - 1
        BY <1>5
      <4>2. QED
        BY <4>1, <1>2
    <3>2. QED
      BY <2>1, <3>1, <1>6 DEF Waiting
  <2>2. k \in 1 .. n - 1 /\ k + 1 \in 1 .. n - 1
    BY <1>2
  <2>3. QED
    BY <2>2, <1>5 DEF Inv, Waiting, n
<1>13. Done'
  <2>1. SUFFICES ASSUME NEW k \in 1 .. n - 1
                 PROVE  /\ stack[k].phase \in {"import", "reload", "generate", "write"} =>
                              source[stack[k].module].imports \subseteq file' \cup stack[k].todo
                        /\ stack[k].todo \subseteq source[stack[k].module].imports
                        /\ stack[k].phase \in {"generate", "write"} => stack[k].todo = {}
    BY <1>5, <1>6 DEF Done
  <2>2. QED
    BY <1>6, <1>10 DEF Inv, Done, n
<1>14. First'
  <2>1. SUFFICES ASSUME stack' # <<>> PROVE written'[stack'[1].module] = 0
    BY DEF First, Running
  <2>2. 1 \in 1 .. n - 1
    <3>1. Len(stack') \in Nat \ {0}
      BY <2>1, <1>5, EmptySeq
    <3>2. QED
      BY <3>1, <1>2, <1>5
  <2>3. stack'[1] = stack[1] /\ stack[1].module # x
    BY <2>2, <1>3, <1>5
  <2>4. stack[1].module \in Name
    <3>1. stack[1] \in Entry
      BY <2>2, <1>10, ElementOfSeq DEF Inv, Shape, n
    <3>2. QED
      BY <3>1 DEF Entry
  <2>5. QED
    BY <2>3, <2>4, <1>1, <1>6 DEF Inv, First, Types
<1>15. QED
  BY <1>7, <1>8, <1>9, <1>11, <1>12, <1>13, <1>14 DEF Inv

(* Also when qbc is killed, the file it leaves has all its imports.        *)
LEMMA WriteInv == ASSUME Inv, write_file PROVE Inv'
<1>1. /\ At("write") /\ Running /\ stack' = Return /\ UNCHANGED <<source, modmap, died, runs>>
  BY DEF write_file, At
<1>2. CASE UNCHANGED <<file, needs, written>>
  BY <1>1, <1>2, Returned
<1>3. CASE /\ file' = file \cup {Top.module}
           /\ needs' = [needs EXCEPT ![Top.module] = source[Top.module].imports]
           /\ written' = [written EXCEPT ![Top.module] = @ + 1]
  BY <1>1, <1>3, StoreInv
<1>4. QED
  BY <1>2, <1>3 DEF write_file

LEMMA KillInv == ASSUME Inv, kill PROVE Inv'
<1>1. Running /\ DIE
  BY DEF kill
<1>2. CASE UNCHANGED <<file, needs>>
  BY <1>1, <1>2, DieInv DEF kill
<1>3. CASE /\ Top.phase = "write"
           /\ file' = file \cup {Top.module}
           /\ needs' = [needs EXCEPT ![Top.module] = source[Top.module].imports]
  <2>1. source[Top.module].imports \subseteq file /\ Top.module \in Name
    BY <1>1, <1>3, WriteAlone, TopFacts DEF At
  <2>2. Types'
    BY <1>1, <1>3, <2>1 DEF kill, DIE, Inv, Types
  <2>3. ImportsFirst'
    <3>1. SUFFICES ASSUME NEW m \in file' PROVE needs'[m] \subseteq file'
      BY DEF ImportsFirst
    <3>2. CASE m = Top.module
      BY <3>2, <2>1, <1>3 DEF Inv, Types
    <3>3. CASE m # Top.module
      BY <3>3, <1>3 DEF Inv, Types, ImportsFirst
    <3>4. QED
      BY <3>2, <3>3
  <2>4. WrittenOnce' /\ WrittenHasFile'
    BY <1>3 DEF kill, Inv, WrittenOnce, WrittenHasFile
  <2>5. QED
    BY <1>1, <2>2, <2>3, <2>4, Ended DEF kill, DIE
<1>4. QED
  BY <1>2, <1>3 DEF kill

LEMMA EditInv == ASSUME Inv, NEW m \in Name, edit(m) PROVE Inv'
<1>1. stack' = <<>>
  BY DEF edit, Running
<1>2. PICK text \in Source[m] : source' = [source EXCEPT ![m] = text]
  BY DEF edit
<1>3. text \in Text
  BY SourceAssumption
<1>4. Types'
  BY <1>2, <1>3 DEF edit, Inv, Types
<1>5. ImportsFirst' /\ WrittenOnce' /\ WrittenHasFile'
  BY DEF edit, Inv, ImportsFirst, WrittenOnce, WrittenHasFile
<1>6. QED
  BY <1>1, <1>4, <1>5, Ended DEF edit

LEMMA StutterInv == ASSUME Inv, UNCHANGED vars PROVE Inv'
BY DEF vars, Inv, Types, Bounds, Shape, ImportsFirst, WrittenOnce, WrittenHasFile,
       Pending, Waiting, Done, First, Running

LEMMA NextInv == ASSUME Inv, [Next]_vars PROVE Inv'
<1>1. CASE compile_module
  BY <1>1, OpenInv, CollectInv, LoadInv, ReloadInv, AllocateInv, GenerateInv, WriteInv
     DEF compile_module
<1>2. CASE overflow
  BY <1>2, DieInv DEF overflow
<1>3. CASE kill
  BY <1>3, KillInv
<1>4. ASSUME NEW m \in Name, qbc(m) \/ edit(m) PROVE Inv'
  BY <1>4, QbcInv, EditInv
<1>5. CASE UNCHANGED vars
  BY <1>5, StutterInv
<1>6. QED
  BY <1>1, <1>2, <1>3, <1>4, <1>5 DEF Next

LEMMA Invariance == Spec => []Inv
<1>1. Init => Inv
  BY InitInv
<1>2. Inv /\ [Next]_vars => Inv'
  BY NextInv
<1>3. QED
  BY <1>1, <1>2, PTL DEF Spec

(* Only write_file and kill change what is on the disk.                    *)
LEMMA TruncatedInv == ASSUME Truncated, [Next]_vars PROVE Truncated'
<1>1. CASE write_file
  BY <1>1 DEF Truncated, write_file
<1>2. CASE kill
  BY <1>2 DEF Truncated, kill
<1>3. ASSUME UNCHANGED <<file, cut, stopped>> PROVE Truncated'
  BY <1>3 DEF Truncated
<1>4. CASE UNCHANGED vars
  BY <1>3, <1>4 DEF vars
<1>5. ASSUME NEW m \in Name, load_imported_modules(m) \/ reload(m) \/ qbc(m) \/ edit(m) PROVE Truncated'
  BY <1>3, <1>5 DEF load_imported_modules, reload, qbc, edit
<1>6. CASE open_source \/ collect_and_index \/ allocate \/ generate \/ overflow
  BY <1>3, <1>6 DEF open_source, collect_and_index, allocate, generate, overflow
<1>7. QED
  BY <1>1, <1>2, <1>4, <1>5, <1>6 DEF Next, compile_module

LEMMA TruncatedInvariance == Spec => []Truncated
<1>1. Init => Truncated
  BY DEF Init, Truncated
<1>2. QED
  BY <1>1, TruncatedInv, PTL DEF Spec

-----------------------------------------------------------------------------
(* The variables of the compiler keep their types; the ModuleMap names     *)
(* only modules with object files.                                         *)
THEOREM BuildTypes == Spec => []TypeOK
BY Invariance, TruncatedInvariance, InvTypes, PTL

(* load_imported_modules() and compile_module() leave no object file       *)
(* without the object files it needs, for every graph of imports, also one *)
(* with cycles, and wherever a run dies or is killed.                      *)
THEOREM NoHoles == Spec => []ImportsFirst
<1>1. Inv => ImportsFirst
  BY DEF Inv
<1>2. QED
  BY <1>1, Invariance, PTL

(* A compilation that fails, wherever it does, truncates no object file.   *)
THEOREM KeptWhole == Spec => []FailuresTruncateNothing
<1>1. Truncated => FailuresTruncateNothing
  BY DEF Truncated, FailuresTruncateNothing
<1>2. QED
  BY <1>1, TruncatedInvariance, PTL

(* No run of qbc writes an object file twice.                              *)
THEOREM NoRework == Spec => []WrittenOnce
<1>1. Inv => WrittenOnce
  BY DEF Inv
<1>2. QED
  BY <1>1, Invariance, PTL
=============================================================================
