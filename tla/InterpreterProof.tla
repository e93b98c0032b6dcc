------------------------- MODULE InterpreterProof --------------------------
(***************************************************************************)
(* Proofs about Interpreter for every program whose object files keep to   *)
(* what Interpreter assumes of them: what an instruction finds is a        *)
(* register, every value is one the code knows, a reference leads to a     *)
(* register or to where one has been, and the function a call runs is the  *)
(* one its arguments ask for.                                              *)
(*                                                                         *)
(* The parts of the invariant take the heap h, the frames fr and so on as  *)
(* arguments, so that a lemma about them speaks of the primed variables    *)
(* too.                                                                    *)
(***************************************************************************)
EXTENDS Interpreter, Queues, SequenceTheorems, TLAPS

-----------------------------------------------------------------------------
(***************************************************************************)
(* The inductive invariant.                                                *)
(***************************************************************************)
(* A register, or where one was before the registers of its object moved.  *)
HasPlace(h, p) ==
    /\ p = <<p[1], p[2], p[3]>> /\ p[2] \in Nat
    /\ p[1] \in DOMAIN h /\ p[2] + 1 \in DOMAIN h[p[1]].regs /\ p[3] \in 0 .. h[p[1]].moves

(* What a register may hold.                                               *)
Plain == {"Void", "Int", "Bool", "Failure", "Promise", "PatternVar", "Hashtag", "Stream"}
GoodValue(h, x) ==
    /\ x[1] \in Plain \cup {"Ref", "String"} \/ IsIndex(x)
    /\ x[1] \in Plain \cup {"Ref", "String"} => ~IsIndex(x)
    /\ x[1] = "Int" => x[2] \in Int
    /\ x[1] = "Bool" => x[2] \in BOOLEAN
    /\ x[1] = "Stream" => x[2] \in 0 .. 2
    /\ x[1] = "Ref" => HasPlace(h, x[2])
    /\ IsIndex(x) \/ x[1] = "String" => x[2] \in DOMAIN h
    /\ x[1] = "Function" => h[x[2]].func # "none"

(* What a function value was made for and what it stands for now: the      *)
(* function itself or one of its overrides.                                *)
Kin(o) ==
    \/ o.func = o.family
    \/ Function[o.func].context = "override" /\ Function[o.func].family = o.family

(* An object has the registers its function needs, and those of its        *)
(* arguments.                                                              *)
GoodShape(o) ==
    /\ DOMAIN o = {"func", "family", "argc", "regs", "moves", "text"}
    /\ IsSequence(o.regs) /\ o.moves \in Nat
    /\ o.func # "none" =>
          /\ o.func \in DOMAIN Function /\ Loadable(o.family) /\ Kin(o)
          /\ o.argc = Function[o.family].argc /\ o.argc <= Len(o.regs)
          /\ regtotal(o.func) <= Len(o.regs)

Shaped(h) == IsSequence(h) /\ \A v \in DOMAIN h : GoodShape(h[v])
GoodHeap(h) ==
    /\ Shaped(h)
    /\ \A v \in DOMAIN h : \A r \in DOMAIN h[v].regs : GoodValue(h, h[v].regs[r])
    /\ 1 \in DOMAIN h /\ NumWorkers + 1 <= Len(h[1].regs)
    /\ CONST_REGISTER \in DOMAIN h /\ 1 \in DOMAIN h[CONST_REGISTER].regs

(* Objects stay, what they are included, and have ever more registers,     *)
(* that have moved ever more often.                                        *)
Grown(o, p) ==
    Len(o.regs) <= Len(p.regs) /\ o.moves <= p.moves /\ (o.func # "none" => p.func # "none")
Grows(h, k) == \A v \in DOMAIN h : v \in DOMAIN k /\ Grown(h[v], k[v])

CallOf(fr, f) == IF fr[f].type = "call" THEN f ELSE fr[f].call
CodeOf(fr, f) == Function[fr[CallOf(fr, f)].func].code
States == {"READY", "IOWAIT", "PEERWAIT", "COMPLETE", "FAILED"}
Fields == {"type", "parent", "proc", "cfstate", "pc", "live", "context", "value", "func", "result", "call", "promised"}

(* A call has its function and its registers, a path its call.             *)
GoodCall(h, c) ==
    /\ c.func \in DOMAIN Function
    /\ c.value \in DOMAIN h /\ regtotal(c.func) <= Len(h[c.value].regs)
    /\ c.result # NoPlace => HasPlace(h, c.result)
GoodFrame(h, fr, n, f) ==
    /\ DOMAIN fr[f] = Fields
    /\ fr[f].parent \in 0 .. f - 1 /\ fr[f].proc \in 1 .. n /\ fr[f].cfstate \in States
    /\ fr[f].type \in {"call", "path"}
    /\ fr[f].type = "call" => GoodCall(h, fr[f])
    /\ fr[f].type = "path" =>
          fr[f].call \in DOMAIN fr /\ fr[fr[f].call].type = "call" /\ HasPlace(h, fr[f].promised)
    /\ fr[f].pc \in DOMAIN CodeOf(fr, f)
    /\ \A name \in DOMAIN fr[f].context : HasPlace(h, <<fr[f].context[name], 0, 0>>)
GoodFrames(h, fr, n) ==
    /\ IsSequence(fr) /\ Len(fr) <= MaxFrames
    /\ \A f \in DOMAIN fr : GoodFrame(h, fr, n, f)

GoodProcess(h, fr, p) ==
    /\ DOMAIN p = {"worker", "call", "recv"}
    /\ p.worker \in 0 .. NumWorkers /\ p.call \in DOMAIN fr
    /\ IsSequence(p.recv) /\ \A k \in DOMAIN p.recv : HasPlace(h, <<p.recv[k], 0, 0>>)
GoodProcesses(h, fr, ps) == IsSequence(ps) /\ \A p \in DOMAIN ps : GoodProcess(h, fr, ps[p])

GoodIo(h, fr, waiting) ==
    \A f \in DOMAIN waiting :
        /\ f \in DOMAIN fr /\ waiting[f].fd \in {0, 1} /\ waiting[f].registered \in BOOLEAN
        /\ waiting[f].place # NoPlace => HasPlace(h, waiting[f].place)

GoodQueue(fr, cur, q1, q2) ==
    /\ cur \in [Worker -> {None} \cup DOMAIN fr]
    /\ q1 \in [Worker -> Seq(DOMAIN fr)] /\ q2 \in [Worker -> Seq(DOMAIN fr)]

Ends == {"none", "null", "exit", "unjoined", "dangling", "undefined"}
Rest ==
    /\ program \in Main /\ fifo \in BOOLEAN /\ distributor \in Worker
    /\ at \in [Worker -> {"fetch", "io", "switch"}]
    /\ known \in [Worker -> SUBSET Module]
    /\ broken \in Ends

Inv ==
    /\ GoodHeap(value)
    /\ GoodFrames(value, frame, Len(process))
    /\ GoodProcesses(value, frame, process)
    /\ GoodIo(value, frame, io)
    /\ GoodQueue(frame, current, fresh, stale)
    /\ Rest

-----------------------------------------------------------------------------
(***************************************************************************)
(* The heap.                                                               *)
(***************************************************************************)
LEMMA RegisterDomain ==
    ASSUME NEW h, Shaped(h), NEW v \in DOMAIN h
    PROVE  Len(h[v].regs) \in Nat /\ DOMAIN h[v].regs = 1 .. Len(h[v].regs) /\ h[v].moves \in Nat
BY SequenceDomain DEF Shaped, GoodShape

LEMMA PlaceGrows ==
    ASSUME NEW h, NEW k, Shaped(h), Shaped(k), Grows(h, k), NEW p, HasPlace(h, p)
    PROVE  HasPlace(k, p)
<1>1. p[1] \in DOMAIN h /\ p[2] + 1 \in DOMAIN h[p[1]].regs /\ p[3] \in 0 .. h[p[1]].moves
  BY DEF HasPlace
<1>2. /\ p[1] \in DOMAIN k /\ Len(h[p[1]].regs) <= Len(k[p[1]].regs)
      /\ h[p[1]].moves <= k[p[1]].moves
  BY <1>1 DEF Grows, Grown
<1>3. /\ Len(h[p[1]].regs) \in Nat /\ DOMAIN h[p[1]].regs = 1 .. Len(h[p[1]].regs)
      /\ Len(k[p[1]].regs) \in Nat /\ DOMAIN k[p[1]].regs = 1 .. Len(k[p[1]].regs)
      /\ h[p[1]].moves \in Nat /\ k[p[1]].moves \in Nat
  BY <1>1, <1>2, RegisterDomain
<1>4. QED
  BY <1>1, <1>2, <1>3 DEF HasPlace

LEMMA ValueGrows ==
    ASSUME NEW h, NEW k, Shaped(h), Shaped(k), Grows(h, k), NEW x, GoodValue(h, x)
    PROVE  GoodValue(k, x)
<1>1. x[1] = "Ref" => HasPlace(k, x[2])
  BY PlaceGrows DEF GoodValue
<1>2. IsIndex(x) \/ x[1] = "String" => x[2] \in DOMAIN k
  BY DEF GoodValue, Grows
<1>3. x[1] = "Function" => k[x[2]].func # "none"
  <2>1. x[1] = "Function" => x[2] \in DOMAIN h
    BY DEF GoodValue, IsIndex
  <2>2. QED
    BY <2>1 DEF GoodValue, Grows, Grown
<1>4. QED
  BY <1>1, <1>2, <1>3 DEF GoodValue

LEMMA GrowsTransitive ==
    ASSUME NEW h, NEW k, NEW l, Shaped(h), Shaped(k), Shaped(l), Grows(h, k), Grows(k, l)
    PROVE  Grows(h, l)
<1>1. SUFFICES ASSUME NEW v \in DOMAIN h PROVE v \in DOMAIN l /\ Grown(h[v], l[v])
  BY DEF Grows
<1>2. v \in DOMAIN k /\ v \in DOMAIN l /\ Grown(h[v], k[v]) /\ Grown(k[v], l[v])
  BY DEF Grows
<1>3. /\ Len(h[v].regs) \in Nat /\ Len(k[v].regs) \in Nat /\ Len(l[v].regs) \in Nat
      /\ h[v].moves \in Nat /\ k[v].moves \in Nat /\ l[v].moves \in Nat
  BY <1>2, RegisterDomain
<1>4. QED
  BY <1>2, <1>3 DEF Grown

LEMMA GrowsReflexive == ASSUME NEW h, Shaped(h) PROVE Grows(h, h)
BY RegisterDomain DEF Grows, Grown

(* Whatever is written: the registers that change hold values of the new   *)
(* heap.                                                                   *)
LEMMA HeapStep ==
    ASSUME NEW h, NEW k, GoodHeap(h), Shaped(k), Grows(h, k),
           \A v \in DOMAIN k : \A r \in DOMAIN k[v].regs :
              \/ v \in DOMAIN h /\ r \in DOMAIN h[v].regs /\ k[v].regs[r] = h[v].regs[r]
              \/ GoodValue(k, k[v].regs[r])
    PROVE  GoodHeap(k)
<1>1. Shaped(h)
  BY DEF GoodHeap
<1>2. ASSUME NEW v \in DOMAIN k, NEW r \in DOMAIN k[v].regs PROVE GoodValue(k, k[v].regs[r])
  <2>1. CASE v \in DOMAIN h /\ r \in DOMAIN h[v].regs /\ k[v].regs[r] = h[v].regs[r]
    <3>1. GoodValue(h, h[v].regs[r])
      BY <2>1 DEF GoodHeap
    <3>2. QED
      BY <1>1, <2>1, <3>1, ValueGrows
  <2>2. QED
    BY <2>1
<1>3. 1 \in DOMAIN h /\ NumWorkers + 1 <= Len(h[1].regs)
  BY DEF GoodHeap
<1>4. 1 \in DOMAIN k /\ Len(h[1].regs) <= Len(k[1].regs)
  BY <1>3 DEF Grows, Grown
<1>5. Len(h[1].regs) \in Nat /\ Len(k[1].regs) \in Nat
  BY <1>1, <1>3, <1>4, RegisterDomain
<1>6. NumWorkers + 1 <= Len(k[1].regs)
  BY <1>3, <1>4, <1>5, BoundsAssumption
<1>7. CONST_REGISTER \in DOMAIN k /\ 1 \in DOMAIN k[CONST_REGISTER].regs
  <2>1. PICK c : c = CONST_REGISTER
    OBVIOUS
  <2>2. c \in DOMAIN h /\ 1 \in DOMAIN h[c].regs
    BY <2>1 DEF GoodHeap
  <2>3. c \in DOMAIN k /\ Len(h[c].regs) <= Len(k[c].regs)
    BY <2>2 DEF Grows, Grown
  <2>4. /\ DOMAIN h[c].regs = 1 .. Len(h[c].regs) /\ Len(h[c].regs) \in Nat
        /\ DOMAIN k[c].regs = 1 .. Len(k[c].regs) /\ Len(k[c].regs) \in Nat
    BY <1>1, <2>2, <2>3, RegisterDomain
  <2>5. QED
    BY <2>1, <2>2, <2>3, <2>4
<1>8. QED
  BY <1>2, <1>4, <1>6, <1>7 DEF GoodHeap

(* A register is written, if it is there at all.                           *)
Set(h, a, b, x) == [h EXCEPT ![a].regs[b] = x]
LEMMA PutHeap ==
    ASSUME NEW h, GoodHeap(h), NEW a, NEW b, NEW x, GoodValue(h, x),
           NEW k, k = Set(h, a, b, x)
    PROVE  GoodHeap(k) /\ Grows(h, k)
<1>1. Shaped(h) /\ IsSequence(h)
  BY DEF GoodHeap, Shaped
<1>2. IsSequence(k)
  BY <1>1, ExceptSequence DEF Set
<1>3. DOMAIN k = DOMAIN h
  BY DEF Set
<1>4. ASSUME NEW v \in DOMAIN h
      PROVE  /\ GoodShape(k[v]) /\ Grown(h[v], k[v])
             /\ \A r \in DOMAIN k[v].regs :
                   r \in DOMAIN h[v].regs /\ (k[v].regs[r] = h[v].regs[r] \/ k[v].regs[r] = x)
  <2>1. GoodShape(h[v])
    BY <1>1 DEF Shaped
  <2>2. CASE v # a
    <3>1. k[v] = h[v]
      BY <2>2 DEF Set
    <3>2. QED
      BY <1>1, <2>1, <3>1, RegisterDomain DEF Grown
  <2>3. CASE v = a
    <3>1. k[v] = [h[v] EXCEPT !.regs = [h[v].regs EXCEPT ![b] = x]]
      BY <2>3 DEF Set
    <3>2. /\ DOMAIN k[v] = DOMAIN h[v]
          /\ k[v].regs = [h[v].regs EXCEPT ![b] = x]
          /\ k[v].func = h[v].func /\ k[v].family = h[v].family /\ k[v].argc = h[v].argc
          /\ k[v].moves = h[v].moves
      BY <2>1, <3>1 DEF GoodShape
    <3>3. IsSequence(k[v].regs) /\ Len(k[v].regs) = Len(h[v].regs)
      <4>1. IsSequence(h[v].regs)
        BY <2>1 DEF GoodShape
      <4>2. /\ IsSequence([h[v].regs EXCEPT ![b] = x])
            /\ Len([h[v].regs EXCEPT ![b] = x]) = Len(h[v].regs)
        BY <4>1, ExceptSequence
      <4>3. QED
        BY <3>2, <4>2
    <3>4. GoodShape(k[v])
      BY <2>1, <3>2, <3>3 DEF GoodShape, Kin
    <3>5. Grown(h[v], k[v])
      BY <1>1, <3>2, <3>3, RegisterDomain DEF Grown
    <3>6. \A r \in DOMAIN k[v].regs :
             r \in DOMAIN h[v].regs /\ (k[v].regs[r] = h[v].regs[r] \/ k[v].regs[r] = x)
      BY <3>2
    <3>7. QED
      BY <3>4, <3>5, <3>6
  <2>4. QED
    BY <2>2, <2>3
<1>5. Shaped(k) /\ Grows(h, k)
  BY <1>2, <1>3, <1>4 DEF Shaped, Grows
<1>6. GoodValue(k, x)
  BY <1>1, <1>5, ValueGrows
<1>7. \A v \in DOMAIN k : \A r \in DOMAIN k[v].regs :
         \/ v \in DOMAIN h /\ r \in DOMAIN h[v].regs /\ k[v].regs[r] = h[v].regs[r]
         \/ GoodValue(k, k[v].regs[r])
  BY <1>3, <1>4, <1>6
<1>8. GoodHeap(k)
  BY <1>5, <1>7, HeapStep
<1>9. QED
  BY <1>5, <1>8

LEMMA GoodVoid == \A h : GoodValue(h, Void)
<1>1. Void[1] = "Void" /\ Len(Void) = 1
  BY DEF Void
<1>2. QED
  BY <1>1 DEF GoodValue, IsIndex, Plain

(* An object is replaced by one that has its registers and some more.      *)
LEMMA ObjectHeap ==
    ASSUME NEW h, GoodHeap(h), NEW v \in DOMAIN h, NEW o, GoodShape(o), Grown(h[v], o),
           \A r \in DOMAIN o.regs :
              (r \in DOMAIN h[v].regs /\ o.regs[r] = h[v].regs[r]) \/ o.regs[r] = Void,
           NEW k, k = [h EXCEPT ![v] = o]
    PROVE  GoodHeap(k) /\ Grows(h, k)
<1>1. Shaped(h) /\ IsSequence(h)
  BY DEF GoodHeap, Shaped
<1>2. IsSequence(k)
  BY <1>1, ExceptSequence
<1>3. DOMAIN k = DOMAIN h /\ k[v] = o /\ \A u \in DOMAIN h : u # v => k[u] = h[u]
  OBVIOUS
<1>4. Shaped(k)
  BY <1>1, <1>2, <1>3 DEF Shaped
<1>5. Grows(h, k)
  BY <1>1, <1>3, GrowsReflexive DEF Grows
<1>6. ASSUME NEW u \in DOMAIN k, NEW r \in DOMAIN k[u].regs
      PROVE  \/ u \in DOMAIN h /\ r \in DOMAIN h[u].regs /\ k[u].regs[r] = h[u].regs[r]
             \/ GoodValue(k, k[u].regs[r])
  <2>1. CASE u = v
    BY <1>3, <2>1, GoodVoid
  <2>2. CASE u # v
    BY <1>3, <2>2
  <2>3. QED
    BY <2>1, <2>2
<1>7. GoodHeap(k)
  BY <1>4, <1>5, <1>6, HeapStep
<1>8. QED
  BY <1>5, <1>7

(* A new object, whose registers are void.                                 *)
Blank(o) == GoodShape(o) /\ \A r \in DOMAIN o.regs : o.regs[r] = Void
LEMMA AppendHeap ==
    ASSUME NEW h, GoodHeap(h), NEW o, Blank(o), NEW k, k = Append(h, o)
    PROVE  /\ GoodHeap(k) /\ Grows(h, k)
           /\ Len(h) + 1 \in DOMAIN k /\ k[Len(h) + 1] = o
           /\ \A v \in DOMAIN h : k[v] = h[v]
<1>1. Shaped(h) /\ IsSequence(h)
  BY DEF GoodHeap, Shaped
<1>2. /\ IsSequence(k) /\ k[Len(h) + 1] = o
      /\ DOMAIN k = DOMAIN h \cup {Len(h) + 1}
      /\ \A v \in DOMAIN h : v \in DOMAIN k /\ k[v] = h[v]
  BY <1>1, AppendSequence
<1>3. Shaped(k)
  BY <1>1, <1>2 DEF Shaped, Blank
<1>4. Grows(h, k)
  BY <1>1, <1>2, GrowsReflexive DEF Grows
<1>5. ASSUME NEW u \in DOMAIN k, NEW r \in DOMAIN k[u].regs
      PROVE  \/ u \in DOMAIN h /\ r \in DOMAIN h[u].regs /\ k[u].regs[r] = h[u].regs[r]
             \/ GoodValue(k, k[u].regs[r])
  BY <1>2, GoodVoid DEF Blank
<1>6. GoodHeap(k)
  BY <1>3, <1>4, <1>5, HeapStep
<1>7. QED
  BY <1>2, <1>4, <1>6

(* A register is made to point at a new object.                            *)
LEMMA PutAppendHeap ==
    ASSUME NEW h, GoodHeap(h), NEW o, Blank(o), NEW a \in DOMAIN h, NEW b,
           NEW x, GoodValue(Append(h, o), x),
           NEW e, e = Set(h, a, b, x), NEW k, k = Append(e, o)
    PROVE  /\ GoodHeap(k) /\ Grows(h, k)
           /\ Len(h) + 1 \in DOMAIN k /\ k[Len(h) + 1] = o
           /\ \A v \in DOMAIN h : k[v] = e[v]
<1>1. PICK g : g = Append(h, o)
  OBVIOUS
<1>2. IsSequence(h) /\ Shaped(h)
  BY DEF GoodHeap, Shaped
<1>3. /\ GoodHeap(g) /\ Grows(h, g)
      /\ \A v \in DOMAIN h : g[v] = h[v]
  <2>1. GoodHeap(g)
    BY <1>1, AppendHeap
  <2>2. Grows(h, g)
    BY <1>1, AppendHeap
  <2>3. ASSUME NEW v \in DOMAIN h PROVE g[v] = h[v]
    BY <1>1, AppendHeap
  <2>4. QED
    BY <2>1, <2>2, <2>3
<1>4. PICK q : q = Set(g, a, b, x)
  OBVIOUS
<1>5. GoodHeap(q) /\ Grows(g, q)
  BY <1>1, <1>3, <1>4, PutHeap
<1>6. IsSequence(e) /\ Len(e) = Len(h) /\ DOMAIN e = DOMAIN h
  BY <1>2, ExceptSequence DEF Set
<1>7. IsSequence(g) /\ g[Len(h) + 1] = o /\ DOMAIN g = DOMAIN h \cup {Len(h) + 1}
  BY <1>1, <1>2, AppendSequence
<1>8. /\ IsSequence(k) /\ k[Len(h) + 1] = o /\ DOMAIN k = DOMAIN h \cup {Len(h) + 1}
      /\ \A v \in DOMAIN h : k[v] = e[v]
  BY <1>6, AppendSequence
<1>9. IsSequence(q) /\ DOMAIN q = DOMAIN g
  BY <1>4, <1>7, ExceptSequence DEF Set
<1>10. Len(h) + 1 \notin DOMAIN h
  BY <1>2, SequenceDomain
<1>11. ASSUME NEW v \in DOMAIN k PROVE k[v] = q[v]
  <2>1. CASE v = Len(h) + 1
    BY <1>4, <1>7, <1>8, <1>10, <2>1 DEF Set
  <2>2. CASE v \in DOMAIN h
    BY <1>3, <1>4, <1>7, <1>8, <2>2 DEF Set
  <2>3. QED
    BY <1>8, <2>1, <2>2
<1>12. k = q
  <2>1. k = [v \in DOMAIN k |-> k[v]] /\ q = [v \in DOMAIN q |-> q[v]]
    BY <1>8, <1>9, SequenceDomain DEF IsSequence
  <2>2. QED
    BY <1>7, <1>8, <1>9, <1>11, <2>1
<1>13. Grows(h, k)
  BY <1>2, <1>3, <1>5, <1>12, GrowsTransitive DEF GoodHeap
<1>14. QED
  BY <1>5, <1>8, <1>12, <1>13

-----------------------------------------------------------------------------
(***************************************************************************)
(* New objects and the values that point at them.                          *)
(***************************************************************************)
LEMMA VoidSequence ==
    ASSUME NEW n \in Nat
    PROVE  IsSequence(Voids(n)) /\ Len(Voids(n)) = n /\ \A r \in DOMAIN Voids(n) : Voids(n)[r] = Void
<1>1. Voids(n) = [r \in 1 .. n |-> Voids(n)[r]] /\ \A r \in 1 .. n : Voids(n)[r] = Void
  BY DEF Voids
<1>2. QED
  BY <1>1, SequenceLength

LEMMA RegTotal ==
    ASSUME NEW n \in DOMAIN Function
    PROVE  Function[n].argc \in Nat /\ regtotal(n) \in Nat /\ Function[n].argc <= regtotal(n)
BY FunctionAssumption DEF regtotal

LEMMA BlankIndex == ASSUME NEW n \in Nat PROVE Blank(NewIndex(n)) /\ NewIndex(n).regs = Voids(n)
<1>1. /\ DOMAIN NewIndex(n) = {"func", "family", "argc", "regs", "moves", "text"}
      /\ NewIndex(n).regs = Voids(n) /\ NewIndex(n).func = "none" /\ NewIndex(n).moves = 0
  BY DEF NewIndex
<1>2. QED
  BY <1>1, VoidSequence DEF Blank, GoodShape

LEMMA BlankString == ASSUME NEW text PROVE Blank(NewString(text))
<1>1. PICK o : o = NewIndex(0)
  OBVIOUS
<1>2. Blank(o) /\ o.func = "none"
  BY <1>1, BlankIndex DEF NewIndex
<1>3. PICK q : q = NewString(text)
  OBVIOUS
<1>4. q = [o EXCEPT !.text = text]
  BY <1>1, <1>3 DEF NewString
<1>5. DOMAIN q = DOMAIN o /\ q.regs = o.regs /\ q.func = o.func /\ q.moves = o.moves
  BY <1>2, <1>4 DEF Blank, GoodShape
<1>6. Blank(q)
  BY <1>2, <1>5 DEF Blank, GoodShape
<1>7. QED
  BY <1>3, <1>6

LEMMA BlankConstruct == ASSUME NEW c \in DOMAIN Construct PROVE Blank(NewConstruct(c))
<1>1. Construct[c].fields \in Nat
  BY ConstructAssumption
<1>2. PICK o : o = NewIndex(Construct[c].fields)
  OBVIOUS
<1>3. Blank(o) /\ o.func = "none"
  BY <1>1, <1>2, BlankIndex DEF NewIndex
<1>4. PICK q : q = NewConstruct(c)
  OBVIOUS
<1>5. q = [o EXCEPT !.argc = Construct[c].param]
  BY <1>2, <1>4 DEF NewConstruct
<1>6. DOMAIN q = DOMAIN o /\ q.regs = o.regs /\ q.func = o.func /\ q.moves = o.moves
  BY <1>3, <1>5 DEF Blank, GoodShape
<1>7. Blank(q)
  BY <1>3, <1>6 DEF Blank, GoodShape
<1>8. QED
  BY <1>4, <1>7

(* A context variable.                                                     *)
LEMMA BlankVariable == Blank(NewVariable(Void)) /\ 1 \in DOMAIN NewVariable(Void).regs
<1>1. PICK o : o = NewIndex(1)
  OBVIOUS
<1>2. Blank(o) /\ o.func = "none" /\ o.regs = Voids(1)
  BY <1>1, BlankIndex DEF NewIndex
<1>3. PICK q : q = NewVariable(Void)
  OBVIOUS
<1>4. q = [o EXCEPT !.regs = [o.regs EXCEPT ![1] = Void]]
  BY <1>1, <1>3 DEF NewVariable
<1>5. [o.regs EXCEPT ![1] = Void] = o.regs
  BY <1>2 DEF Voids
<1>6. DOMAIN q = DOMAIN o /\ q.regs = o.regs /\ q.func = o.func /\ q.moves = o.moves
  BY <1>2, <1>4, <1>5 DEF Blank, GoodShape
<1>7. Blank(q) /\ 1 \in DOMAIN q.regs
  BY <1>2, <1>6 DEF Blank, GoodShape, Voids
<1>8. QED
  BY <1>3, <1>7

(* When a frame ends, its context variables are gone: the registers are    *)
(* void, and every place in them dangles.                                  *)
Gone(o) == [o EXCEPT !.regs[1] = Void, !.moves = @ + 1]
LEMMA FreedHeap ==
    ASSUME NEW h, GoodHeap(h), NEW C,
           NEW k, k = [v \in DOMAIN h |-> IF v \in C THEN Gone(h[v]) ELSE h[v]]
    PROVE  GoodHeap(k) /\ Grows(h, k)
<1>1. Shaped(h) /\ IsSequence(h)
  BY DEF GoodHeap, Shaped
<1>2. DOMAIN k = DOMAIN h /\ IsSequence(k)
  <2>1. DOMAIN h = 1 .. Len(h) /\ Len(h) \in Nat
    BY <1>1, SequenceDomain
  <2>2. DOMAIN k = 1 .. Len(h) /\ k = [v \in 1 .. Len(h) |-> k[v]]
    BY <2>1
  <2>3. QED
    BY <2>1, <2>2, SequenceLength
<1>3. ASSUME NEW v \in DOMAIN h
      PROVE  /\ GoodShape(k[v]) /\ Grown(h[v], k[v])
             /\ \A r \in DOMAIN k[v].regs :
                   r \in DOMAIN h[v].regs /\ (k[v].regs[r] = h[v].regs[r] \/ k[v].regs[r] = Void)
  <2>1. GoodShape(h[v]) /\ Len(h[v].regs) \in Nat /\ h[v].moves \in Nat
    BY <1>1, RegisterDomain DEF Shaped
  <2>2. CASE v \notin C
    <3>1. k[v] = h[v]
      BY <2>2
    <3>2. QED
      BY <2>1, <3>1 DEF Grown
  <2>3. CASE v \in C
    <3>1. PICK o : o = h[v]
      OBVIOUS
    <3>2. k[v] = Gone(o)
      BY <2>3, <3>1
    <3>3. DOMAIN o = {"func", "family", "argc", "regs", "moves", "text"}
      BY <2>1, <3>1 DEF GoodShape
    <3>4. /\ DOMAIN k[v] = DOMAIN o /\ k[v].regs = [o.regs EXCEPT ![1] = Void]
          /\ k[v].func = o.func /\ k[v].family = o.family /\ k[v].argc = o.argc
          /\ k[v].moves = o.moves + 1
      BY <3>2, <3>3 DEF Gone
    <3>5. IsSequence(k[v].regs) /\ Len(k[v].regs) = Len(o.regs)
      <4>1. IsSequence(o.regs)
        BY <2>1, <3>1 DEF GoodShape
      <4>2. IsSequence([o.regs EXCEPT ![1] = Void]) /\ Len([o.regs EXCEPT ![1] = Void]) = Len(o.regs)
        BY <4>1, ExceptSequence
      <4>3. QED
        BY <3>4, <4>2
    <3>6. GoodShape(k[v])
      BY <2>1, <3>1, <3>4, <3>5 DEF GoodShape, Kin
    <3>7. Grown(h[v], k[v])
      BY <2>1, <3>1, <3>4, <3>5 DEF Grown
    <3>8. QED
      BY <3>1, <3>4, <3>6, <3>7
  <2>4. QED
    BY <2>2, <2>3
<1>4. Shaped(k) /\ Grows(h, k)
  BY <1>2, <1>3 DEF Shaped, Grows
<1>5. \A v \in DOMAIN k : \A r \in DOMAIN k[v].regs :
         \/ v \in DOMAIN h /\ r \in DOMAIN h[v].regs /\ k[v].regs[r] = h[v].regs[r]
         \/ GoodValue(k, k[v].regs[r])
  BY <1>2, <1>3, GoodVoid
<1>6. GoodHeap(k)
  BY <1>4, <1>5, HeapStep
<1>7. QED
  BY <1>4, <1>6

LEMMA BlankValue ==
    ASSUME NEW func, Loadable(func)
    PROVE  Blank(NewValue(func)) /\ NewValue(func).func = func /\ func # "none"
<1>1. func \in DOMAIN Function /\ regtotal(func) \in Nat /\ Function[func].argc \in Nat /\ func # "none"
  BY RegTotal, FunctionAssumption DEF Loadable
<1>2. PICK o : o = NewValue(func)
  OBVIOUS
<1>3. /\ DOMAIN o = {"func", "family", "argc", "regs", "moves", "text"}
      /\ o.regs = Voids(regtotal(func)) /\ o.moves = 0
      /\ o.func = func /\ o.family = func /\ o.argc = Function[func].argc
  BY <1>2 DEF NewValue, NewIndex
<1>4. IsSequence(o.regs) /\ Len(o.regs) = regtotal(func) /\ \A r \in DOMAIN o.regs : o.regs[r] = Void
  BY <1>1, <1>3, VoidSequence
<1>5. o.argc <= Len(o.regs) /\ regtotal(o.func) <= Len(o.regs)
  BY <1>1, <1>3, <1>4, RegTotal
<1>6. Blank(o)
  BY <1>1, <1>3, <1>4, <1>5 DEF Blank, GoodShape, Kin
<1>7. QED
  BY <1>1, <1>2, <1>3, <1>6
-----------------------------------------------------------------------------
(***************************************************************************)
(* References and context variables are followed by recursive functions,   *)
(* whose values are there for every number of steps.                       *)
(***************************************************************************)
Chain(heap, place) ==
    CHOOSE c : c = [n \in 0 .. MaxRefs |-> IF n = 0 THEN Present(heap, place) ELSE Pursue(heap, c[n - 1])]

LEMMA ChainDef ==
    ASSUME NEW heap, NEW place
    PROVE  Chain(heap, place) =
              [n \in 0 .. MaxRefs |->
                  IF n = 0 THEN Present(heap, place) ELSE Pursue(heap, Chain(heap, place)[n - 1])]
<1> DEFINE S == {n \in Nat : \E c : c = [k \in 0 .. n |->
                     IF k = 0 THEN Present(heap, place) ELSE Pursue(heap, c[k - 1])]}
<1>1. 0 \in S
  <2>1. PICK c : c = [k \in 0 .. 0 |-> Present(heap, place)]
    OBVIOUS
  <2>2. c = [k \in 0 .. 0 |-> IF k = 0 THEN Present(heap, place) ELSE Pursue(heap, c[k - 1])]
    BY <2>1
  <2>3. QED
    BY <2>2
<1>2. ASSUME NEW n \in Nat, n \in S PROVE n + 1 \in S
  <2>1. PICK c : c = [k \in 0 .. n |-> IF k = 0 THEN Present(heap, place) ELSE Pursue(heap, c[k - 1])]
    BY <1>2
  <2>2. PICK d : d = [k \in 0 .. n + 1 |-> IF k = n + 1 THEN Pursue(heap, c[n]) ELSE c[k]]
    OBVIOUS
  <2>3. \A k \in 0 .. n : d[k] = c[k]
    BY <2>2
  <2>4. ASSUME NEW k \in 0 .. n + 1 PROVE d[k] = IF k = 0 THEN Present(heap, place) ELSE Pursue(heap, d[k - 1])
    <3>1. CASE k = n + 1
      <4>1. d[k] = Pursue(heap, c[n]) /\ d[k - 1] = c[n] /\ k # 0
        BY <2>2, <2>3, <3>1
      <4>2. QED
        BY <4>1
    <3>2. CASE k = 0
      BY <2>1, <2>2, <3>2
    <3>3. CASE k \in 1 .. n
      <4>1. d[k] = c[k] /\ d[k - 1] = c[k - 1] /\ k # 0
        BY <2>3, <3>3
      <4>2. c[k] = Pursue(heap, c[k - 1])
        BY <2>1, <3>3
      <4>3. QED
        BY <4>1, <4>2
    <3>4. QED
      BY <3>1, <3>2, <3>3
  <2>5. d = [k \in 0 .. n + 1 |-> IF k = 0 THEN Present(heap, place) ELSE Pursue(heap, d[k - 1])]
    BY <2>2, <2>4
  <2>6. QED
    BY <2>5
<1>3. MaxRefs \in S
  <2> HIDE DEF S
  <2>1. MaxRefs \in Nat
    BY BoundsAssumption
  <2>2. QED
    BY <1>1, <1>2, <2>1, UpTo
<1>4. \E c : c = [k \in 0 .. MaxRefs |-> IF k = 0 THEN Present(heap, place) ELSE Pursue(heap, c[k - 1])]
  BY <1>3
<1>5. QED
  BY <1>4, Zenon DEF Chain

LEMMA PlaceValue ==
    ASSUME NEW h, GoodHeap(h), NEW place, HasPlace(h, place)
    PROVE  GoodValue(h, In(h, place))
BY DEF GoodHeap, HasPlace, In

(* A lookup that finds something, or is stopped by what it finds.          *)
GoodFound(h, found) == found.stop \in {"none", "promise", "failure"} => HasPlace(h, found.place)

(* A link of a chain: a register, or a place that dangles.                 *)
GoodLink(h, found) ==
    /\ found.stop \in {"none", "dangling"} /\ HasPlace(h, found.place)
    /\ found.stop = "none" => Alive(h, found.place)

LEMMA PresentLink ==
    ASSUME NEW h, NEW p, HasPlace(h, p)
    PROVE  GoodLink(h, Present(h, p))
BY DEF GoodLink, Present, Found, Stopped

LEMMA PursueLink ==
    ASSUME NEW h, GoodHeap(h), NEW found, GoodLink(h, found)
    PROVE  GoodLink(h, Pursue(h, found))
<1>1. CASE found.stop = "none" /\ In(h, found.place)[1] = "Ref"
  <2>1. HasPlace(h, In(h, found.place)[2])
    BY <1>1, PlaceValue DEF GoodLink, GoodValue
  <2>2. Pursue(h, found) = Present(h, In(h, found.place)[2])
    BY <1>1 DEF Pursue
  <2>3. QED
    BY <2>1, <2>2, PresentLink
<1>2. CASE ~(found.stop = "none" /\ In(h, found.place)[1] = "Ref")
  BY <1>2 DEF Pursue
<1>3. QED
  BY <1>1, <1>2

(* A reference leads to a register, or to where one has been.              *)
LEMMA FollowRef ==
    ASSUME NEW h, GoodHeap(h), NEW p, HasPlace(h, p)
    PROVE  GoodLink(h, follow_ref(h, p))
<1>1. PICK c : c = Chain(h, p)
  OBVIOUS
<1>2. follow_ref(h, p) = c[MaxRefs]
  BY <1>1, Zenon DEF follow_ref, Chain
<1>3. MaxRefs \in Nat
  BY BoundsAssumption
<1>4. c = [n \in 0 .. MaxRefs |-> IF n = 0 THEN Present(h, p) ELSE Pursue(h, c[n - 1])]
  BY <1>1, ChainDef
<1>5. c[0] = Present(h, p)
  BY <1>3, <1>4
<1>6. \A n \in 0 .. MaxRefs : n # MaxRefs => c[n + 1] = Pursue(h, c[n])
  <2>1. PICK d : d = c
    OBVIOUS
  <2>2. c = [n \in 0 .. MaxRefs |-> IF n = 0 THEN Present(h, p) ELSE Pursue(h, d[n - 1])]
    BY <1>4, <2>1
  <2>3. ASSUME NEW n \in 0 .. MaxRefs, n # MaxRefs PROVE c[n + 1] = Pursue(h, d[n])
    <3>1. n + 1 \in 0 .. MaxRefs /\ n + 1 # 0 /\ n + 1 - 1 = n
      BY <1>3, <2>3
    <3>2. QED
      BY <2>2, <3>1
  <2>4. QED
    BY <2>1, <2>3
<1> DEFINE S == {n \in Nat : GoodLink(h, c[n])}
<1>7. 0 \in S
  BY <1>5, PresentLink
<1>8. ASSUME NEW n \in 0 .. MaxRefs, n # MaxRefs, n \in S PROVE n + 1 \in S
  BY <1>3, <1>6, <1>8, PursueLink
<1>9. MaxRefs \in S
  <2> HIDE DEF S
  <2>1. QED
    BY <1>3, <1>7, <1>8, UpTo
<1>10. QED
  BY <1>2, <1>9

Sought(name) ==
    CHOOSE look : look = [g \in 0 .. Len(frame) |->
        IF g = 0 THEN 0
        ELSE IF name \in DOMAIN frame[g].context THEN frame[g].context[name]
        ELSE look[frame[g].parent]]

LEMMA LookDef ==
    ASSUME GoodFrames(value, frame, Len(process)), NEW name, NEW look, look = Sought(name)
    PROVE  look = [g \in 0 .. Len(frame) |->
               IF g = 0 THEN 0
               ELSE IF name \in DOMAIN frame[g].context THEN frame[g].context[name]
               ELSE look[frame[g].parent]]
<1> DEFINE Seek(l, g) ==
        IF g = 0 THEN 0
        ELSE IF name \in DOMAIN frame[g].context THEN frame[g].context[name]
        ELSE l[frame[g].parent]
    S == {n \in Nat : \E l : l = [g \in 0 .. n |-> Seek(l, g)]}
<1>1. Len(frame) \in Nat /\ \A g \in 1 .. Len(frame) : frame[g].parent \in 0 .. g - 1
  BY SequenceDomain DEF GoodFrames, GoodFrame
<1>2. 0 \in S
  <2>1. PICK l : l = [g \in 0 .. 0 |-> 0]
    OBVIOUS
  <2>2. l = [g \in 0 .. 0 |-> Seek(l, g)]
    BY <2>1
  <2>3. QED
    BY <2>2
<1>3. ASSUME NEW n \in 0 .. Len(frame), n # Len(frame), n \in S PROVE n + 1 \in S
  <2>1. PICK l : l = [g \in 0 .. n |-> Seek(l, g)]
    BY <1>3
  <2>2. PICK d : d = [g \in 0 .. n + 1 |-> IF g = n + 1 THEN Seek(l, g) ELSE l[g]]
    OBVIOUS
  <2>3. \A g \in 0 .. n : d[g] = l[g]
    BY <2>2
  <2>4. ASSUME NEW g \in 0 .. n + 1 PROVE d[g] = Seek(d, g)
    <3>1. CASE g = 0
      BY <2>1, <2>2, <3>1
    <3>2. CASE g # 0
      <4>1. g \in 1 .. Len(frame)
        BY <1>1, <1>3, <3>2
      <4>2. frame[g].parent \in 0 .. n /\ frame[g].parent \in 0 .. g - 1
        BY <1>1, <1>3, <4>1
      <4>3. d[frame[g].parent] = l[frame[g].parent]
        BY <2>3, <4>2
      <4>4. d[g] = Seek(l, g)
        BY <2>1, <2>2
      <4>5. QED
        BY <4>3, <4>4
    <3>3. QED
      BY <3>1, <3>2
  <2>5. d = [g \in 0 .. n + 1 |-> Seek(d, g)]
    BY <2>2, <2>4
  <2>6. QED
    BY <2>5
<1>4. Len(frame) \in S
  <2> HIDE DEF S
  <2>1. PICK m \in Nat : m = Len(frame)
    BY <1>1
  <2>2. \A n \in 0 .. m : n # m /\ n \in S => n + 1 \in S
    BY <1>3, <2>1
  <2>3. \A n \in 0 .. m : n \in S
    BY <1>2, <2>2, UpTo
  <2>4. m \in S
    BY <2>3
  <2>5. QED
    BY <2>1, <2>4
<1>5. \E l : l = [g \in 0 .. Len(frame) |-> Seek(l, g)]
  BY <1>4
<1>6. QED
  BY <1>5, Zenon DEF Sought

(* A context variable is found where a frame has it.                       *)
LEMMA ContextFound ==
    ASSUME GoodFrames(value, frame, Len(process)), NEW name, NEW f \in DOMAIN frame,
           get_context(f, name) # 0
    PROVE  \E g \in DOMAIN frame : name \in DOMAIN frame[g].context /\ get_context(f, name) = frame[g].context[name]
<1>1. PICK look : look = Sought(name)
  OBVIOUS
<1>2. look = [g \in 0 .. Len(frame) |->
               IF g = 0 THEN 0
               ELSE IF name \in DOMAIN frame[g].context THEN frame[g].context[name]
               ELSE look[frame[g].parent]]
  BY <1>1, LookDef
<1>3. get_context(f, name) = look[f]
  BY <1>1, Zenon DEF get_context, Sought
<1>4. /\ Len(frame) \in Nat /\ DOMAIN frame = 1 .. Len(frame)
      /\ \A g \in 1 .. Len(frame) : frame[g].parent \in 0 .. g - 1
  BY SequenceDomain DEF GoodFrames, GoodFrame
<1> DEFINE S == {g \in 0 .. Len(frame) : look[g] = look[f]}
<1>5. f \in S
  BY <1>4
<1>6. S \in SUBSET Nat
  BY <1>4
<1>7. PICK g \in S : \A k \in S : g <= k
  <2> HIDE DEF S
  <2>1. QED
    BY <1>5, <1>6, Least
<1>8. g \in 0 .. Len(frame) /\ look[g] = look[f] /\ look[g] # 0
  BY <1>3, <1>7
<1>9. g # 0
  BY <1>2, <1>4, <1>8
<1>10. g \in 1 .. Len(frame) /\ g \in DOMAIN frame
  BY <1>4, <1>8, <1>9
<1>11. look[g] = IF name \in DOMAIN frame[g].context THEN frame[g].context[name] ELSE look[frame[g].parent]
  <2>1. PICK l : l = look
    OBVIOUS
  <2>2. look = [h \in 0 .. Len(frame) |->
               IF h = 0 THEN 0
               ELSE IF name \in DOMAIN frame[h].context THEN frame[h].context[name]
               ELSE l[frame[h].parent]]
    BY <1>2, <2>1
  <2>3. look[g] = IF name \in DOMAIN frame[g].context THEN frame[g].context[name] ELSE l[frame[g].parent]
    BY <1>8, <1>9, <2>2
  <2>4. QED
    BY <2>1, <2>3
<1>12. CASE name \in DOMAIN frame[g].context
  BY <1>3, <1>8, <1>10, <1>11, <1>12
<1>13. CASE name \notin DOMAIN frame[g].context
  <2>1. look[frame[g].parent] = look[g]
    BY <1>11, <1>13
  <2>2. frame[g].parent \in 0 .. Len(frame) /\ ~(g <= frame[g].parent)
    BY <1>4, <1>10
  <2>3. frame[g].parent \in S
    BY <1>8, <2>1, <2>2
  <2>4. QED
    BY <1>7, <2>2, <2>3
<1>14. QED
  BY <1>12, <1>13

LEMMA GetContext ==
    ASSUME GoodFrames(value, frame, Len(process)), NEW name, NEW f \in DOMAIN frame,
           get_context(f, name) # 0
    PROVE  HasPlace(value, <<get_context(f, name), 0, 0>>)
<1>1. PICK g \in DOMAIN frame :
         name \in DOMAIN frame[g].context /\ get_context(f, name) = frame[g].context[name]
  BY ContextFound
<1>2. GoodFrame(value, frame, Len(process), g)
  BY DEF GoodFrames
<1>3. QED
  BY <1>1, <1>2 DEF GoodFrame

-----------------------------------------------------------------------------
(***************************************************************************)
(* What an instruction finds is there.                                     *)
(***************************************************************************)
LEMMA CallOfFrame ==
    ASSUME Inv, NEW f \in DOMAIN frame
    PROVE  /\ function_call(f) = CallOf(frame, f)
           /\ function_call(f) \in DOMAIN frame /\ frame[function_call(f)].type = "call"
           /\ GoodCall(value, frame[function_call(f)])
           /\ frame[f].pc \in DOMAIN Function[frame[function_call(f)].func].code
           /\ Instruction(f) = Function[frame[function_call(f)].func].code[frame[f].pc]
<1>1. GoodFrame(value, frame, Len(process), f)
  BY DEF Inv, GoodFrames
<1>2. function_call(f) = CallOf(frame, f)
  BY DEF function_call, CallOf
<1>3. function_call(f) \in DOMAIN frame /\ frame[function_call(f)].type = "call"
  BY <1>1 DEF GoodFrame, function_call
<1>4. GoodFrame(value, frame, Len(process), function_call(f))
  BY <1>3 DEF Inv, GoodFrames
<1>5. GoodCall(value, frame[function_call(f)])
  BY <1>3, <1>4 DEF GoodFrame
<1>6. frame[f].pc \in DOMAIN Function[frame[function_call(f)].func].code
  BY <1>1, <1>2 DEF GoodFrame, CodeOf
<1>7. QED
  BY <1>2, <1>3, <1>5, <1>6 DEF Instruction

LEMMA OnWorker ==
    ASSUME Inv, NEW f \in DOMAIN frame
    PROVE  frame[f].proc \in DOMAIN process /\ on(f) \in 0 .. NumWorkers
<1>1. frame[f].proc \in 1 .. Len(process)
  BY DEF Inv, GoodFrames, GoodFrame
<1>2. DOMAIN process = 1 .. Len(process) /\ \A p \in DOMAIN process : process[p].worker \in 0 .. NumWorkers
  BY SequenceDomain DEF Inv, GoodProcesses, GoodProcess
<1>3. QED
  BY <1>1, <1>2 DEF on, proc

LEMMA RunsOn == ASSUME Inv, NEW f \in DOMAIN frame, Runs(f) PROVE on(f) \in Worker
BY OnWorker, BoundsAssumption DEF Runs, Worker

LEMMA OwnRegister ==
    ASSUME Inv, NEW f \in DOMAIN frame, NEW k \in 0 .. regtotal(frame[function_call(f)].func) - 1
    PROVE  HasPlace(value, Register(f, k)) /\ Alive(value, Register(f, k))
<1>1. PICK c : c = frame[function_call(f)]
  OBVIOUS
<1>2. GoodCall(value, c) /\ Shaped(value)
  BY <1>1, CallOfFrame DEF Inv, GoodHeap
<1>3. /\ c.func \in DOMAIN Function /\ c.value \in DOMAIN value
      /\ regtotal(c.func) \in Nat /\ regtotal(c.func) <= Len(value[c.value].regs)
  BY <1>2, RegTotal DEF GoodCall
<1>4. /\ Len(value[c.value].regs) \in Nat /\ DOMAIN value[c.value].regs = 1 .. Len(value[c.value].regs)
      /\ value[c.value].moves \in Nat
  BY <1>2, <1>3, RegisterDomain
<1>5. k + 1 \in DOMAIN value[c.value].regs /\ k \in Nat
  BY <1>1, <1>3, <1>4
<1>6. Register(f, k) = <<c.value, k, value[c.value].moves>>
  BY <1>1 DEF Register, There
<1>7. QED
  BY <1>3, <1>4, <1>5, <1>6 DEF HasPlace, Alive

LEMMA PartFound ==
    ASSUME Inv, NEW x, GoodValue(value, x), NEW j \in Nat, NEW missing \in {"null", "undefined", "register404"}
    PROVE  GoodFound(value, Part(x, j, missing))
<1>1. CASE x[1] \in NullData
  BY <1>1 DEF Part, Stopped, GoodFound
<1>2. CASE x[1] \notin NullData /\ ~IsIndex(x)
  BY <1>2 DEF Part, Stopped, GoodFound
<1>3. CASE x[1] \notin NullData /\ IsIndex(x) /\ j >= Len(value[x[2]].regs)
  BY <1>3 DEF Part, Stopped, GoodFound
<1>4. CASE x[1] \notin NullData /\ IsIndex(x) /\ ~(j >= Len(value[x[2]].regs))
  <2>1. Part(x, j, missing) = Found(<<x[2], j, value[x[2]].moves>>)
    BY <1>4 DEF Part, There
  <2>2. x[2] \in DOMAIN value /\ Shaped(value)
    BY <1>4 DEF GoodValue, Inv, GoodHeap
  <2>3. j + 1 \in DOMAIN value[x[2]].regs /\ value[x[2]].moves \in Nat
    BY <1>4, <2>2, RegisterDomain
  <2>4. QED
    BY <2>1, <2>2, <2>3 DEF Found, GoodFound, HasPlace
<1>5. QED
  BY <1>1, <1>2, <1>3, <1>4

LEMMA ResultFound ==
    ASSUME Inv, NEW f \in DOMAIN frame
    PROVE  /\ GoodFound(value, Result(f)) /\ Result(f).stop \in {"none", "null", "dangling"}
           /\ Result(f).stop = "none" => Result(f).place = frame[function_call(f)].result
<1>1. PICK p : p = frame[function_call(f)].result
  OBVIOUS
<1>2. p # NoPlace => HasPlace(value, p)
  BY <1>1, CallOfFrame DEF GoodCall
<1>3. CASE p = NoPlace
  <2>1. Result(f) = Stopped("null", NoPlace)
    BY <1>1, <1>3 DEF Result
  <2>2. QED
    BY <2>1 DEF Stopped, GoodFound
<1>4. CASE p # NoPlace
  <2>1. Result(f) = Present(value, p)
    BY <1>1, <1>4 DEF Result
  <2>2. QED
    BY <1>1, <1>2, <1>4, <2>1 DEF Present, Found, Stopped, GoodFound
<1>5. QED
  BY <1>3, <1>4

(* The drains and the constant.                                            *)
LEMMA ConstantFound ==
    ASSUME Inv, NEW f \in DOMAIN frame, NEW mode
    PROVE  GoodFound(value, constant(f, mode))
<1>1. /\ 1 \in DOMAIN value /\ NumWorkers + 1 <= Len(value[1].regs) /\ Shaped(value)
      /\ CONST_REGISTER \in DOMAIN value /\ 1 \in DOMAIN value[CONST_REGISTER].regs
      /\ on(f) \in 0 .. NumWorkers
  BY OnWorker DEF Inv, GoodHeap
<1>2. NumWorkers \in Nat /\ on(f) + 1 \in DOMAIN value[1].regs /\ value[1].moves \in Nat
      /\ value[CONST_REGISTER].moves \in Nat
  BY <1>1, RegisterDomain, BoundsAssumption
<1>3. HasPlace(value, <<1, on(f), 0>>) /\ HasPlace(value, <<CONST_REGISTER, 0, 0>>)
  BY <1>1, <1>2 DEF HasPlace
<1>4. CASE mode \in {"read", "src"}
  BY <1>3, <1>4 DEF constant, Constant, Found, GoodFound
<1>5. CASE mode = "failed"
  BY <1>5 DEF constant, Stopped, GoodFound
<1>6. CASE mode \notin {"read", "src", "failed"}
  BY <1>3, <1>6 DEF constant, Drain, Found, GoodFound
<1>7. QED
  BY <1>4, <1>5, <1>6

LEMMA FollowedFound ==
    ASSUME Inv, NEW found, GoodFound(value, found)
    PROVE  GoodFound(value, Followed(found)) /\ (found.stop # "promise" => Followed(found).stop # "promise")
<1>1. CASE found.stop = "none"
  <2>1. GoodLink(value, follow_ref(value, found.place))
    BY <1>1, FollowRef DEF GoodFound, Inv
  <2>2. QED
    BY <1>1, <2>1 DEF Followed, GoodLink, GoodFound
<1>2. CASE found.stop # "none"
  BY <1>2 DEF Followed
<1>3. QED
  BY <1>1, <1>2

LEMMA ReadableFound ==
    ASSUME NEW found, GoodFound(value, found), NEW mode \in {"read", "failed", "write"}
    PROVE  GoodFound(value, Readable(mode, found)) /\ GoodFound(value, readable_value(found))
<1>1. \A type : \A why \in {"promise", "failure"} : \A g :
         GoodFound(value, g) => GoodFound(value, StopsAt(type, why, g))
  BY DEF GoodFound, StopsAt, Stopped
<1>2. GoodFound(value, readable_failed_value(found))
  BY <1>1 DEF readable_failed_value
<1>3. GoodFound(value, readable_value(found))
  BY <1>1, <1>2 DEF readable_value
<1>4. CASE mode = "read"
  BY <1>3, <1>4 DEF Readable
<1>5. CASE mode = "failed"
  BY <1>2, <1>3, <1>5 DEF Readable
<1>6. CASE mode = "write"
  BY <1>3, <1>6 DEF Readable
<1>7. QED
  BY <1>4, <1>5, <1>6

LEMMA PrimaryFound ==
    ASSUME Inv, NEW f \in DOMAIN frame, NEW r, Named(frame[function_call(f)].func, r),
           NEW prim, prim = Primary(f, r)
    PROVE  /\ r[1] \in {"reg", "sub", "result", "void"}
           /\ r[1] = "result" => r = result
           /\ r[1] = "void" => r = void
           /\ r[1] = "sub" => r[3] \in Nat
           /\ r = void => r[1] \notin {"reg", "sub"}
           /\ r = result => r[1] \notin {"reg", "sub"}
           /\ r[1] \in {"reg", "sub"} => HasPlace(value, prim) /\ GoodValue(value, At(prim))
<1>1. ASSUME r[1] \in {"reg", "sub"} PROVE HasPlace(value, prim) /\ GoodValue(value, At(prim))
  <2>1. r \notin {result, void}
    BY <1>1 DEF result, void
  <2>2. prim = Register(f, r[2]) /\ r[2] \in 0 .. regtotal(frame[function_call(f)].func) - 1
    BY <1>1, <2>1 DEF Primary, Named
  <2>3. HasPlace(value, prim)
    BY <2>2, OwnRegister
  <2>4. QED
    BY <2>3, PlaceValue DEF At, Inv
<1>2. QED
  BY <1>1 DEF Named, result, void

(* Before references are followed: nothing is known to be promised here.   *)
LEMMA DirectFound ==
    ASSUME Inv, NEW f \in DOMAIN frame, NEW r, Named(frame[function_call(f)].func, r),
           r[1] \in {"reg", "sub"}, NEW prim, prim = Primary(f, r)
    PROVE  GoodFound(value, Direct(r, prim)) /\ Direct(r, prim).stop # "promise"
<1>1. HasPlace(value, prim) /\ GoodValue(value, At(prim)) /\ (r[1] = "sub" => r[3] \in Nat)
  BY PrimaryFound
<1>2. CASE r[1] = "reg"
  BY <1>1, <1>2 DEF Direct, Found, GoodFound
<1>3. CASE r[1] = "sub" /\ At(prim)[1] = "Failure"
  BY <1>1, <1>3 DEF Direct, Stopped, GoodFound
<1>4. CASE r[1] = "sub" /\ At(prim)[1] # "Failure"
  <2>1. Direct(r, prim) = Part(At(prim), r[3], "register404")
    BY <1>4 DEF Direct
  <2>2. Part(At(prim), r[3], "register404").stop # "promise"
    BY DEF Part, Found, Stopped
  <2>3. QED
    BY <1>1, <1>4, <2>1, <2>2, PartFound
<1>5. QED
  BY <1>2, <1>3, <1>4

LEMMA ReadRegFound ==
    ASSUME Inv, NEW f \in DOMAIN frame, NEW r, Named(frame[function_call(f)].func, r),
           NEW prim, prim = Primary(f, r)
    PROVE  GoodFound(value, read_reg(f, r, prim)) /\ read_reg(f, r, prim).stop # "promise"
<1>1. CASE r[1] = "reg"
  BY <1>1, PrimaryFound DEF read_reg, Found, GoodFound
<1>2. CASE r[1] = "sub"
  <2>1. r[3] \in Nat /\ GoodFound(value, Found(prim))
    BY <1>2, PrimaryFound DEF Found, GoodFound
  <2>2. PICK owner : owner = readable_value(Followed(Found(prim)))
    OBVIOUS
  <2>3. GoodFound(value, owner)
    BY <2>1, <2>2, FollowedFound, ReadableFound
  <2>4. GoodFound(value, Within(owner, r[3])) /\ Within(owner, r[3]).stop # "promise"
    <3>1. CASE owner.stop = "none"
      <4>1. GoodValue(value, At(owner.place))
        BY <2>3, <3>1, PlaceValue DEF GoodFound, At, Inv
      <4>2. Within(owner, r[3]) = Part(At(owner.place), r[3], "null")
        BY <3>1 DEF Within
      <4>3. Part(At(owner.place), r[3], "null").stop # "promise"
        BY DEF Part, Found, Stopped
      <4>4. QED
        BY <2>1, <4>1, <4>2, <4>3, PartFound
    <3>2. CASE owner.stop # "none"
      BY <2>3, <3>2 DEF Within, GoodFound, Stopped
    <3>3. QED
      BY <3>1, <3>2
  <2>5. QED
    BY <1>2, <2>2, <2>4 DEF read_reg, secondary_reg
<1>3. CASE r[1] \notin {"reg", "sub"}
  <2>1. read_reg(f, r, prim) = Result(f)
    BY <1>3 DEF read_reg
  <2>2. QED
    BY <2>1, ResultFound
<1>4. QED
  BY <1>1, <1>2, <1>3

Modes == {"failed", "ref", "appended", "src", "dst", "read", "write"}
LEMMA LookupFound ==
    ASSUME Inv, NEW f \in DOMAIN frame, NEW r, Named(frame[function_call(f)].func, r), NEW mode \in Modes
    PROVE  /\ GoodFound(value, Lookup(f, r, mode, Primary(f, r)))
           /\ mode \in {"dst", "write"} => Lookup(f, r, mode, Primary(f, r)).stop # "promise"
<1>1. PICK prim : prim = Primary(f, r)
  OBVIOUS
<1>3. /\ r[1] \in {"reg", "sub", "result", "void"}
      /\ r[1] = "result" => r = result
      /\ r[1] = "void" => r = void
      /\ r[1] = "sub" => r[3] \in Nat
      /\ r[1] \in {"reg", "sub"} => HasPlace(value, prim) /\ GoodValue(value, At(prim))
  BY <1>1, PrimaryFound
<1>4. CASE mode = "ref"
  <2>1. GoodFound(value, refvalue(r, prim))
    <3>1. CASE r[1] = "reg"
      BY <1>3, <3>1 DEF refvalue, Found, GoodFound
    <3>2. CASE r[1] = "sub"
      BY <1>3, <3>2, PartFound DEF refvalue
    <3>3. CASE r[1] \notin {"reg", "sub"}
      BY <3>3 DEF refvalue, Stopped, GoodFound
    <3>4. QED
      BY <3>1, <3>2, <3>3
  <2>2. QED
    BY <1>1, <1>4, <2>1 DEF Lookup
<1>5. CASE mode # "ref" /\ r = void
  <2>1. Lookup(f, r, mode, prim) = constant(f, mode)
    BY <1>5 DEF Lookup
  <2>2. mode \in {"dst", "write"} => constant(f, mode).stop # "promise"
    BY DEF constant, Drain, Found
  <2>3. QED
    BY <1>1, <2>1, <2>2, ConstantFound
<1>6. CASE mode # "ref" /\ r # void /\ mode = "appended" /\ returns_failure(r, prim)
  <2>1. Lookup(f, r, mode, prim) = Stopped("failure", prim) /\ r[1] = "reg"
    BY <1>6 DEF Lookup, returns_failure
  <2>2. QED
    BY <1>1, <1>3, <2>1 DEF Stopped, GoodFound
<1>7. CASE mode \in {"src", "dst", "appended"} /\ r # void /\ ~(mode = "appended" /\ returns_failure(r, prim))
  <2>1. Lookup(f, r, mode, prim) = dstvalue(f, r, prim)
    BY <1>7 DEF Lookup
  <2>2. CASE r = result
    <3>1. dstvalue(f, r, prim) = Result(f)
      BY <2>2 DEF dstvalue
    <3>2. QED
      BY <1>1, <2>1, <3>1, ResultFound
  <2>3. CASE r # result
    <3>1. dstvalue(f, r, prim) = Followed(Direct(r, prim)) /\ r[1] \in {"reg", "sub"}
      BY <1>3, <1>7, <2>3 DEF dstvalue
    <3>2. QED
      BY <1>1, <2>1, <3>1, DirectFound, FollowedFound
  <2>4. QED
    BY <2>2, <2>3
<1>8. CASE mode \in {"read", "failed", "write"} /\ r # void
  <2>1. PICK looked : looked = read_reg(f, r, prim)
    OBVIOUS
  <2>2. Lookup(f, r, mode, prim) = Readable(mode, Followed(looked))
    BY <1>8, <2>1 DEF Lookup
  <2>3. GoodFound(value, looked) /\ looked.stop # "promise"
    BY <1>1, <2>1, ReadRegFound
  <2>4. GoodFound(value, Followed(looked)) /\ Followed(looked).stop # "promise"
    BY <2>3, FollowedFound
  <2>5. mode \in {"dst", "write"} => Readable(mode, Followed(looked)) = Followed(looked)
    BY <1>8 DEF Readable
  <2>6. QED
    BY <1>1, <1>8, <2>2, <2>4, <2>5, ReadableFound
<1>9. QED
  BY <1>1, <1>4, <1>5, <1>6, <1>7, <1>8 DEF Modes

LEMMA ModeOf == \A op, name : Mode(op, name) \in Modes
BY DEF Mode, Modes

LEMMA CodeNames ==
    ASSUME Inv, NEW f \in DOMAIN frame, NEW i, i = Instruction(f), NEW name \in Range(Operands(i.op))
    PROVE  Named(frame[function_call(f)].func, i[name])
<1>1. PICK n : n = frame[function_call(f)].func
  OBVIOUS
<1>2. n \in DOMAIN Function /\ frame[f].pc \in DOMAIN Function[n].code /\ i = Function[n].code[frame[f].pc]
  BY <1>1, CallOfFrame DEF GoodCall
<1>3. QED
  BY <1>1, <1>2, CodeAssumption

LEMMA LookFound ==
    ASSUME Inv, NEW f \in DOMAIN frame, NEW i, i = Instruction(f), NEW name \in Range(Operands(i.op))
    PROVE  GoodFound(value, Look(f, i, name))
BY CodeNames, LookupFound, ModeOf DEF Look

(* The operands in the order they are looked up.                           *)
LEMMA OperandNumbers == \A op : DOMAIN Operands(op) \subseteq Nat
<1>1. \A a, b, c : DOMAIN <<a, b, c>> \subseteq Nat /\ DOMAIN <<a, b>> \subseteq Nat /\ DOMAIN <<a>> \subseteq Nat
  OBVIOUS
<1>2. DOMAIN <<>> \subseteq Nat
  OBVIOUS
<1>3. QED
  BY <1>1, <1>2 DEF Operands, Arithmetic, Comparison

LEMMA StopsOperand ==
    ASSUME Inv, NEW f \in DOMAIN frame, NEW i, i = Instruction(f), NEW name \in Stops(f, i)
    PROVE  name \in Range(Operands(i.op)) /\ Look(f, i, name).stop # "none" /\ GoodFound(value, Look(f, i, name))
<1>1. PICK k \in Earliest(Stopping(f, i)) : name = Looked(f, i)[k]
  BY DEF Stops
<1>2. k \in DOMAIN Looked(f, i) /\ Look(f, i, name).stop # "none"
  BY <1>1 DEF Earliest, Stopping
<1>3. name \in Range(Operands(i.op))
  BY <1>1, <1>2 DEF Looked, Range
<1>4. QED
  BY <1>2, <1>3, LookFound

(* When nothing stops an instruction, it has found all it looks for.       *)
LEMMA FoundOperand ==
    ASSUME Inv, NEW f \in DOMAIN frame, NEW i, i = Instruction(f), Stops(f, i) = {},
           i.op = "recv" => proc(f).recv # <<>>, NEW name \in Range(Operands(i.op))
    PROVE  /\ Look(f, i, name).stop = "none" /\ HasPlace(value, Target(f, i, name))
           /\ GoodValue(value, Value(f, i, name))
<1>1. Looked(f, i) = Operands(i.op)
  BY DEF Looked
<1>2. PICK k \in DOMAIN Operands(i.op) : name = Operands(i.op)[k]
  BY DEF Range
<1>3. Stopping(f, i) = {}
  <2>1. Stopping(f, i) \in SUBSET Nat
    BY <1>1, OperandNumbers DEF Stopping
  <2>2. Stopping(f, i) # {} => Earliest(Stopping(f, i)) # {}
    BY <2>1, Least DEF Earliest
  <2>3. QED
    BY <2>2 DEF Stops
<1>4. Look(f, i, name).stop = "none"
  BY <1>1, <1>2, <1>3 DEF Stopping
<1>5. HasPlace(value, Target(f, i, name))
  BY <1>4, LookFound DEF GoodFound, Target
<1>6. QED
  BY <1>4, <1>5, PlaceValue DEF Value, At, Inv

-----------------------------------------------------------------------------
(***************************************************************************)
(* Frames, and the other parts of the invariant, when the heap grows.      *)
(***************************************************************************)
Like(a, b) ==
    /\ DOMAIN b = Fields /\ b.cfstate \in States
    /\ b.type = a.type /\ b.parent = a.parent /\ b.proc = a.proc /\ b.value = a.value
    /\ b.func = a.func /\ b.result = a.result /\ b.call = a.call
    /\ b.promised = a.promised /\ b.context = a.context

(* Frames go on to another instruction or change their state.              *)
Moved(fr, to) ==
    /\ IsSequence(to) /\ Len(to) = Len(fr)
    /\ \A g \in DOMAIN fr : Like(fr[g], to[g]) /\ to[g].pc \in DOMAIN CodeOf(fr, g)

LEMMA CallGrows ==
    ASSUME NEW h, NEW k, Shaped(h), Shaped(k), Grows(h, k), NEW c, GoodCall(h, c),
           NEW d, d.func = c.func, d.value = c.value, d.result = c.result
    PROVE  GoodCall(k, d)
<1>1. c.func \in DOMAIN Function /\ c.value \in DOMAIN h /\ regtotal(c.func) <= Len(h[c.value].regs)
  BY DEF GoodCall
<1>2. c.value \in DOMAIN k /\ Len(h[c.value].regs) <= Len(k[c.value].regs)
  BY <1>1 DEF Grows, Grown
<1>3. regtotal(c.func) <= Len(k[c.value].regs)
  <2>1. regtotal(c.func) \in Nat /\ Len(h[c.value].regs) \in Nat /\ Len(k[c.value].regs) \in Nat
    BY <1>1, <1>2, RegTotal, RegisterDomain
  <2>2. QED
    BY <1>1, <1>2, <2>1
<1>4. c.result # NoPlace => HasPlace(k, c.result)
  BY PlaceGrows DEF GoodCall
<1>5. QED
  BY <1>1, <1>2, <1>3, <1>4 DEF GoodCall

LEMMA MovedFrames ==
    ASSUME NEW h, NEW k, Shaped(h), Shaped(k), Grows(h, k), NEW n \in Nat, NEW m \in Nat, n <= m,
           NEW fr, GoodFrames(h, fr, n), NEW to, Moved(fr, to)
    PROVE  GoodFrames(k, to, m) /\ DOMAIN to = DOMAIN fr
<1>1. /\ IsSequence(fr) /\ Len(fr) <= MaxFrames /\ IsSequence(to) /\ Len(to) = Len(fr)
      /\ \A g \in DOMAIN fr : Like(fr[g], to[g]) /\ to[g].pc \in DOMAIN CodeOf(fr, g)
  BY DEF GoodFrames, Moved
<1>2. DOMAIN to = DOMAIN fr
  BY <1>1, SequenceDomain
<1>3. ASSUME NEW f \in DOMAIN fr PROVE GoodFrame(k, to, m, f)
  <2>1. GoodFrame(h, fr, n, f) /\ Like(fr[f], to[f])
    BY <1>1 DEF GoodFrames
  <2>2. CallOf(fr, f) = CallOf(to, f) /\ CallOf(fr, f) \in DOMAIN fr
    BY <2>1 DEF GoodFrame, Like, CallOf
  <2>3. CodeOf(to, f) = CodeOf(fr, f)
    BY <1>1, <2>2 DEF CodeOf, Like
  <2>4. to[f].pc \in DOMAIN CodeOf(to, f)
    BY <1>1, <2>3
  <2>5. to[f].type = "call" => GoodCall(k, to[f])
    BY <2>1, CallGrows DEF Like, GoodFrame
  <2>6. to[f].type = "path" =>
           to[f].call \in DOMAIN to /\ to[to[f].call].type = "call" /\ HasPlace(k, to[f].promised)
    BY <1>1, <1>2, <2>1, PlaceGrows DEF Like, GoodFrame
  <2>7. \A name \in DOMAIN to[f].context : HasPlace(k, <<to[f].context[name], 0, 0>>)
    BY <2>1, PlaceGrows DEF Like, GoodFrame
  <2>8. to[f].parent \in 0 .. f - 1 /\ to[f].proc \in 1 .. m /\ to[f].type \in {"call", "path"}
    BY <2>1 DEF Like, GoodFrame
  <2>9. DOMAIN to[f] = Fields /\ to[f].cfstate \in States
    BY <2>1 DEF Like
  <2>10. QED
    BY <2>4, <2>5, <2>6, <2>7, <2>8, <2>9 DEF GoodFrame
<1>4. QED
  BY <1>1, <1>2, <1>3 DEF GoodFrames

LEMMA MoveFrame ==
    ASSUME NEW h, NEW n, NEW fr, GoodFrames(h, fr, n), NEW f \in DOMAIN fr,
           NEW c, Like(fr[f], c), c.pc \in DOMAIN CodeOf(fr, f), NEW to, to = [fr EXCEPT ![f] = c]
    PROVE  Moved(fr, to)
<1>1. IsSequence(fr) /\ \A g \in DOMAIN fr : GoodFrame(h, fr, n, g)
  BY DEF GoodFrames
<1>2. IsSequence(to) /\ Len(to) = Len(fr)
  BY <1>1, ExceptSequence
<1>3. ASSUME NEW g \in DOMAIN fr PROVE Like(fr[g], to[g]) /\ to[g].pc \in DOMAIN CodeOf(fr, g)
  <2>1. CASE g = f
    <3>1. to[g] = c
      BY <2>1
    <3>2. QED
      BY <2>1, <3>1
  <2>2. CASE g # f
    <3>1. to[g] = fr[g]
      BY <2>2
    <3>2. QED
      BY <1>1, <3>1 DEF Like, GoodFrame
  <2>3. QED
    BY <2>1, <2>2
<1>4. QED
  BY <1>2, <1>3 DEF Moved

LEMMA MovedTwice ==
    ASSUME NEW fr, NEW mid, NEW to, IsSequence(fr), Moved(fr, mid), Moved(mid, to),
           \A f \in DOMAIN fr : CallOf(fr, f) \in DOMAIN fr
    PROVE  Moved(fr, to)
<1>1. DOMAIN mid = DOMAIN fr
  BY SequenceDomain DEF Moved
<1>2. ASSUME NEW g \in DOMAIN fr PROVE Like(fr[g], to[g]) /\ to[g].pc \in DOMAIN CodeOf(fr, g)
  <2>1. Like(fr[g], mid[g]) /\ Like(mid[g], to[g]) /\ to[g].pc \in DOMAIN CodeOf(mid, g)
    BY <1>1 DEF Moved
  <2>2. Like(fr[g], to[g])
    BY <2>1 DEF Like
  <2>3. CallOf(mid, g) = CallOf(fr, g) /\ CallOf(fr, g) \in DOMAIN fr
    BY <2>1 DEF CallOf, Like
  <2>4. CodeOf(mid, g) = CodeOf(fr, g)
    BY <2>3 DEF CodeOf, Like, Moved
  <2>5. QED
    BY <2>1, <2>2, <2>4
<1>3. QED
  BY <1>2 DEF Moved

(* A new frame.                                                            *)
LEMMA AppendFrame ==
    ASSUME NEW h, NEW n, NEW fr, GoodFrames(h, fr, n), Len(fr) < MaxFrames,
           NEW c, DOMAIN c = Fields, c.cfstate = "READY", c.context = EmptyContext,
           c.parent \in 0 .. Len(fr), c.proc \in 1 .. n,
           \/ c.type = "call" /\ GoodCall(h, c) /\ c.pc \in DOMAIN Function[c.func].code
           \/ /\ c.type = "path" /\ c.call \in DOMAIN fr /\ fr[c.call].type = "call"
              /\ HasPlace(h, c.promised) /\ c.pc \in DOMAIN Function[fr[c.call].func].code,
           NEW to, to = Append(fr, c)
    PROVE  GoodFrames(h, to, n) /\ DOMAIN to = DOMAIN fr \cup {Len(fr) + 1}
<1>1. IsSequence(fr) /\ Len(fr) \in Nat /\ DOMAIN fr = 1 .. Len(fr) /\ MaxFrames \in Nat
  BY SequenceDomain, BoundsAssumption DEF GoodFrames
<1>2. /\ IsSequence(to) /\ Len(to) = Len(fr) + 1 /\ to[Len(fr) + 1] = c
      /\ \A g \in DOMAIN fr : to[g] = fr[g]
      /\ DOMAIN to = DOMAIN fr \cup {Len(fr) + 1}
  BY <1>1, AppendSequence
<1>3. ASSUME NEW f \in DOMAIN fr PROVE GoodFrame(h, to, n, f)
  <2>1. GoodFrame(h, fr, n, f) /\ to[f] = fr[f]
    BY <1>2 DEF GoodFrames
  <2>2. CallOf(to, f) = CallOf(fr, f) /\ CallOf(fr, f) \in DOMAIN fr
    BY <2>1 DEF GoodFrame, CallOf
  <2>3. CodeOf(to, f) = CodeOf(fr, f)
    BY <1>2, <2>2 DEF CodeOf
  <2>4. to[f].type = "path" =>
           to[f].call \in DOMAIN to /\ to[to[f].call].type = "call" /\ HasPlace(h, to[f].promised)
    BY <1>2, <2>1 DEF GoodFrame
  <2>5. QED
    BY <2>1, <2>3, <2>4 DEF GoodFrame
<1>4. GoodFrame(h, to, n, Len(fr) + 1)
  <2>1. PICK f : f = Len(fr) + 1
    OBVIOUS
  <2>2. to[f] = c /\ c.parent \in 0 .. f - 1
    BY <1>1, <1>2, <2>1
  <2>3. \A name \in DOMAIN c.context : HasPlace(h, <<c.context[name], 0, 0>>)
    BY DEF EmptyContext
  <2>4. CASE c.type = "call" /\ GoodCall(h, c) /\ c.pc \in DOMAIN Function[c.func].code
    <3>1. CodeOf(to, f) = Function[c.func].code
      BY <2>2, <2>4 DEF CodeOf, CallOf
    <3>2. QED
      BY <2>1, <2>2, <2>3, <2>4, <3>1 DEF GoodFrame, States
  <2>5. CASE /\ c.type = "path" /\ c.call \in DOMAIN fr /\ fr[c.call].type = "call"
             /\ HasPlace(h, c.promised) /\ c.pc \in DOMAIN Function[fr[c.call].func].code
    <3>1. c.call \in DOMAIN to /\ to[c.call] = fr[c.call]
      BY <1>2, <2>5
    <3>2. CodeOf(to, f) = Function[fr[c.call].func].code
      BY <2>2, <2>5, <3>1 DEF CodeOf, CallOf
    <3>3. QED
      BY <2>1, <2>2, <2>3, <2>5, <3>1, <3>2 DEF GoodFrame, States
  <2>6. QED
    BY <2>4, <2>5
<1>5. Len(to) <= MaxFrames
  BY <1>1, <1>2
<1>6. QED
  BY <1>2, <1>3, <1>4, <1>5 DEF GoodFrames

LEMMA ProcessesKept ==
    ASSUME NEW h, NEW k, Shaped(h), Shaped(k), Grows(h, k),
           NEW fr, NEW to, DOMAIN fr \subseteq DOMAIN to, NEW ps, GoodProcesses(h, fr, ps)
    PROVE  GoodProcesses(k, to, ps)
<1>1. ASSUME NEW p \in DOMAIN ps PROVE GoodProcess(k, to, ps[p])
  <2>1. GoodProcess(h, fr, ps[p])
    BY DEF GoodProcesses
  <2>2. \A j \in DOMAIN ps[p].recv : HasPlace(k, <<ps[p].recv[j], 0, 0>>)
    BY <2>1, PlaceGrows DEF GoodProcess
  <2>3. QED
    BY <2>1, <2>2 DEF GoodProcess
<1>2. QED
  BY <1>1 DEF GoodProcesses

LEMMA IoKept ==
    ASSUME NEW h, NEW k, Shaped(h), Shaped(k), Grows(h, k),
           NEW fr, NEW to, DOMAIN fr \subseteq DOMAIN to, NEW waiting, GoodIo(h, fr, waiting)
    PROVE  GoodIo(k, to, waiting)
BY PlaceGrows DEF GoodIo

LEMMA QueueKept ==
    ASSUME NEW fr, NEW to, DOMAIN fr \subseteq DOMAIN to, NEW cur, NEW q1, NEW q2, GoodQueue(fr, cur, q1, q2)
    PROVE  GoodQueue(to, cur, q1, q2)
<1>1. \A s \in Seq(DOMAIN fr) : s \in Seq(DOMAIN to)
  BY SeqDef
<1>2. q1 \in [Worker -> Seq(DOMAIN to)] /\ q2 \in [Worker -> Seq(DOMAIN to)]
  BY <1>1 DEF GoodQueue
<1>3. cur \in [Worker -> {None} \cup DOMAIN to]
  BY DEF GoodQueue
<1>4. QED
  BY <1>2, <1>3 DEF GoodQueue

-----------------------------------------------------------------------------
(***************************************************************************)
(* The shapes of step the instructions are made of.                        *)
(***************************************************************************)
LEMMA InvFacts ==
    ASSUME Inv
    PROVE  /\ Shaped(value) /\ Len(process) \in Nat /\ Len(frame) \in Nat
           /\ DOMAIN process = 1 .. Len(process) /\ DOMAIN frame = 1 .. Len(frame)
           /\ IsSequence(process) /\ IsSequence(frame) /\ IsSequence(value) /\ Len(value) \in Nat
           /\ DOMAIN value = 1 .. Len(value)
BY SequenceDomain DEF Inv, GoodHeap, Shaped, GoodFrames, GoodProcesses

(* Most instructions: nothing is queued and no process touched.            *)
LEMMA InstructionStep ==
    ASSUME Inv, NEW f \in DOMAIN frame, GoodHeap(value'), Grows(value, value'), Moved(frame, frame'),
           Turned(f), UNCHANGED <<process, queue, io>>,
           known' \in [Worker -> SUBSET Module], broken' \in Ends
    PROVE  Inv'
<1>1. Shaped(value) /\ Shaped(value') /\ Len(process) \in Nat
  BY InvFacts DEF GoodHeap
<1>2. GoodFrames(value', frame', Len(process)) /\ DOMAIN frame' = DOMAIN frame
  BY <1>1, MovedFrames DEF Inv
<1>3. GoodProcesses(value', frame', process)
  BY <1>1, <1>2, ProcessesKept DEF Inv
<1>4. GoodIo(value', frame', io)
  BY <1>1, <1>2, IoKept DEF Inv
<1>5. GoodQueue(frame', current, fresh, stale)
  BY <1>2, QueueKept DEF Inv
<1>6. Rest'
  <2>1. at' \in [Worker -> {"fetch", "io", "switch"}]
    BY DEF Inv, Rest, Turned
  <2>2. QED
    BY <2>1 DEF Inv, Rest, Turned
<1>7. process' = process /\ io' = io /\ current' = current /\ fresh' = fresh /\ stale' = stale
  BY DEF queue
<1>8. QED
  BY <1>2, <1>3, <1>4, <1>5, <1>6, <1>7 DEF Inv

LEMMA StateMoved ==
    ASSUME NEW h, NEW n, NEW fr, GoodFrames(h, fr, n), NEW f \in DOMAIN fr, NEW s \in States,
           NEW to, to = [fr EXCEPT ![f].cfstate = s]
    PROVE  Moved(fr, to)
<1>1. PICK c : c = [fr[f] EXCEPT !.cfstate = s]
  OBVIOUS
<1>2. GoodFrame(h, fr, n, f)
  BY DEF GoodFrames
<1>3. Like(fr[f], c) /\ c.pc = fr[f].pc
  BY <1>1, <1>2 DEF GoodFrame, Like, Fields
<1>4. c.pc \in DOMAIN CodeOf(fr, f)
  BY <1>2, <1>3 DEF GoodFrame
<1>5. to = [fr EXCEPT ![f] = c]
  BY <1>1
<1>6. QED
  BY <1>3, <1>4, <1>5, MoveFrame

LEMMA GotoMoved ==
    ASSUME Inv, NEW f \in DOMAIN frame, NEW pc \in DOMAIN CodeOf(frame, f)
    PROVE  Moved(frame, Goto(f, pc))
<1>1. PICK c : c = [frame[f] EXCEPT !.pc = pc]
  OBVIOUS
<1>2. GoodFrames(value, frame, Len(process)) /\ GoodFrame(value, frame, Len(process), f)
  BY DEF Inv, GoodFrames
<1>3. Like(frame[f], c) /\ c.pc = pc
  BY <1>1, <1>2 DEF GoodFrame, Like, Fields
<1>4. Goto(f, pc) = [frame EXCEPT ![f] = c]
  BY <1>1 DEF Goto
<1>5. QED
  BY <1>2, <1>3, <1>4, MoveFrame

LEMMA CodeAt ==
    ASSUME Inv, NEW f \in DOMAIN frame, NEW i, i = Instruction(f), NEW n, n = frame[function_call(f)].func
    PROVE  /\ n \in DOMAIN Function /\ frame[f].pc \in DOMAIN Function[n].code
           /\ i = Function[n].code[frame[f].pc] /\ CodeOf(frame, f) = Function[n].code
BY CallOfFrame DEF GoodCall, CodeOf

LEMMA NextMoved ==
    ASSUME Inv, NEW f \in DOMAIN frame, NEW i, i = Instruction(f), i.op \notin {"return", "goto"}
    PROVE  frame[f].pc + 1 \in DOMAIN CodeOf(frame, f) /\ Moved(frame, Next_pc(f))
<1>1. frame[f].pc + 1 \in DOMAIN CodeOf(frame, f)
  BY CodeAt, CodeAssumption
<1>2. QED
  BY <1>1, GotoMoved DEF Next_pc

LEMMA JumpMoved ==
    ASSUME Inv, NEW f \in DOMAIN frame, NEW i, i = Instruction(f),
           i.op \in {"goto", "fork", "if", "ifnot", "iffail", "ifnotfail", "match", "matchargs"}
    PROVE  Moved(frame, Goto(f, frame[f].pc + i.jump))
<1>1. frame[f].pc + i.jump \in DOMAIN CodeOf(frame, f)
  BY CodeAt, CodeAssumption
<1>2. QED
  BY <1>1, GotoMoved

LEMMA MovedInv ==
    ASSUME Inv, NEW to, Moved(frame, to)
    PROVE  GoodFrames(value, to, Len(process)) /\ DOMAIN to = DOMAIN frame
<1>1. Shaped(value) /\ Len(process) \in Nat /\ Len(process) <= Len(process) /\ Grows(value, value)
  BY InvFacts, GrowsReflexive
<1>2. QED
  BY <1>1, MovedFrames DEF Inv

LEMMA NextStateMoved ==
    ASSUME Inv, NEW f \in DOMAIN frame, NEW i, i = Instruction(f), i.op \notin {"return", "goto"},
           NEW s \in States
    PROVE  Moved(frame, [Next_pc(f) EXCEPT ![f].cfstate = s])
<1>1. PICK mid : mid = Next_pc(f)
  OBVIOUS
<1>2. Moved(frame, mid)
  BY <1>1, NextMoved
<1>3. GoodFrames(value, mid, Len(process)) /\ DOMAIN mid = DOMAIN frame
  BY <1>2, MovedInv
<1>4. PICK to : to = [mid EXCEPT ![f].cfstate = s]
  OBVIOUS
<1>5. Moved(mid, to)
  BY <1>3, <1>4, StateMoved
<1>6. \A g \in DOMAIN frame : CallOf(frame, g) \in DOMAIN frame
  BY CallOfFrame
<1>7. Moved(frame, to)
  BY <1>2, <1>5, <1>6, InvFacts, MovedTwice
<1>8. QED
  BY <1>1, <1>4, <1>7

(* The heap changes and the frame goes on.                                 *)
LEMMA BecomesStep ==
    ASSUME Inv, NEW f \in DOMAIN frame, NEW i, i = Instruction(f), i.op \notin {"return", "goto"},
           NEW heap, GoodHeap(heap), Grows(value, heap), Becomes(f, heap)
    PROVE  Inv'
<1>1. value' = heap /\ frame' = Next_pc(f) /\ Executed(f) /\ UNCHANGED <<queue, io, known>>
  BY DEF Becomes
<1>2. Moved(frame, frame')
  BY <1>1, NextMoved
<1>3. known' \in [Worker -> SUBSET Module] /\ broken' \in Ends
  BY <1>1 DEF Executed, Inv, Rest
<1>4. GoodHeap(value') /\ Grows(value, value')
  BY <1>1
<1>5. QED
  BY <1>1, <1>2, <1>3, <1>4, InstructionStep DEF Executed

LEMMA WriteStep ==
    ASSUME Inv, NEW f \in DOMAIN frame, NEW i, i = Instruction(f), i.op \notin {"return", "goto"},
           NEW place, NEW x, GoodValue(value, x), Write(f, place, x)
    PROVE  Inv'
<1>1. PICK a, b : a = place[1] /\ b = place[2] + 1
  OBVIOUS
<1>2. PICK heap : heap = Set(value, a, b, x)
  OBVIOUS
<1>3. Becomes(f, heap)
  BY <1>1, <1>2 DEF Write, Put, Set
<1>4. GoodHeap(heap) /\ Grows(value, heap)
  BY <1>2, PutHeap DEF Inv
<1>5. QED
  BY <1>3, <1>4, BecomesStep

(* What the modules are that find_module() remembers.                      *)
LEMMA FindsModules ==
    ASSUME Inv, NEW f \in DOMAIN frame, NEW i, i = Instruction(f)
    PROVE  /\ Finds(i) \subseteq Module
           /\ [known EXCEPT ![on(f)] = @ \cup Finds(i)] \in [Worker -> SUBSET Module]
<1>1. CASE i.op = "lfunc"
  <2>1. i.func \in DOMAIN Function
    BY <1>1, CodeAt, CodeAssumption DEF Loadable
  <2>2. QED
    BY <1>1, <2>1 DEF Finds, Module, Inv, Rest
<1>2. CASE i.op = "lconstruct"
  <2>1. Construct[i.cons].module \in Module
    BY <1>2, CodeAt, CodeAssumption, ConstructAssumption
  <2>2. QED
    BY <1>2, <2>1 DEF Finds, Inv, Rest
<1>3. CASE i.op \notin {"lfunc", "lconstruct"}
  BY <1>3 DEF Finds, Inv, Rest
<1>4. QED
  BY <1>1, <1>2, <1>3

LEMMA WriteNewStep ==
    ASSUME Inv, NEW f \in DOMAIN frame, NEW i, i = Instruction(f), i.op \notin {"return", "goto"},
           NEW place, HasPlace(value, place), NEW o, Blank(o), NEW x, GoodValue(Append(value, o), x),
           WriteNew(f, i, place, x, o)
    PROVE  Inv'
<1>1. PICK a, b : a = place[1] /\ b = place[2] + 1
  OBVIOUS
<1>2. PICK e : e = Set(value, a, b, x)
  OBVIOUS
<1>3. value' = Append(e, o)
  BY <1>1, <1>2 DEF WriteNew, Put, Set
<1>4. a \in DOMAIN value /\ GoodHeap(value)
  BY <1>1 DEF HasPlace, Inv
<1>5. GoodHeap(value') /\ Grows(value, value')
  BY <1>2, <1>3, <1>4, PutAppendHeap
<1>6. Moved(frame, frame')
  BY NextMoved DEF WriteNew
<1>7. broken' \in Ends /\ known' \in [Worker -> SUBSET Module]
  BY FindsModules DEF WriteNew, Executed, Inv, Rest
<1>8. QED
  BY <1>5, <1>6, <1>7, InstructionStep DEF WriteNew, Executed

(* The function call has failed, or its result is NULL or dangles.         *)
LEMMA FailStep ==
    ASSUME Inv, NEW f \in DOMAIN frame, Moved(frame, frame'), NEW x, GoodValue(value, x), Fail(f, x),
           UNCHANGED <<queue, io>>, known' \in [Worker -> SUBSET Module]
    PROVE  Inv'
<1>1. GoodHeap(value) /\ Grows(value, value)
  BY InvFacts, GrowsReflexive DEF Inv
<1>2. Result(f).stop \in {"none", "null", "dangling"}
  BY ResultFound
<1>3. GoodHeap(value') /\ Grows(value, value')
  <2>1. CASE value' = value
    BY <1>1, <2>1
  <2>2. CASE value' = Put(Result(f).place, x)
    <3>1. PICK a, b : a = Result(f).place[1] /\ b = Result(f).place[2] + 1
      OBVIOUS
    <3>2. value' = Set(value, a, b, x)
      BY <2>2, <3>1 DEF Put, Set
    <3>3. QED
      BY <1>1, <3>2, PutHeap
  <2>3. QED
    BY <2>1, <2>2 DEF Fail
<1>4. broken' \in Ends
  BY <1>2 DEF Fail, Inv, Rest, Ends
<1>5. Turned(f) /\ UNCHANGED <<process, queue, io>>
  BY DEF Fail
<1>6. QED
  BY <1>3, <1>4, <1>5, InstructionStep

(* The program goes no further.                                            *)
LEMMA BreaksStep ==
    ASSUME Inv, NEW f, NEW how \in Ends, Breaks(f, how)
    PROVE  Inv'
BY DEF Breaks, Inv, Rest, queue

-----------------------------------------------------------------------------
(***************************************************************************)
(* The values instructions make.                                           *)
(***************************************************************************)
LEMMA GoodPlain ==
    ASSUME NEW h
    PROVE  /\ \A n \in Int : GoodValue(h, Num(n))
           /\ \A b \in BOOLEAN : GoodValue(h, Bool(b))
           /\ \A tag : GoodValue(h, Failure(tag)) /\ GoodValue(h, Hashtag(tag))
           /\ GoodValue(h, Promise) /\ GoodValue(h, PatternVar) /\ GoodValue(h, Void)
           /\ \A fd \in 0 .. 2 : GoodValue(h, Stream(fd))
<1>1. \A n \in Int : GoodValue(h, Num(n))
  BY DEF GoodValue, Num, IsIndex, Plain
<1>2. \A b \in BOOLEAN : GoodValue(h, Bool(b))
  BY DEF GoodValue, Bool, IsIndex, Plain
<1>3. \A tag : GoodValue(h, Failure(tag)) /\ GoodValue(h, Hashtag(tag))
  BY DEF GoodValue, Failure, Hashtag, IsIndex, Plain
<1>4. GoodValue(h, Promise) /\ GoodValue(h, PatternVar)
  BY DEF GoodValue, Promise, PatternVar, IsIndex, Plain
<1>5. \A fd \in 0 .. 2 : GoodValue(h, Stream(fd))
  BY DEF GoodValue, Stream, IsIndex, Plain
<1>6. QED
  BY <1>1, <1>2, <1>3, <1>4, <1>5, GoodVoid

LEMMA GoodPointer ==
    ASSUME NEW h
    PROVE  /\ \A p : HasPlace(h, p) => GoodValue(h, Ref(p))
           /\ \A v \in DOMAIN h : GoodValue(h, String(v)) /\ GoodValue(h, Tuple(v))
           /\ \A v \in DOMAIN h : h[v].func # "none" => GoodValue(h, function_value(v))
<1>1. \A p : HasPlace(h, p) => GoodValue(h, Ref(p))
  BY DEF GoodValue, Ref, IsIndex, Plain
<1>2. \A v \in DOMAIN h : GoodValue(h, String(v))
  BY DEF GoodValue, String, IsIndex, Plain
<1>3. \A v \in DOMAIN h : GoodValue(h, Tuple(v))
  BY DEF GoodValue, Tuple, IsIndex, Plain
<1>4. \A v \in DOMAIN h : h[v].func # "none" => GoodValue(h, function_value(v))
  BY DEF GoodValue, function_value, IsIndex, Plain
<1>5. QED
  BY <1>1, <1>2, <1>3, <1>4

LEMMA GoodConstruct ==
    ASSUME NEW h, NEW v \in DOMAIN h, NEW c \in DOMAIN Construct
    PROVE  GoodValue(h, construct(v, c))
<1>1. PICK x : x = construct(v, c)
  OBVIOUS
<1>2. x[1] = Construct[c].type /\ x[2] = v /\ Len(x) = 3
  BY <1>1 DEF construct
<1>3. x[1] \notin Plain \cup {"Ref", "String", "Function", "Tuple"}
  BY <1>2, ConstructAssumption DEF Plain
<1>4. IsIndex(x)
  BY <1>2 DEF IsIndex
<1>5. GoodValue(h, x)
  BY <1>2, <1>3, <1>4 DEF GoodValue, Plain
<1>6. QED
  BY <1>1, <1>5

(* The object that WriteNew makes.                                         *)
LEMMA NewObject ==
    ASSUME Inv, NEW o
    PROVE  /\ Len(value) + 1 \in DOMAIN Append(value, o) /\ Append(value, o)[Len(value) + 1] = o
           /\ GoodValue(Append(value, o), String(Len(value) + 1)) /\ GoodValue(Append(value, o), Tuple(Len(value) + 1))
           /\ o.func # "none" => GoodValue(Append(value, o), function_value(Len(value) + 1))
           /\ \A c \in DOMAIN Construct : GoodValue(Append(value, o), construct(Len(value) + 1, c))
<1>1. PICK k : k = Append(value, o)
  OBVIOUS
<1>2. PICK v : v = Len(value) + 1
  OBVIOUS
<1>3. v \in DOMAIN k /\ k[v] = o
  BY <1>1, <1>2, InvFacts, AppendSequence
<1>4. GoodValue(k, String(v)) /\ GoodValue(k, Tuple(v)) /\ (o.func # "none" => GoodValue(k, function_value(v)))
  BY <1>3, GoodPointer
<1>5. \A c \in DOMAIN Construct : GoodValue(k, construct(v, c))
  BY <1>3, GoodConstruct
<1>6. QED
  BY <1>1, <1>2, <1>3, <1>4, <1>5

-----------------------------------------------------------------------------
(***************************************************************************)
(* One lemma for each instruction.                                         *)
(***************************************************************************)

-----------------------------------------------------------------------------
(***************************************************************************)
(* One lemma for each instruction.                                         *)
(***************************************************************************)
Step(f, i) == Runs(f) /\ i = Instruction(f) /\ Stops(f, i) = {}

LEMMA TupleRange ==
    /\ \A a : Range(<<a>>) = {a}
    /\ \A a, b : Range(<<a, b>>) = {a, b}
    /\ \A a, b, c : Range(<<a, b, c>>) = {a, b, c}
<1>1. \A a : Range(<<a>>) = {a}
  <2>1. ASSUME NEW a PROVE Range(<<a>>) = {a}
    <3>1. PICK s : s = <<a>>
      OBVIOUS
    <3>2. DOMAIN s = {1} /\ s[1] = a
      BY <3>1
    <3>3. Range(s) = {a}
      BY <3>2 DEF Range
    <3>4. QED
      BY <3>1, <3>3
  <2>2. QED
    BY <2>1
<1>2. \A a, b : Range(<<a, b>>) = {a, b}
  <2>1. ASSUME NEW a, NEW b PROVE Range(<<a, b>>) = {a, b}
    <3>1. PICK s : s = <<a, b>>
      OBVIOUS
    <3>2. DOMAIN s = {1, 2} /\ s[1] = a /\ s[2] = b
      BY <3>1
    <3>3. Range(s) = {a, b}
      BY <3>2 DEF Range
    <3>4. QED
      BY <3>1, <3>3
  <2>2. QED
    BY <2>1
<1>3. \A a, b, c : Range(<<a, b, c>>) = {a, b, c}
  <2>1. ASSUME NEW a, NEW b, NEW c PROVE Range(<<a, b, c>>) = {a, b, c}
    <3>1. PICK s : s = <<a, b, c>>
      OBVIOUS
    <3>2. DOMAIN s = {1, 2, 3} /\ s[1] = a /\ s[2] = b /\ s[3] = c
      BY <3>1
    <3>3. Range(s) = {a, b, c}
      BY <3>2 DEF Range
    <3>4. QED
      BY <3>1, <3>3
  <2>2. QED
    BY <2>1
<1>4. QED
  BY <1>1, <1>2, <1>3

Sources == {"ref", "call", "newproc", "match", "copy", "move", "iffail", "ifnotfail", "if", "ifnot",
            "stracc", "fieldget", "fieldset"}
Quiet == {"if", "ifnot", "iffail", "ifnotfail", "goto", "return", "loadobj", "loadtype"}
LEMMA OperandNames ==
    ASSUME NEW op
    PROVE  /\ op \notin Quiet => "dst" \in Range(Operands(op))
           /\ op \in Sources => "src" \in Range(Operands(op))
           /\ op \in Arithmetic \cup Comparison => {"a", "b"} \subseteq Range(Operands(op))
           /\ op \in {"match", "matchargs"} => "pattern" \in Range(Operands(op))
<1>1. CASE op \in Arithmetic \cup Comparison
  <2>1. Range(Operands(op)) = {"a", "b", "dst"}
    BY <1>1, TupleRange DEF Operands, Arithmetic, Comparison
  <2>2. QED
    BY <1>1, <2>1 DEF Arithmetic, Comparison, Sources, Quiet
<1>2. CASE op \in {"copy", "move", "stracc", "fieldget", "fieldset"}
  <2>1. Range(Operands(op)) = {"src", "dst"}
    BY <1>2, TupleRange DEF Operands, Arithmetic, Comparison
  <2>2. QED
    BY <1>2, <2>1 DEF Arithmetic, Comparison, Sources, Quiet
<1>3. CASE op \in {"if", "ifnot", "iffail", "ifnotfail"}
  <2>1. Range(Operands(op)) = {"src"}
    BY <1>3, TupleRange DEF Operands, Arithmetic, Comparison
  <2>2. QED
    BY <1>3, <2>1 DEF Arithmetic, Comparison, Sources, Quiet
<1>4. CASE op \in {"ref", "call", "newproc"}
  <2>1. Range(Operands(op)) = {"dst", "src"}
    BY <1>4, TupleRange DEF Operands, Arithmetic, Comparison
  <2>2. QED
    BY <1>4, <2>1 DEF Arithmetic, Comparison, Sources, Quiet
<1>5. CASE op = "match"
  <2>1. Range(Operands(op)) = {"dst", "pattern", "src"}
    BY <1>5, TupleRange DEF Operands, Arithmetic, Comparison
  <2>2. QED
    BY <1>5, <2>1 DEF Arithmetic, Comparison, Sources, Quiet
<1>6. CASE op = "matchargs"
  <2>1. Range(Operands(op)) = {"pattern", "dst"}
    BY <1>6, TupleRange DEF Operands, Arithmetic, Comparison
  <2>2. QED
    BY <1>6, <2>1 DEF Arithmetic, Comparison, Sources, Quiet
<1>7. CASE /\ op \notin Arithmetic \cup Comparison \cup Sources
           /\ op \notin {"matchargs", "goto", "return", "loadobj", "loadtype"}
  <2>1. Range(Operands(op)) = {"dst"}
    BY <1>7, TupleRange DEF Operands, Arithmetic, Comparison, Sources
  <2>2. QED
    BY <1>7, <2>1 DEF Arithmetic, Comparison, Sources, Quiet
<1>8. CASE op \in {"goto", "return", "loadobj", "loadtype"}
  BY <1>8 DEF Arithmetic, Comparison, Sources, Quiet
<1>9. QED
  BY <1>1, <1>2, <1>3, <1>4, <1>5, <1>6, <1>7, <1>8 DEF Sources

LEMMA FoundDst ==
    ASSUME Inv, NEW f \in DOMAIN frame, NEW i, Step(f, i), i.op \notin Quiet,
           i.op = "recv" => proc(f).recv # <<>>
    PROVE  HasPlace(value, Target(f, i, "dst")) /\ GoodValue(value, Value(f, i, "dst"))
<1>1. "dst" \in Range(Operands(i.op))
  BY OperandNames
<1>2. QED
  BY <1>1, FoundOperand DEF Step

LEMMA FoundSrc ==
    ASSUME Inv, NEW f \in DOMAIN frame, NEW i, Step(f, i), i.op \in Sources
    PROVE  HasPlace(value, Target(f, i, "src")) /\ GoodValue(value, Value(f, i, "src"))
<1>1. "src" \in Range(Operands(i.op)) /\ i.op # "recv"
  BY OperandNames DEF Sources
<1>2. QED
  BY <1>1, FoundOperand DEF Step

LEMMA FoundBoth ==
    ASSUME Inv, NEW f \in DOMAIN frame, NEW i, Step(f, i), i.op \in Arithmetic \cup Comparison
    PROVE  GoodValue(value, Value(f, i, "a")) /\ GoodValue(value, Value(f, i, "b"))
<1>1. {"a", "b"} \subseteq Range(Operands(i.op)) /\ i.op # "recv"
  BY OperandNames DEF Arithmetic, Comparison
<1>2. QED
  BY <1>1, FoundOperand DEF Step

LEMMA FoundPattern ==
    ASSUME Inv, NEW f \in DOMAIN frame, NEW i, Step(f, i), i.op \in {"match", "matchargs"}
    PROVE  GoodValue(value, Value(f, i, "pattern"))
<1>1. "pattern" \in Range(Operands(i.op)) /\ i.op # "recv"
  BY OperandNames
<1>2. QED
  BY <1>1, FoundOperand DEF Step

LEMMA NextConst ==
    ASSUME Inv, NEW f \in DOMAIN frame, NEW i, Step(f, i),
           \/ execute_consti(f, i) \/ execute_consthash(f, i) \/ execute_cfailure(f, i)
           \/ execute_patternvar(f, i)
    PROVE  Inv'
<1>1. i = Instruction(f)
  BY DEF Step
<1>2. CASE execute_consti(f, i)
  <2>1. i.n \in Int /\ i.op = "consti"
    BY <1>1, <1>2, CodeAt, CodeAssumption DEF execute_consti
  <2>2. GoodValue(value, Num(i.n))
    BY <2>1, GoodPlain
  <2>3. QED
    BY <1>1, <1>2, <2>1, <2>2, WriteStep DEF execute_consti
<1>3. CASE execute_consthash(f, i)
  BY <1>1, <1>3, GoodPlain, WriteStep DEF execute_consthash
<1>4. CASE execute_cfailure(f, i)
  BY <1>1, <1>4, GoodPlain, WriteStep DEF execute_cfailure
<1>5. CASE execute_patternvar(f, i)
  BY <1>1, <1>5, GoodPlain, WriteStep DEF execute_patternvar
<1>6. QED
  BY <1>2, <1>3, <1>4, <1>5

LEMMA NextNew ==
    ASSUME Inv, NEW f \in DOMAIN frame, NEW i, Step(f, i),
           execute_consts(f, i) \/ execute_ctuple(f, i) \/ execute_lconstruct(f, i) \/ execute_loadfunc(f, i)
    PROVE  Inv'
<1>1. i = Instruction(f) /\ i.op \in {"consts", "ctuple", "lconstruct", "lfunc"}
  BY DEF Step, execute_consts, execute_ctuple, execute_lconstruct, execute_loadfunc
<1>2. PICK place : place = Target(f, i, "dst") /\ HasPlace(value, place)
  BY <1>1, FoundDst DEF Quiet
<1>3. i.op \notin {"return", "goto"}
  BY <1>1
<1>4. CASE execute_consts(f, i)
  <2>1. PICK o : o = NewString(<<i.s>>)
    OBVIOUS
  <2>2. Blank(o) /\ GoodValue(Append(value, o), String(Len(value) + 1))
    BY <2>1, BlankString, NewObject
  <2>3. WriteNew(f, i, place, String(Len(value) + 1), o)
    BY <1>2, <1>4, <2>1 DEF execute_consts
  <2>4. QED
    BY <1>1, <1>2, <1>3, <2>2, <2>3, WriteNewStep
<1>5. CASE execute_ctuple(f, i)
  <2>1. PICK o : o = NewIndex(i.size)
    OBVIOUS
  <2>2. i.size \in Nat
    BY <1>1, <1>5, CodeAt, CodeAssumption DEF execute_ctuple
  <2>3. Blank(o) /\ GoodValue(Append(value, o), Tuple(Len(value) + 1))
    BY <2>1, <2>2, BlankIndex, NewObject
  <2>4. WriteNew(f, i, place, Tuple(Len(value) + 1), o)
    BY <1>2, <1>5, <2>1 DEF execute_ctuple
  <2>5. QED
    BY <1>1, <1>2, <1>3, <2>3, <2>4, WriteNewStep
<1>6. CASE execute_lconstruct(f, i)
  <2>1. PICK c : c = i.cons
    OBVIOUS
  <2>2. c \in DOMAIN Construct
    BY <1>1, <1>6, <2>1, CodeAt, CodeAssumption DEF execute_lconstruct
  <2>3. PICK o : o = NewConstruct(c)
    OBVIOUS
  <2>4. Blank(o) /\ GoodValue(Append(value, o), construct(Len(value) + 1, c))
    BY <2>2, <2>3, BlankConstruct, NewObject
  <2>5. WriteNew(f, i, place, construct(Len(value) + 1, c), o)
    BY <1>2, <1>6, <2>1, <2>3 DEF execute_lconstruct
  <2>6. QED
    BY <1>1, <1>2, <1>3, <2>4, <2>5, WriteNewStep
<1>7. CASE execute_loadfunc(f, i)
  <2>1. PICK func : func = i.func
    OBVIOUS
  <2>2. Loadable(func)
    BY <1>1, <1>7, <2>1, CodeAt, CodeAssumption DEF execute_loadfunc
  <2>3. PICK o : o = NewValue(func)
    OBVIOUS
  <2>4. Blank(o) /\ o.func # "none"
    BY <2>2, <2>3, BlankValue
  <2>5. GoodValue(Append(value, o), function_value(Len(value) + 1))
    BY <2>4, NewObject
  <2>6. WriteNew(f, i, place, function_value(Len(value) + 1), o)
    BY <1>2, <1>7, <2>1, <2>3 DEF execute_loadfunc
  <2>7. QED
    BY <1>1, <1>2, <1>3, <2>4, <2>5, <2>6, WriteNewStep
<1>8. QED
  BY <1>4, <1>5, <1>6, <1>7

LEMMA NextCopy ==
    ASSUME Inv, NEW f \in DOMAIN frame, NEW i, Step(f, i), execute_copy(f, i) \/ execute_move(f, i)
    PROVE  Inv'
<1>1. i = Instruction(f) /\ i.op \in {"copy", "move"}
  BY DEF execute_copy, execute_move, Step
<1>2. GoodValue(value, Value(f, i, "src"))
  BY <1>1, FoundSrc DEF Sources
<1>3. QED
  BY <1>1, <1>2, WriteStep DEF execute_copy, execute_move

LEMMA NextRef ==
    ASSUME Inv, NEW f \in DOMAIN frame, NEW i, Step(f, i), execute_ref(f, i)
    PROVE  Inv'
<1>1. i = Instruction(f) /\ i.op = "ref"
  BY DEF execute_ref, Step
<1>2. GoodValue(value, Value(f, i, "dst"))
  BY <1>1, FoundDst DEF Quiet
<1>3. GoodValue(value, Ref(Target(f, i, "src")))
  BY <1>1, FoundSrc, GoodPointer DEF Sources
<1>4. CASE Target(f, i, "dst") = Target(f, i, "src")
  BY <1>1, <1>2, <1>4, WriteStep DEF execute_ref
<1>5. CASE Target(f, i, "dst") # Target(f, i, "src")
  BY <1>1, <1>3, <1>5, WriteStep DEF execute_ref
<1>6. QED
  BY <1>4, <1>5

LEMMA NextBinary ==
    ASSUME Inv, NEW f \in DOMAIN frame, NEW i, Step(f, i),
           execute_binaryop(f, i) \/ execute_divide(f, i) \/ execute_cmp(f, i)
    PROVE  Inv'
<1>1. i = Instruction(f) /\ i.op \in Arithmetic \cup Comparison
  BY DEF execute_binaryop, execute_divide, execute_cmp, Arithmetic, Step
<1>2. i.op \notin {"return", "goto"}
  BY <1>1 DEF Arithmetic, Comparison
<1>3. PICK a, b : a = Value(f, i, "a") /\ b = Value(f, i, "b")
  OBVIOUS
<1>4. (a[1] = "Int" => a[2] \in Int) /\ (b[1] = "Int" => b[2] \in Int)
  BY <1>1, <1>3, FoundBoth DEF GoodValue
<1>5. CASE execute_binaryop(f, i)
  <2>1. PICK op \in {"iadd", "isub", "imult"} :
           Write(f, Target(f, i, "dst"),
                 IF a[1] # "Int" \/ b[1] # "Int" THEN Failure("type")
                 ELSE Num(CASE op = "iadd" -> a[2] + b[2] [] op = "isub" -> a[2] - b[2] [] op = "imult" -> a[2] * b[2]))
    BY <1>3, <1>5 DEF execute_binaryop
  <2>2. PICK n : n = CASE op = "iadd" -> a[2] + b[2] [] op = "isub" -> a[2] - b[2] [] op = "imult" -> a[2] * b[2]
    OBVIOUS
  <2>3. CASE a[1] # "Int" \/ b[1] # "Int"
    BY <1>1, <1>2, <2>1, <2>3, GoodPlain, WriteStep
  <2>4. CASE ~(a[1] # "Int" \/ b[1] # "Int")
    <3>1. n \in Int
      BY <1>4, <2>2, <2>4
    <3>2. GoodValue(value, Num(n)) /\ Write(f, Target(f, i, "dst"), Num(n))
      BY <2>1, <2>2, <2>4, <3>1, GoodPlain
    <3>3. QED
      BY <1>1, <1>2, <3>2, WriteStep
  <2>5. QED
    BY <2>3, <2>4
<1>6. CASE execute_divide(f, i)
  <2>1. CASE a[1] # "Int" \/ b[1] # "Int"
    <3>1. Breaks(f, "undefined")
      BY <1>3, <1>6, <2>1 DEF execute_divide
    <3>2. QED
      BY <3>1, BreaksStep DEF Ends
  <2>2. CASE ~(a[1] # "Int" \/ b[1] # "Int")
    <3>1. /\ a[2] \in Int /\ b[2] \in Int
          /\ Write(f, Target(f, i, "dst"),
                   IF b[2] = 0 THEN Failure("divideby0") ELSE Num(Quotient(a[2], b[2])))
      BY <1>3, <1>4, <1>6, <2>2 DEF execute_divide
    <3>2. CASE b[2] = 0
      BY <1>1, <1>2, <3>1, <3>2, GoodPlain, WriteStep
    <3>3. CASE b[2] # 0
      <4>1. Magnitude(a[2]) \in Nat /\ Magnitude(b[2]) \in Nat \ {0}
        BY <3>1, <3>3 DEF Magnitude
      <4>2. Magnitude(a[2]) \div Magnitude(b[2]) \in Int
        BY <4>1
      <4>3. Quotient(a[2], b[2]) \in Int
        BY <4>2 DEF Quotient
      <4>4. GoodValue(value, Num(Quotient(a[2], b[2])))
        BY <4>3, GoodPlain
      <4>5. QED
        BY <1>1, <1>2, <3>1, <3>3, <4>4, WriteStep
    <3>4. QED
      BY <3>2, <3>3
  <2>3. QED
    BY <2>1, <2>2
<1>7. CASE execute_cmp(f, i)
  <2>1. PICK op \in Comparison :
           Write(f, Target(f, i, "dst"), Bool(Compares(op, qbrt_compare(a, b))))
    BY <1>3, <1>7 DEF execute_cmp
  <2>2. PICK c : c = qbrt_compare(a, b)
    OBVIOUS
  <2>3. PICK x : x = Compares(op, c)
    OBVIOUS
  <2>4. x \in BOOLEAN
    <3>1. CASE op = "eq"
      BY <2>3, <3>1 DEF Compares
    <3>2. CASE op = "noteq"
      BY <2>3, <3>2 DEF Compares
    <3>3. CASE op = "gt"
      BY <2>3, <3>3 DEF Compares
    <3>4. CASE op = "gteq"
      BY <2>3, <3>4 DEF Compares
    <3>5. CASE op = "lt"
      BY <2>3, <3>5 DEF Compares
    <3>6. CASE op = "lteq"
      BY <2>3, <3>6 DEF Compares
    <3>7. QED
      BY <3>1, <3>2, <3>3, <3>4, <3>5, <3>6 DEF Comparison
  <2>5. GoodValue(value, Bool(x)) /\ Write(f, Target(f, i, "dst"), Bool(x))
    BY <2>1, <2>2, <2>3, <2>4, GoodPlain
  <2>6. QED
    BY <1>1, <1>2, <2>5, WriteStep
<1>8. QED
  BY <1>5, <1>6, <1>7

(* Nothing is written.                                                     *)
LEMMA SilentStep ==
    ASSUME Inv, NEW f \in DOMAIN frame, Moved(frame, frame'), Executed(f), UNCHANGED <<value, queue, io>>,
           known' \in [Worker -> SUBSET Module]
    PROVE  Inv'
<1>1. GoodHeap(value') /\ Grows(value, value')
  BY InvFacts, GrowsReflexive DEF Inv
<1>2. broken' \in Ends
  BY DEF Executed, Inv, Rest
<1>3. QED
  BY <1>1, <1>2, InstructionStep DEF Executed

LEMMA KnownKept == ASSUME Inv, known' = known PROVE known' \in [Worker -> SUBSET Module]
BY DEF Inv, Rest

Jumps == {"goto", "fork", "if", "ifnot", "iffail", "ifnotfail", "match", "matchargs"}
LEMMA BranchesStep ==
    ASSUME Inv, NEW f \in DOMAIN frame, NEW i, i = Instruction(f), i.op \in Jumps,
           NEW stays, stays => i.op # "goto", Branches(f, i, stays)
    PROVE  Inv'
<1>1. CASE stays
  <2>1. Moved(frame, frame')
    BY <1>1, NextMoved DEF Branches, Jumps
  <2>2. QED
    BY <2>1, KnownKept, SilentStep DEF Branches
<1>2. CASE ~stays
  <2>1. Moved(frame, frame')
    BY <1>2, JumpMoved DEF Branches, Jumps
  <2>2. QED
    BY <2>1, KnownKept, SilentStep DEF Branches
<1>3. QED
  BY <1>1, <1>2

LEMMA NextBranch ==
    ASSUME Inv, NEW f \in DOMAIN frame, NEW i, Step(f, i),
           \/ execute_iffail(f, i) \/ execute_if(f, i) \/ execute_goto(f, i)
           \/ execute_return(f, i) \/ execute_loadobj(f, i)
    PROVE  Inv'
<1>1. i = Instruction(f)
  BY DEF Step
<1>2. CASE execute_iffail(f, i)
  <2>1. PICK stays : Branches(f, i, stays)
    BY <1>2 DEF execute_iffail
  <2>2. i.op \in Jumps /\ i.op # "goto"
    BY <1>2 DEF execute_iffail, Jumps
  <2>3. QED
    BY <1>1, <2>1, <2>2, BranchesStep
<1>3. CASE execute_if(f, i)
  <2>1. i.op \in Jumps /\ i.op # "goto"
    BY <1>3 DEF execute_if, Jumps
  <2>2. (\E stays : Branches(f, i, stays)) \/ Breaks(f, "undefined")
    BY <1>3 DEF execute_if
  <2>3. QED
    BY <1>1, <2>1, <2>2, BranchesStep, BreaksStep DEF Ends
<1>4. CASE execute_goto(f, i)
  BY <1>1, <1>4, BranchesStep DEF execute_goto, Jumps
<1>5. CASE execute_return(f, i)
  <2>1. Moved(frame, frame')
    BY <1>5, StateMoved DEF execute_return, Inv, States
  <2>2. QED
    BY <1>5, <2>1, KnownKept, SilentStep DEF execute_return
<1>6. CASE execute_loadobj(f, i)
  <2>1. Moved(frame, frame')
    BY <1>1, <1>6, NextMoved DEF execute_loadobj
  <2>2. i.module \in Module
    BY <1>1, <1>6, CodeAt, CodeAssumption DEF execute_loadobj
  <2>3. known' \in [Worker -> SUBSET Module]
    BY <1>6, <2>2 DEF execute_loadobj, Inv, Rest
  <2>4. QED
    BY <1>6, <2>1, <2>3, SilentStep DEF execute_loadobj
<1>7. QED
  BY <1>2, <1>3, <1>4, <1>5, <1>6

LEMMA NextContext ==
    ASSUME Inv, NEW f \in DOMAIN frame, NEW i, Step(f, i), execute_lcontext(f, i)
    PROVE  Inv'
<1>1. i = Instruction(f) /\ i.op = "lcontext" /\ HasPlace(value, Target(f, i, "dst"))
  BY FoundDst DEF execute_lcontext, Step, Quiet
<1>2. PICK name : name = i.name
  OBVIOUS
<1>3. PICK v : v = get_context(f, name)
  OBVIOUS
<1>4. CASE v # 0
  <2>1. HasPlace(value, There(value, v, 0))
    <3>1. HasPlace(value, <<v, 0, 0>>)
      BY <1>3, <1>4, GetContext DEF Inv
    <3>2. QED
      BY <3>1, InvFacts, RegisterDomain DEF HasPlace, There
  <2>2. GoodValue(value, Ref(There(value, v, 0)))
    BY <2>1, GoodPointer
  <2>3. Write(f, Target(f, i, "dst"), Ref(There(value, v, 0)))
    BY <1>2, <1>3, <1>4 DEF execute_lcontext
  <2>4. QED
    BY <1>1, <2>2, <2>3, WriteStep
<1>5. CASE v = 0
  <2>1. PICK o : o = NewVariable(Void)
    OBVIOUS
  <2>2. PICK n : n = Len(value) + 1
    OBVIOUS
  <2>3. PICK mid : mid = Next_pc(f)
    OBVIOUS
  <2>4. /\ value' = Append(Put(Target(f, i, "dst"), Ref(<<n, 0, 0>>)), o)
        /\ frame' = [mid EXCEPT ![f].context = With(@, name, n)]
        /\ Executed(f) /\ UNCHANGED <<queue, io, known>>
    BY <1>2, <1>3, <1>5, <2>1, <2>2, <2>3 DEF execute_lcontext
  <2>5. Blank(o) /\ 1 \in DOMAIN o.regs /\ 0 \in 0 .. o.moves
    BY <2>1, BlankVariable DEF Blank, GoodShape
  <2>6. PICK a, b : a = Target(f, i, "dst")[1] /\ b = Target(f, i, "dst")[2] + 1
    OBVIOUS
  <2>7. PICK e : e = Set(value, a, b, Ref(<<n, 0, 0>>))
    OBVIOUS
  <2>8. value' = Append(e, o) /\ a \in DOMAIN value /\ GoodHeap(value)
    BY <1>1, <2>4, <2>6, <2>7 DEF Put, HasPlace, Inv, Set
  <2>9. GoodValue(Append(value, o), Ref(<<n, 0, 0>>))
    <3>1. n \in DOMAIN Append(value, o) /\ Append(value, o)[n] = o
      BY <2>2, NewObject
    <3>2. HasPlace(Append(value, o), <<n, 0, 0>>)
      BY <2>5, <3>1 DEF HasPlace
    <3>3. QED
      BY <3>2, GoodPointer
  <2>10. GoodHeap(value') /\ Grows(value, value') /\ n \in DOMAIN value' /\ value'[n] = o
    <3>1. PICK x : x = Ref(<<n, 0, 0>>)
      OBVIOUS
    <3>2. e = Set(value, a, b, x) /\ value' = Append(e, o) /\ a \in DOMAIN value /\ GoodHeap(value)
      BY <2>7, <2>8, <3>1
    <3>3. GoodValue(Append(value, o), x)
      BY <2>9, <3>1
    <3>4. GoodHeap(value') /\ Grows(value, value')
      BY <2>5, <3>2, <3>3, PutAppendHeap
    <3>5. Len(value) + 1 \in DOMAIN value' /\ value'[Len(value) + 1] = o
      BY <2>5, <3>2, <3>3, PutAppendHeap
    <3>6. QED
      BY <2>2, <3>4, <3>5
  <2>11. HasPlace(value', <<n, 0, 0>>)
    BY <2>5, <2>10 DEF HasPlace
  <2>12. Shaped(value) /\ Shaped(value') /\ Len(process) \in Nat
    BY <2>10, InvFacts DEF GoodHeap
  <2>13. GoodFrames(value', mid, Len(process)) /\ DOMAIN mid = DOMAIN frame
    <3>1. Moved(frame, mid)
      BY <1>1, <2>3, NextMoved
    <3>2. QED
      BY <2>10, <2>12, <3>1, MovedFrames DEF Inv
  <2>14. GoodFrames(value', frame', Len(process)) /\ DOMAIN frame' = DOMAIN frame
    <3>1. IsSequence(mid) /\ Len(mid) <= MaxFrames
      BY <2>13 DEF GoodFrames
    <3>2. DOMAIN frame' = DOMAIN mid /\ IsSequence(frame') /\ Len(frame') = Len(mid)
      BY <2>4, <3>1, ExceptSequence
    <3>3. ASSUME NEW g \in DOMAIN mid
          PROVE  /\ \A field \in Fields \ {"context"} : frame'[g][field] = mid[g][field]
                 /\ DOMAIN frame'[g] = DOMAIN mid[g]
                 /\ \A x \in DOMAIN frame'[g].context : HasPlace(value', <<frame'[g].context[x], 0, 0>>)
      <4>1. GoodFrame(value', mid, Len(process), g)
        BY <2>13 DEF GoodFrames
      <4>2. CASE g # f
        <5>1. frame'[g] = mid[g]
          BY <2>4, <4>2
        <5>2. QED
          BY <4>1, <5>1 DEF GoodFrame
      <4>3. CASE g = f
        <5>1. PICK c : c = With(mid[f].context, name, n)
          OBVIOUS
        <5>2. frame'[g] = [mid[f] EXCEPT !.context = c]
          BY <2>4, <4>3, <5>1
        <5>3. \A x \in DOMAIN c : c[x] = n \/ (x \in DOMAIN mid[f].context /\ c[x] = mid[f].context[x])
          BY <5>1 DEF With
        <5>4. frame'[g].context = c
          BY <4>1, <4>3, <5>2 DEF GoodFrame, Fields
        <5>5. \A x \in DOMAIN c : HasPlace(value', <<c[x], 0, 0>>)
          BY <2>11, <4>1, <4>3, <5>3 DEF GoodFrame
        <5>6. QED
          BY <4>1, <4>3, <5>2, <5>4, <5>5 DEF GoodFrame, Fields
      <4>4. QED
        BY <4>2, <4>3
    <3>4. ASSUME NEW g \in DOMAIN mid PROVE GoodFrame(value', frame', Len(process), g)
      <4>1. GoodFrame(value', mid, Len(process), g)
        BY <2>13 DEF GoodFrames
      <4>2. \A h \in DOMAIN mid :
               /\ frame'[h].type = mid[h].type /\ frame'[h].parent = mid[h].parent /\ frame'[h].proc = mid[h].proc
               /\ frame'[h].cfstate = mid[h].cfstate /\ frame'[h].pc = mid[h].pc /\ frame'[h].value = mid[h].value
               /\ frame'[h].func = mid[h].func /\ frame'[h].result = mid[h].result /\ frame'[h].call = mid[h].call
               /\ frame'[h].promised = mid[h].promised
        BY <3>3 DEF Fields
      <4>3. CallOf(frame', g) = CallOf(mid, g) /\ CallOf(mid, g) \in DOMAIN mid
        BY <4>1, <4>2 DEF CallOf, GoodFrame
      <4>4. CodeOf(frame', g) = CodeOf(mid, g)
        BY <4>2, <4>3 DEF CodeOf
      <4>5. frame'[g].type = "call" => GoodCall(value', frame'[g])
        BY <4>1, <4>2 DEF GoodFrame, GoodCall
      <4>6. frame'[g].type = "path" => /\ frame'[g].call \in DOMAIN frame' /\ frame'[frame'[g].call].type = "call"
                                       /\ HasPlace(value', frame'[g].promised)
        BY <3>2, <4>1, <4>2 DEF GoodFrame
      <4>7. DOMAIN frame'[g] = Fields
        BY <3>3, <4>1 DEF GoodFrame
      <4>8. \A x \in DOMAIN frame'[g].context : HasPlace(value', <<frame'[g].context[x], 0, 0>>)
        BY <3>3
      <4>9. QED
        BY <4>1, <4>2, <4>4, <4>5, <4>6, <4>7, <4>8 DEF GoodFrame
    <3>5. QED
      BY <2>13, <3>1, <3>2, <3>4 DEF GoodFrames
  <2>15. GoodProcesses(value', frame', process)
    BY <2>10, <2>12, <2>14, ProcessesKept DEF Inv
  <2>16. GoodIo(value', frame', io)
    BY <2>10, <2>12, <2>14, IoKept DEF Inv
  <2>17. GoodQueue(frame', current, fresh, stale)
    BY <2>14, QueueKept DEF Inv
  <2>18. Rest'
    BY <2>4 DEF Inv, Rest, Executed, Turned
  <2>19. QED
    BY <2>4, <2>10, <2>14, <2>15, <2>16, <2>17, <2>18 DEF Inv, Executed, queue
<1>6. QED
  BY <1>4, <1>5

(* A lookup has stopped the instruction: the frame waits, fails, or goes   *)
(* on as before, or nobody can say what happens.                           *)
LEMMA StateStep ==
    ASSUME Inv, NEW f \in DOMAIN frame, NEW g \in DOMAIN frame, NEW s \in States,
           frame' = [frame EXCEPT ![g].cfstate = s],
           UNCHANGED <<queue, io>>, known' \in [Worker -> SUBSET Module],
           (Executed(f) /\ value' = value) \/ \E x : GoodValue(value, x) /\ Fail(f, x)
    PROVE  Inv'
<1>1. Moved(frame, frame')
  BY StateMoved DEF Inv
<1>2. CASE Executed(f) /\ value' = value
  BY <1>1, <1>2, SilentStep
<1>3. CASE \E x : GoodValue(value, x) /\ Fail(f, x)
  BY <1>1, <1>3, FailStep
<1>4. QED
  BY <1>2, <1>3

LEMMA NextStopped ==
    ASSUME Inv, NEW f \in DOMAIN frame, NEW i, Runs(f), i = Instruction(f),
           \/ read_promise(f, i) \/ read_failure(f, i) \/ register404(f, i)
           \/ patternvar_null(f, i) \/ follow_null(f, i)
    PROVE  Inv'
<1>1. \A name \in Stops(f, i) :
         Look(f, i, name).stop = "failure" => GoodValue(value, Value(f, i, name))
  BY StopsOperand, PlaceValue DEF GoodFound, Target, Value, At, Inv
<1>2. CASE read_promise(f, i)
  BY <1>2, KnownKept, StateStep DEF read_promise, States
<1>3. CASE read_failure(f, i)
  <2>1. function_call(f) \in DOMAIN frame
    BY CallOfFrame
  <2>2. \E x : GoodValue(value, x) /\ Fail(f, x)
    BY <1>1, <1>3 DEF read_failure
  <2>3. QED
    BY <1>3, <2>1, <2>2, KnownKept, StateStep DEF read_failure, States
<1>4. CASE register404(f, i)
  <2>1. \E x : GoodValue(value, x) /\ Fail(f, x)
    BY <1>1, <1>4, GoodPlain DEF register404
  <2>2. known' \in [Worker -> SUBSET Module]
    BY <1>4, FindsModules DEF register404
  <2>3. QED
    BY <1>4, <2>1, <2>2, StateStep DEF register404, States
<1>5. CASE patternvar_null(f, i)
  <2>1. Moved(frame, frame')
    BY <1>5 DEF patternvar_null, Inv, GoodFrames, GoodFrame, Moved, Like
  <2>2. QED
    BY <1>5, <2>1, KnownKept, SilentStep DEF patternvar_null
<1>6. CASE follow_null(f, i)
  BY <1>6, BreaksStep DEF follow_null, Ends
<1>7. QED
  BY <1>2, <1>3, <1>4, <1>5, <1>6

LEMMA NextInvalid ==
    ASSUME Inv, NEW f \in DOMAIN frame, NEW i, invalid_opcode(f, i) \/ execute_fieldget(f, i)
    PROVE  Inv'
<1>1. CASE invalid_opcode(f, i)
  BY <1>1, GoodPlain, KnownKept, StateStep DEF invalid_opcode, States
<1>2. CASE execute_fieldget(f, i)
  BY <1>2, BreaksStep DEF execute_fieldget, Ends
<1>3. QED
  BY <1>1, <1>2

(* A register is made to point at a string of its own.                     *)
PutString(h, a, b, text) == Append(Set(h, a, b, String(Len(h) + 1)), NewString(text))
LEMMA PutStringHeap ==
    ASSUME NEW h, GoodHeap(h), NEW a \in DOMAIN h, NEW b, NEW text
    PROVE  GoodHeap(PutString(h, a, b, text)) /\ Grows(h, PutString(h, a, b, text))
<1>1. PICK y : y = String(Len(h) + 1)
  OBVIOUS
<1>2. PICK o : o = NewString(text)
  OBVIOUS
<1>3. PICK e : e = Set(h, a, b, y)
  OBVIOUS
<1>4. PICK k : k = Append(e, o)
  OBVIOUS
<1>5. Blank(o)
  BY <1>2, BlankString
<1>6. GoodValue(Append(h, o), y)
  <2>1. IsSequence(h)
    BY DEF GoodHeap, Shaped
  <2>2. Len(h) + 1 \in DOMAIN Append(h, o)
    BY <2>1, AppendSequence
  <2>3. QED
    BY <1>1, <2>2, GoodPointer
<1>7. GoodHeap(h) /\ a \in DOMAIN h
  OBVIOUS
<1>8. GoodHeap(k) /\ Grows(h, k)
  BY <1>3, <1>4, <1>5, <1>6, <1>7, PutAppendHeap
<1>9. k = PutString(h, a, b, text)
  BY <1>1, <1>2, <1>3, <1>4 DEF PutString
<1>10. QED
  BY <1>8, <1>9

LEMMA CopiedHeap ==
    ASSUME NEW h, GoodHeap(h), NEW place, HasPlace(h, place), NEW x, GoodValue(h, x),
           NEW k, k = Copied(h, place, x)
    PROVE  GoodHeap(k) /\ Grows(h, k)
<1>1. PICK a, b : a = place[1] /\ b = place[2] + 1
  OBVIOUS
<1>2. a \in DOMAIN h
  BY <1>1 DEF HasPlace
<1>3. CASE x[1] = "String"
  <2>1. k = Append([h EXCEPT ![place[1]].regs[place[2] + 1] = String(Len(h) + 1)], NewString(h[x[2]].text))
    BY <1>3, Zenon DEF Copied
  <2>2. k = PutString(h, a, b, h[x[2]].text)
    BY <1>1, <2>1 DEF PutString, Set
  <2>3. QED
    BY <1>2, <2>2, PutStringHeap
<1>4. CASE x[1] # "String" /\ Copies(x)
  <2>1. k = Set(h, a, b, x)
    BY <1>1, <1>4 DEF Copied, Set
  <2>2. QED
    BY <2>1, PutHeap
<1>5. CASE x[1] # "String" /\ ~Copies(x)
  <2>1. k = h
    BY <1>5 DEF Copied
  <2>2. QED
    BY <2>1, GrowsReflexive DEF GoodHeap
<1>6. QED
  BY <1>3, <1>4, <1>5

LEMMA NextMatch ==
    ASSUME Inv, NEW f \in DOMAIN frame, NEW i, Step(f, i), execute_match(f, i)
    PROVE  Inv'
<1>1. i = Instruction(f) /\ i.op = "match"
  BY DEF execute_match, Step
<1>2. PICK place, x : place = Target(f, i, "dst") /\ x = Value(f, i, "src")
  OBVIOUS
<1>3. HasPlace(value, place) /\ GoodValue(value, x)
  BY <1>1, <1>2, FoundDst, FoundSrc DEF Quiet, Sources
<1>4. Becomes(f, Copied(value, place, x)) \/ Branches(f, i, FALSE)
  BY <1>2 DEF execute_match
<1>5. CASE Becomes(f, Copied(value, place, x))
  <2>1. PICK heap : heap = Copied(value, place, x)
    OBVIOUS
  <2>2. GoodHeap(heap) /\ Grows(value, heap)
    BY <1>3, <2>1, CopiedHeap DEF Inv
  <2>3. QED
    BY <1>1, <1>5, <2>1, <2>2, BecomesStep
<1>6. CASE Branches(f, i, FALSE)
  BY <1>1, <1>6, BranchesStep DEF Jumps
<1>7. QED
  BY <1>4, <1>5, <1>6

(* The variables of a pattern get what the arguments are.                  *)
LEMMA ArgumentsCopied ==
    ASSUME Inv, NEW index \in DOMAIN value, NEW pattern, NEW given, IsSequence(given),
           NEW k, k = CopiedArguments(index, pattern, given)
    PROVE  /\ Shaped(k) /\ Grows(value, k)
           /\ \A v \in DOMAIN k : \A r \in DOMAIN k[v].regs :
                 \/ v \in DOMAIN value /\ r \in DOMAIN value[v].regs /\ k[v].regs[r] = value[v].regs[r]
                 \/ k[v].regs[r] = Void
                 \/ /\ r \in DOMAIN given /\ k[v].regs[r] = given[r]
                    /\ Copies(given[r])
                 \/ r \in DOMAIN given /\ k[v].regs[r] = String(Len(value) + r) /\ Len(value) + r \in DOMAIN k
<1> DEFINE copy(j, old) ==
              IF j \notin DOMAIN given \/ pattern[j] # PatternVar THEN old
              ELSE IF given[j][1] = "String" THEN String(Len(value) + j)
              ELSE IF Copies(given[j]) THEN given[j] ELSE old
           text(x) == IF x[1] = "String" THEN value[x[2]].text ELSE <<>>
<1>1. PICK regs : regs = [r \in DOMAIN value[index].regs |-> copy(r, value[index].regs[r])]
  OBVIOUS
<1>2. PICK t : t = [j \in DOMAIN given |-> NewString(text(given[j]))]
  OBVIOUS
<1>3. PICK o : o = [value[index] EXCEPT !.regs = regs]
  OBVIOUS
<1>4. PICK e : e = [value EXCEPT ![index] = o]
  OBVIOUS
<1>5. k = e \o t
  BY <1>1, <1>2, <1>3, <1>4 DEF CopiedArguments
<1>6. IsSequence(value) /\ Shaped(value) /\ Len(value) \in Nat /\ DOMAIN value = 1 .. Len(value)
  BY InvFacts
<1>7. Len(given) \in Nat /\ DOMAIN given = 1 .. Len(given)
  BY SequenceDomain
<1>8. IsSequence(t) /\ Len(t) = Len(given) /\ \A j \in DOMAIN given : Blank(t[j])
  <2>1. t = [j \in 1 .. Len(given) |-> t[j]]
    BY <1>2, <1>7
  <2>2. \A j \in DOMAIN given : Blank(t[j])
    BY <1>2, BlankString
  <2>3. QED
    BY <1>7, <2>1, <2>2, SequenceLength
<1>9. GoodShape(o) /\ Grown(value[index], o) /\ o.regs = regs /\ DOMAIN regs = DOMAIN value[index].regs
  <2>1. GoodShape(value[index])
    BY <1>6 DEF Shaped
  <2>2. /\ DOMAIN o = DOMAIN value[index] /\ o.regs = regs /\ o.func = value[index].func
        /\ o.family = value[index].family /\ o.argc = value[index].argc
        /\ o.moves = value[index].moves
    BY <1>3, <2>1 DEF GoodShape
  <2>3. Len(value[index].regs) \in Nat /\ DOMAIN value[index].regs = 1 .. Len(value[index].regs)
    BY <1>6, RegisterDomain
  <2>4. regs = [r \in 1 .. Len(value[index].regs) |-> regs[r]]
    BY <1>1, <2>3
  <2>5. IsSequence(regs) /\ Len(regs) = Len(value[index].regs) /\ DOMAIN regs = DOMAIN value[index].regs
    BY <2>3, <2>4, SequenceLength
  <2>6. GoodShape(o)
    BY <2>1, <2>2, <2>5 DEF GoodShape, Kin
  <2>7. QED
    BY <1>6, <2>2, <2>3, <2>5, <2>6, RegisterDomain DEF Grown
<1>10. IsSequence(e) /\ Len(e) = Len(value) /\ DOMAIN e = DOMAIN value
  BY <1>4, <1>6, ExceptSequence
<1>11. /\ IsSequence(k) /\ DOMAIN k = 1 .. Len(value) + Len(given)
       /\ \A v \in DOMAIN value : k[v] = e[v]
       /\ \A j \in DOMAIN given : Len(value) + j \in DOMAIN k /\ k[Len(value) + j] = t[j]
  <2>1. /\ IsSequence(k) /\ Len(k) = Len(e) + Len(t)
        /\ \A v \in DOMAIN e : k[v] = e[v]
        /\ \A j \in DOMAIN t : k[Len(e) + j] = t[j]
    <3>1. IsSequence(e) /\ IsSequence(t)
      BY <1>8, <1>10
    <3>2. IsSequence(k) /\ Len(k) = Len(e) + Len(t)
      BY <1>5, <3>1, ConcatSequence
    <3>3. \A v \in DOMAIN e : k[v] = e[v]
      BY <1>5, <3>1, ConcatSequence
    <3>4. \A j \in DOMAIN t : k[Len(e) + j] = t[j]
      BY <1>5, <3>1, ConcatSequence
    <3>5. QED
      BY <3>2, <3>3, <3>4
  <2>2. DOMAIN k = 1 .. Len(value) + Len(given) /\ DOMAIN t = DOMAIN given
    BY <1>7, <1>8, <1>10, <2>1, SequenceDomain
  <2>3. \A j \in DOMAIN given : Len(value) + j \in 1 .. Len(value) + Len(given)
    BY <1>6, <1>7
  <2>4. QED
    BY <1>10, <2>1, <2>2, <2>3
<1>12. ASSUME NEW v \in DOMAIN k PROVE v \in DOMAIN value \/ \E j \in DOMAIN given : v = Len(value) + j
  <2>1. PICK m \in Nat, n \in Nat : m = Len(value) /\ n = Len(given)
    BY <1>6, <1>7
  <2>2. v \in 1 .. m + n
    BY <1>11, <2>1
  <2>3. v \notin 1 .. m => v - m \in 1 .. n /\ v = m + (v - m)
    BY <2>2
  <2>4. QED
    BY <1>6, <1>7, <2>1, <2>3
<1>13. Shaped(k)
  <2>1. ASSUME NEW v \in DOMAIN k PROVE GoodShape(k[v])
    <3>1. CASE v \in DOMAIN value
      BY <1>4, <1>6, <1>9, <1>11, <3>1 DEF Shaped
    <3>2. CASE \E j \in DOMAIN given : v = Len(value) + j
      BY <1>8, <1>11, <3>2 DEF Blank
    <3>3. QED
      BY <1>12, <3>1, <3>2
  <2>2. QED
    BY <1>11, <2>1 DEF Shaped
<1>14. Grows(value, k)
  <2>1. ASSUME NEW v \in DOMAIN value PROVE v \in DOMAIN k /\ Grown(value[v], k[v])
    <3>1. v \in DOMAIN k
      BY <1>6, <1>7, <1>11
    <3>2. Grown(value[v], value[v])
      BY <1>6, GrowsReflexive DEF Grows
    <3>3. k[v] = IF v = index THEN o ELSE value[v]
      BY <1>4, <1>11
    <3>4. QED
      BY <1>9, <3>1, <3>2, <3>3
  <2>2. QED
    BY <2>1 DEF Grows
<1>15. ASSUME NEW v \in DOMAIN k, NEW r \in DOMAIN k[v].regs
       PROVE  \/ v \in DOMAIN value /\ r \in DOMAIN value[v].regs /\ k[v].regs[r] = value[v].regs[r]
              \/ k[v].regs[r] = Void
              \/ /\ r \in DOMAIN given /\ k[v].regs[r] = given[r]
                 /\ Copies(given[r])
              \/ r \in DOMAIN given /\ k[v].regs[r] = String(Len(value) + r) /\ Len(value) + r \in DOMAIN k
  <2>1. CASE v \in DOMAIN value /\ v # index
    BY <1>4, <1>11, <2>1
  <2>2. CASE v = index
    <3>1. k[v] = o /\ r \in DOMAIN value[index].regs /\ k[v].regs[r] = copy(r, value[index].regs[r])
      BY <1>1, <1>4, <1>9, <1>11, <2>2
    <3>2. QED
      BY <1>11, <2>2, <3>1
  <2>3. CASE \E j \in DOMAIN given : v = Len(value) + j
    BY <1>8, <1>11, <2>3 DEF Blank
  <2>4. QED
    BY <1>12, <2>1, <2>2, <2>3
<1>16. QED
  BY <1>13, <1>14, <1>15

LEMMA CopiedArgumentsHeap ==
    ASSUME Inv, NEW index \in DOMAIN value, NEW pattern, NEW given, IsSequence(given),
           \A j \in DOMAIN given : GoodValue(value, given[j]),
           NEW k, k = CopiedArguments(index, pattern, given)
    PROVE  GoodHeap(k) /\ Grows(value, k)
<1>1. Shaped(k) /\ Grows(value, k) /\ Shaped(value)
  BY ArgumentsCopied, InvFacts
<1>2. ASSUME NEW v \in DOMAIN k, NEW r \in DOMAIN k[v].regs
      PROVE  \/ v \in DOMAIN value /\ r \in DOMAIN value[v].regs /\ k[v].regs[r] = value[v].regs[r]
             \/ GoodValue(k, k[v].regs[r])
  <2>1. \/ v \in DOMAIN value /\ r \in DOMAIN value[v].regs /\ k[v].regs[r] = value[v].regs[r]
        \/ k[v].regs[r] = Void
        \/ r \in DOMAIN given /\ k[v].regs[r] = given[r]
        \/ r \in DOMAIN given /\ k[v].regs[r] = String(Len(value) + r) /\ Len(value) + r \in DOMAIN k
    BY ArgumentsCopied
  <2>2. r \in DOMAIN given => GoodValue(k, given[r])
    BY <1>1, ValueGrows
  <2>3. Len(value) + r \in DOMAIN k => GoodValue(k, String(Len(value) + r))
    BY GoodPointer
  <2>4. QED
    BY <2>1, <2>2, <2>3, GoodVoid
<1>3. GoodHeap(k)
  BY <1>1, <1>2, HeapStep DEF Inv
<1>4. QED
  BY <1>1, <1>3

LEMMA ParameterFound ==
    ASSUME Inv, NEW f \in DOMAIN frame
    PROVE  /\ Function[frame[function_call(f)].func].argc \in Nat
           /\ \A j \in Parameters(f) : GoodLink(value, Passed(f, j))
<1>1. PICK func : func = frame[function_call(f)].func
  OBVIOUS
<1>2. /\ func \in DOMAIN Function /\ Function[func].argc \in Nat /\ regtotal(func) \in Nat
      /\ Function[func].argc <= regtotal(func)
  BY <1>1, CallOfFrame, RegTotal DEF GoodCall
<1>3. ASSUME NEW j \in Parameters(f) PROVE GoodLink(value, Passed(f, j))
  <2>1. j - 1 \in 0 .. regtotal(func) - 1
    BY <1>1, <1>2 DEF Parameters
  <2>2. HasPlace(value, Register(f, j - 1))
    BY <1>1, <2>1, OwnRegister
  <2>3. QED
    BY <2>2, FollowRef DEF Passed, Inv
<1>4. QED
  BY <1>1, <1>2, <1>3

LEMMA NextMatchargs ==
    ASSUME Inv, NEW f \in DOMAIN frame, NEW i, Step(f, i), execute_matchargs(f, i)
    PROVE  Inv'
<1>1. i = Instruction(f) /\ i.op = "matchargs"
  BY DEF execute_matchargs, Step
<1>2. PICK to, pattern : to = Value(f, i, "dst") /\ pattern = value[Value(f, i, "pattern")[2]].regs
  OBVIOUS
<1>3. PICK given : given = [j \in Parameters(f) |-> At(Passed(f, j).place)]
  OBVIOUS
<1>4. \/ Branches(f, i, FALSE) \/ Breaks(f, "undefined")
      \/ /\ IsIndex(to) /\ \A j \in Parameters(f) : Passed(f, j).stop = "none"
         /\ Becomes(f, CopiedArguments(to[2], pattern, given))
  BY <1>2, <1>3 DEF execute_matchargs
<1>5. CASE Branches(f, i, FALSE)
  BY <1>1, <1>5, BranchesStep DEF Jumps
<1>6. CASE Breaks(f, "undefined")
  BY <1>6, BreaksStep DEF Ends
<1>7. CASE /\ IsIndex(to) /\ \A j \in Parameters(f) : Passed(f, j).stop = "none"
           /\ Becomes(f, CopiedArguments(to[2], pattern, given))
  <2>1. PICK n \in Nat : n = Function[frame[function_call(f)].func].argc
    BY ParameterFound
  <2>2. given = [j \in 1 .. n |-> given[j]] /\ DOMAIN given = 1 .. n
    BY <1>3, <2>1 DEF Parameters
  <2>3. IsSequence(given)
    BY <2>2, SequenceLength
  <2>4. \A j \in DOMAIN given : GoodValue(value, given[j])
    <3>1. ASSUME NEW j \in Parameters(f) PROVE GoodValue(value, given[j])
      <4>1. HasPlace(value, Passed(f, j).place)
        BY ParameterFound DEF GoodLink
      <4>2. QED
        BY <1>3, <4>1, PlaceValue DEF At, Inv
    <3>2. QED
      BY <1>3, <3>1
  <2>5. GoodValue(value, to)
    BY <1>1, <1>2, FoundDst DEF Quiet
  <2>6. to[2] \in DOMAIN value
    BY <1>7, <2>5 DEF GoodValue
  <2>7. PICK heap : heap = CopiedArguments(to[2], pattern, given)
    OBVIOUS
  <2>8. GoodHeap(heap) /\ Grows(value, heap)
    BY <2>3, <2>4, <2>6, <2>7, CopiedArgumentsHeap
  <2>9. QED
    BY <1>1, <1>7, <2>7, <2>8, BecomesStep
<1>8. QED
  BY <1>4, <1>5, <1>6, <1>7

(* The text of a string is no register.                                    *)
LEMMA TextHeap ==
    ASSUME NEW h, GoodHeap(h), NEW v \in DOMAIN h, NEW text, NEW k, k = [h EXCEPT ![v].text = text]
    PROVE  GoodHeap(k) /\ Grows(h, k)
<1>1. Shaped(h) /\ GoodShape(h[v])
  BY DEF GoodHeap, Shaped
<1>2. PICK o : o = [h[v] EXCEPT !.text = text]
  OBVIOUS
<1>3. /\ DOMAIN o = DOMAIN h[v] /\ o.regs = h[v].regs /\ o.func = h[v].func
      /\ o.family = h[v].family /\ o.argc = h[v].argc /\ o.moves = h[v].moves
  BY <1>1, <1>2 DEF GoodShape
<1>4. GoodShape(o)
  BY <1>1, <1>3 DEF GoodShape, Kin
<1>5. Grown(h[v], o)
  BY <1>1, <1>3, RegisterDomain DEF Grown
<1>6. k = [h EXCEPT ![v] = o]
  BY <1>2
<1>7. QED
  BY <1>3, <1>4, <1>5, <1>6, ObjectHeap

LEMMA NextStracc ==
    ASSUME Inv, NEW f \in DOMAIN frame, NEW i, Step(f, i), execute_stracc(f, i)
    PROVE  Inv'
<1>1. i = Instruction(f) /\ i.op = "stracc"
  BY DEF execute_stracc, Step
<1>2. PICK place, y : place = Target(f, i, "dst") /\ y = Value(f, i, "dst")
  OBVIOUS
<1>3. GoodValue(value, y)
  BY <1>1, <1>2, FoundDst DEF Quiet
<1>4. PICK text :
         \/ /\ Fail(f, Failure("type")) /\ frame' = [Next_pc(f) EXCEPT ![f].cfstate = "FAILED"]
            /\ UNCHANGED <<queue, io, known>>
         \/ y[1] = "String" /\ Becomes(f, [value EXCEPT ![y[2]].text = text])
         \/ Write(f, place, Failure("type"))
  <2>1. PICK x : x = Value(f, i, "src")
    OBVIOUS
  <2>2. PICK more : more = CASE x[1] = "String" -> value[x[2]].text
                             [] x[1] = "Int" -> <<ToString(x[2])>>
                             [] OTHER -> <<>>
    OBVIOUS
  <2>3. \/ /\ Fail(f, Failure("type")) /\ frame' = [Next_pc(f) EXCEPT ![f].cfstate = "FAILED"]
           /\ UNCHANGED <<queue, io, known>>
        \/ /\ y[1] = "String"
           /\ Becomes(f, IF x[1] \in {"String", "Int"} THEN [value EXCEPT ![y[2]].text = value[y[2]].text \o more]
                         ELSE Put(place, Failure("type")))
    BY <1>2, <2>1, <2>2 DEF execute_stracc
  <2>4. CASE x[1] \in {"String", "Int"}
    BY <2>3, <2>4
  <2>5. CASE x[1] \notin {"String", "Int"}
    BY <2>3, <2>5 DEF Write
  <2>6. QED
    BY <2>4, <2>5
<1>5. CASE /\ Fail(f, Failure("type")) /\ frame' = [Next_pc(f) EXCEPT ![f].cfstate = "FAILED"]
           /\ UNCHANGED <<queue, io, known>>
  <2>1. Moved(frame, frame')
    BY <1>1, <1>5, NextStateMoved DEF States
  <2>2. QED
    BY <1>5, <2>1, GoodPlain, KnownKept, FailStep
<1>6. CASE y[1] = "String" /\ Becomes(f, [value EXCEPT ![y[2]].text = text])
  <2>1. PICK heap : heap = [value EXCEPT ![y[2]].text = text]
    OBVIOUS
  <2>2. y[2] \in DOMAIN value
    BY <1>3, <1>6 DEF GoodValue
  <2>3. GoodHeap(heap) /\ Grows(value, heap)
    BY <2>1, <2>2, TextHeap DEF Inv
  <2>4. QED
    BY <1>1, <1>6, <2>1, <2>3, BecomesStep
<1>7. CASE Write(f, place, Failure("type"))
  BY <1>1, <1>7, GoodPlain, WriteStep
<1>8. QED
  BY <1>4, <1>5, <1>6, <1>7

(* Something is queued for the worker of the frame.                        *)
LEMMA AppendQueue ==
    ASSUME NEW fr, NEW cur, NEW q1, NEW q2, GoodQueue(fr, cur, q1, q2), NEW w, NEW g \in DOMAIN fr
    PROVE  /\ [q1 EXCEPT ![w] = Append(@, g)] \in [Worker -> Seq(DOMAIN fr)]
           /\ [q2 EXCEPT ![w] = Append(@, g)] \in [Worker -> Seq(DOMAIN fr)]
<1>1. \A s \in Seq(DOMAIN fr) : Append(s, g) \in Seq(DOMAIN fr)
  OBVIOUS
<1>2. [q1 EXCEPT ![w] = Append(@, g)] \in [Worker -> Seq(DOMAIN fr)]
  BY <1>1 DEF GoodQueue
<1>3. [q2 EXCEPT ![w] = Append(@, g)] \in [Worker -> Seq(DOMAIN fr)]
  BY <1>1 DEF GoodQueue
<1>4. QED
  BY <1>2, <1>3

LEMMA NextFork ==
    ASSUME Inv, NEW f \in DOMAIN frame, NEW i, Step(f, i), execute_fork(f, i)
    PROVE  Inv'
<1>1. i = Instruction(f) /\ i.op = "fork" /\ Len(frame) < MaxFrames
  BY DEF execute_fork, Forking, Step
<1>2. PICK mid : mid = Goto(f, frame[f].pc + i.jump)
  OBVIOUS
<1>3. PICK c : c = NewPath(f, frame[f].proc, function_call(f), frame[f].pc + 1, Target(f, i, "dst"))
  OBVIOUS
<1>4. /\ frame' = Append(mid, c)
      /\ fresh' = [fresh EXCEPT ![on(f)] = Append(@, Len(frame) + 1)]
      /\ Executed(f) /\ UNCHANGED <<current, stale, io, known>>
      /\ value' = Put(Target(f, i, "dst"), Promise)
  BY <1>2, <1>3 DEF execute_fork, Forking
<1>5. GoodHeap(value') /\ Grows(value, value')
  <2>1. PICK a, b : a = Target(f, i, "dst")[1] /\ b = Target(f, i, "dst")[2] + 1
    OBVIOUS
  <2>2. value' = Set(value, a, b, Promise)
    BY <1>4, <2>1 DEF Put, Set
  <2>3. QED
    BY <2>2, GoodPlain, PutHeap DEF Inv
<1>6. Shaped(value) /\ Shaped(value') /\ Len(process) \in Nat
  BY <1>5, InvFacts DEF GoodHeap
<1>7. Moved(frame, mid) /\ Len(mid) = Len(frame)
  BY <1>1, <1>2, JumpMoved DEF Moved
<1>8. GoodFrames(value', mid, Len(process)) /\ DOMAIN mid = DOMAIN frame
  BY <1>5, <1>6, <1>7, MovedFrames DEF Inv
<1>9. /\ DOMAIN c = Fields /\ c.cfstate = "READY" /\ c.context = EmptyContext
      /\ c.parent = f /\ c.proc = frame[f].proc /\ c.type = "path" /\ c.call = function_call(f) /\ c.pc = frame[f].pc + 1
      /\ c.promised = Target(f, i, "dst")
  BY <1>3 DEF NewPath, NewFrame, Fields
<1>10. f \in 0 .. Len(mid) /\ frame[f].proc \in 1 .. Len(process)
  BY <1>7, OnWorker, InvFacts
<1>11. /\ function_call(f) \in DOMAIN mid /\ mid[function_call(f)].type = "call"
       /\ c.pc \in DOMAIN Function[mid[function_call(f)].func].code
  <2>1. function_call(f) \in DOMAIN frame /\ frame[function_call(f)].type = "call"
    BY CallOfFrame
  <2>2. Like(frame[function_call(f)], mid[function_call(f)])
    BY <1>7, <2>1 DEF Moved
  <2>3. frame[f].pc + 1 \in DOMAIN Function[frame[function_call(f)].func].code
    BY <1>1, CodeAt, NextMoved
  <2>4. QED
    BY <1>8, <1>9, <2>1, <2>2, <2>3 DEF Like
<1>12. GoodFrames(value', frame', Len(process)) /\ DOMAIN frame' = DOMAIN frame \cup {Len(frame) + 1}
  <2>1. c.parent \in 0 .. Len(mid) /\ c.proc \in 1 .. Len(process) /\ Len(mid) < MaxFrames
    BY <1>1, <1>7, <1>9, <1>10
  <2>2. /\ c.type = "path" /\ c.call \in DOMAIN mid /\ mid[c.call].type = "call"
        /\ HasPlace(value', c.promised) /\ c.pc \in DOMAIN Function[mid[c.call].func].code
    <3>1. HasPlace(value, c.promised)
      BY <1>1, <1>9, FoundDst DEF Quiet
    <3>2. HasPlace(value', c.promised)
      BY <1>5, <1>6, <3>1, PlaceGrows
    <3>3. QED
      BY <1>9, <1>11, <3>2
  <2>3. DOMAIN c = Fields /\ c.cfstate = "READY" /\ c.context = EmptyContext
    BY <1>9
  <2>4. GoodFrames(value', frame', Len(process)) /\ DOMAIN frame' = DOMAIN mid \cup {Len(mid) + 1}
    <3>1. GoodFrames(value', mid, Len(process)) /\ frame' = Append(mid, c)
      BY <1>4, <1>8
    <3>2. GoodFrames(value', frame', Len(process))
      BY <2>1, <2>2, <2>3, <3>1, AppendFrame
    <3>3. DOMAIN frame' = DOMAIN mid \cup {Len(mid) + 1}
      BY <2>1, <2>2, <2>3, <3>1, AppendFrame
    <3>4. QED
      BY <3>2, <3>3
  <2>5. QED
    BY <1>7, <1>8, <2>4
<1>13. GoodProcesses(value', frame', process)
  BY <1>5, <1>6, <1>12, ProcessesKept DEF Inv
<1>14. GoodIo(value', frame', io)
  BY <1>5, <1>6, <1>12, IoKept DEF Inv
<1>15. GoodQueue(frame', current, fresh', stale)
  <2>1. PICK g : g = Len(frame) + 1
    OBVIOUS
  <2>2. GoodQueue(frame', current, fresh, stale) /\ g \in DOMAIN frame'
    BY <1>12, <2>1, QueueKept DEF Inv
  <2>3. fresh' = [fresh EXCEPT ![on(f)] = Append(@, g)]
    BY <1>4, <2>1
  <2>4. fresh' \in [Worker -> Seq(DOMAIN frame')]
    BY <2>2, <2>3, AppendQueue
  <2>5. QED
    BY <2>2, <2>4 DEF GoodQueue
<1>16. Rest'
  BY <1>4 DEF Inv, Rest, Executed, Turned
<1>17. QED
  BY <1>4, <1>5, <1>12, <1>13, <1>14, <1>15, <1>16 DEF Inv, Executed

(* A call from a function value, which has the registers for its function. *)
LEMMA CallOfValue ==
    ASSUME Inv, NEW v \in DOMAIN value, value[v].func # "none",
           NEW c, c.func = value[v].func, c.value = v, c.result # NoPlace => HasPlace(value, c.result)
    PROVE  GoodCall(value, c) /\ 1 \in DOMAIN Function[c.func].code
<1>1. GoodShape(value[v])
  BY InvFacts DEF Shaped
<1>2. c.func \in DOMAIN Function /\ regtotal(c.func) <= Len(value[c.value].regs)
  BY <1>1 DEF GoodShape
<1>3. 1 \in DOMAIN Function[c.func].code
  BY <1>2, FunctionAssumption
<1>4. QED
  BY <1>2, <1>3 DEF GoodCall

LEMMA NextNewproc ==
    ASSUME Inv, NEW f \in DOMAIN frame, NEW i, Step(f, i), execute_newproc(f, i)
    PROVE  Inv'
<1>1. i = Instruction(f) /\ i.op = "newproc"
  BY DEF execute_newproc, Step
<1>2. PICK func : func = Value(f, i, "src")
  OBVIOUS
<1>3. PICK pid : pid = Target(f, i, "dst")
  OBVIOUS
<1>4. GoodValue(value, func)
  BY <1>1, <1>2, FoundSrc DEF Sources
<1>5. CASE func[1] # "Function" /\ Write(f, pid, Failure("type"))
  BY <1>1, <1>5, GoodPlain, WriteStep
<1>6. CASE Breaks(f, "null")
  BY <1>6, BreaksStep DEF Ends
<1>7. CASE /\ func[1] = "Function" /\ Len(frame) < MaxFrames
           /\ process' = Append(process, NewProcess(Len(frame) + 1))
           /\ frame' = Append(Next_pc(f), NewCall(0, Len(process) + 1, NoPlace, func[2], value[func[2]].func))
           /\ value' = [Put(Target(f, i, "src"), Void) EXCEPT ![pid[1]].regs[pid[2] + 1] = Num(Len(process) + 1)]
           /\ Turned(f) /\ UNCHANGED <<broken, queue, io, known>>
  <2>1. PICK v : v = func[2]
    OBVIOUS
  <2>2. v \in DOMAIN value /\ value[v].func # "none"
    BY <1>4, <1>7, <2>1 DEF GoodValue, IsIndex
  <2>3. PICK mid : mid = Next_pc(f)
    OBVIOUS
  <2>4. PICK c : c = NewCall(0, Len(process) + 1, NoPlace, v, value[v].func)
    OBVIOUS
  <2>5. PICK n \in Nat : n = Len(process) + 1
    BY InvFacts
  <2>6. GoodHeap(value') /\ Grows(value, value')
    <3>1. PICK a, b : a = Target(f, i, "src")[1] /\ b = Target(f, i, "src")[2] + 1
      OBVIOUS
    <3>2. PICK h : h = Set(value, a, b, Void)
      OBVIOUS
    <3>3. GoodHeap(h) /\ Grows(value, h)
      BY <3>2, GoodPlain, PutHeap DEF Inv
    <3>4. PICK d, e : d = pid[1] /\ e = pid[2] + 1
      OBVIOUS
    <3>5. value' = Set(h, d, e, Num(n))
      BY <1>7, <2>5, <3>1, <3>2, <3>4 DEF Put, Set
    <3>6. GoodValue(h, Num(n))
      <4>1. \A m \in Int : GoodValue(h, Num(m))
        BY GoodPlain
      <4>2. n \in Int
        OBVIOUS
      <4>3. QED
        BY <4>1, <4>2
    <3>7. GoodHeap(value') /\ Grows(h, value')
      BY <3>3, <3>5, <3>6, PutHeap
    <3>8. QED
      BY <3>3, <3>7, InvFacts, GrowsTransitive DEF GoodHeap
  <2>7. Shaped(value) /\ Shaped(value') /\ Len(process) \in Nat /\ Len(process) <= n
    BY <2>5, <2>6, InvFacts DEF GoodHeap
  <2>8. Moved(frame, mid) /\ Len(mid) = Len(frame)
    BY <1>1, <2>3, NextMoved DEF Moved
  <2>9. GoodFrames(value', mid, n) /\ DOMAIN mid = DOMAIN frame
    BY <2>6, <2>7, <2>8, MovedFrames DEF Inv
  <2>10. /\ DOMAIN c = Fields /\ c.cfstate = "READY" /\ c.context = EmptyContext
         /\ c.parent = 0 /\ c.proc = n /\ c.type = "call" /\ c.pc = 1
         /\ c.value = v /\ c.func = value[v].func /\ c.result = NoPlace
    BY <2>4, <2>5 DEF NewCall, NewFrame, Fields
  <2>11. GoodCall(value, c) /\ 1 \in DOMAIN Function[c.func].code
    BY <2>2, <2>10, CallOfValue
  <2>12. c.type = "call" /\ GoodCall(value', c) /\ c.pc \in DOMAIN Function[c.func].code
    BY <2>6, <2>7, <2>10, <2>11, CallGrows
  <2>13. GoodFrames(value', frame', n) /\ DOMAIN frame' = DOMAIN frame \cup {Len(frame) + 1}
    <3>1. GoodFrames(value', mid, n) /\ frame' = Append(mid, c) /\ Len(mid) < MaxFrames
      BY <1>7, <2>1, <2>3, <2>4, <2>8, <2>9
    <3>2. DOMAIN c = Fields /\ c.cfstate = "READY" /\ c.context = EmptyContext
      BY <2>10
    <3>3. c.parent \in 0 .. Len(mid) /\ c.proc \in 1 .. n
      BY <2>5, <2>8, <2>10, InvFacts
    <3>4. GoodFrames(value', frame', n)
      BY <2>12, <3>1, <3>2, <3>3, AppendFrame
    <3>5. DOMAIN frame' = DOMAIN mid \cup {Len(mid) + 1}
      BY <2>12, <3>1, <3>2, <3>3, AppendFrame
    <3>6. QED
      BY <2>8, <2>9, <3>4, <3>5
  <2>14. GoodProcesses(value', frame', process') /\ Len(process') = n
    <3>1. GoodProcesses(value', frame', process)
      BY <2>6, <2>7, <2>13, ProcessesKept DEF Inv
    <3>2. PICK p : p = NewProcess(Len(frame) + 1)
      OBVIOUS
    <3>3. GoodProcess(value', frame', p)
      <4>1. DOMAIN p = {"worker", "call", "recv"} /\ p.worker = 0 /\ p.call = Len(frame) + 1 /\ p.recv = <<>>
        BY <3>2 DEF NewProcess
      <4>2. 0 \in 0 .. NumWorkers
        BY BoundsAssumption
      <4>3. IsSequence(p.recv) /\ DOMAIN p.recv = {}
        BY <4>1, EmptySequence, SequenceDomain
      <4>4. QED
        BY <2>13, <4>1, <4>2, <4>3 DEF GoodProcess
    <3>4. process' = Append(process, p) /\ IsSequence(process)
      BY <1>7, <3>2, InvFacts
    <3>5. IsSequence(process') /\ Len(process') = Len(process) + 1
      BY <3>4, AppendSequence
    <3>6. /\ process'[Len(process) + 1] = p
          /\ \A k \in DOMAIN process : process'[k] = process[k]
          /\ DOMAIN process' = DOMAIN process \cup {Len(process) + 1}
      BY <3>4, AppendSequence
    <3>7. QED
      BY <2>5, <3>1, <3>3, <3>5, <3>6 DEF GoodProcesses
  <2>15. GoodIo(value', frame', io)
    BY <2>6, <2>7, <2>13, IoKept DEF Inv
  <2>16. GoodQueue(frame', current, fresh, stale)
    BY <2>13, QueueKept DEF Inv
  <2>17. Rest'
    BY <1>7 DEF Inv, Rest, Turned
  <2>18. QED
    BY <1>7, <2>6, <2>13, <2>14, <2>15, <2>16, <2>17 DEF Inv, queue
<1>8. QED
  BY <1>2, <1>3, <1>5, <1>6, <1>7 DEF execute_newproc

LEMMA TailSequence ==
    ASSUME NEW s, IsSequence(s), s # <<>>
    PROVE  /\ 1 \in DOMAIN s /\ Head(s) = s[1]
           /\ IsSequence(Tail(s))
           /\ \A k \in DOMAIN Tail(s) : k + 1 \in DOMAIN s /\ Tail(s)[k] = s[k + 1]
<1>1. Len(s) \in Nat /\ DOMAIN s = 1 .. Len(s) /\ s = [k \in 1 .. Len(s) |-> s[k]]
  BY DEF IsSequence
<1> DEFINE S == {s[k] : k \in DOMAIN s}
<1>2. \A k \in 1 .. Len(s) : s[k] \in S
  BY <1>1
<1> HIDE DEF S
<1>3. s \in Seq(S)
  BY <1>1, <1>2
<1>4. Tail(s) \in Seq(S) /\ Head(s) = s[1] /\ Len(s) # 0
  BY <1>3
<1>5. Len(Tail(s)) = Len(s) - 1 /\ \A k \in 1 .. Len(s) - 1 : Tail(s)[k] = s[k + 1]
  BY <1>3
<1>6. DOMAIN Tail(s) = 1 .. Len(s) - 1
  BY <1>4, <1>5
<1>7. 1 \in DOMAIN s /\ \A k \in 1 .. Len(s) - 1 : k + 1 \in DOMAIN s
  BY <1>1, <1>4
<1>8. IsSequence(Tail(s))
  BY <1>4, SeqSequence
<1>9. QED
  BY <1>4, <1>5, <1>6, <1>7, <1>8

(* The messages of a process change.                                       *)
LEMMA MailStep ==
    ASSUME Inv, NEW f \in DOMAIN frame, GoodHeap(value'), Grows(value, value'), Moved(frame, frame'),
           NEW p \in DOMAIN process, NEW s, IsSequence(s), \A k \in DOMAIN s : HasPlace(value', <<s[k], 0, 0>>),
           process' = [process EXCEPT ![p].recv = s], Turned(f), UNCHANGED <<broken, queue, io, known>>
    PROVE  Inv'
<1>1. Shaped(value) /\ Shaped(value') /\ Len(process) \in Nat
  BY InvFacts DEF GoodHeap
<1>2. GoodFrames(value', frame', Len(process)) /\ DOMAIN frame' = DOMAIN frame
  BY <1>1, MovedFrames DEF Inv
<1>3. PICK new : new = [process[p] EXCEPT !.recv = s]
  OBVIOUS
<1>4. process' = [process EXCEPT ![p] = new]
  BY <1>3
<1>5. IsSequence(process') /\ Len(process') = Len(process)
  <2>1. IsSequence(process)
    BY InvFacts
  <2>2. IsSequence([process EXCEPT ![p] = new]) /\ Len([process EXCEPT ![p] = new]) = Len(process)
    BY <2>1, ExceptSequence
  <2>3. QED
    BY <1>4, <2>2, Zenon
<1>6. GoodProcesses(value', frame', process')
  <2>1. GoodProcesses(value', frame', process)
    BY <1>1, <1>2, ProcessesKept DEF Inv
  <2>2. GoodProcess(value', frame', process[p])
    BY <2>1 DEF GoodProcesses
  <2>3. /\ DOMAIN new = {"worker", "call", "recv"} /\ new.worker = process[p].worker
        /\ new.call = process[p].call /\ new.recv = s
    BY <1>3, <2>2 DEF GoodProcess
  <2>4. GoodProcess(value', frame', new)
    BY <2>2, <2>3 DEF GoodProcess
  <2>5. ASSUME NEW q \in DOMAIN process' PROVE GoodProcess(value', frame', process'[q])
    BY <1>4, <2>1, <2>4 DEF GoodProcesses
  <2>6. QED
    BY <1>5, <2>5 DEF GoodProcesses
<1>7. GoodIo(value', frame', io)
  BY <1>1, <1>2, IoKept DEF Inv
<1>8. GoodQueue(frame', current, fresh, stale)
  BY <1>2, QueueKept DEF Inv
<1>9. Rest'
  BY DEF Inv, Rest, Turned
<1>10. QED
  BY <1>2, <1>5, <1>6, <1>7, <1>8, <1>9 DEF Inv, queue

LEMMA NextRecv ==
    ASSUME Inv, NEW f \in DOMAIN frame, NEW i, Step(f, i), execute_recv(f, i)
    PROVE  Inv'
<1>1. i = Instruction(f) /\ i.op = "recv" /\ Turned(f) /\ UNCHANGED <<broken, queue, io, known>>
  BY DEF execute_recv, Step
<1>2. CASE /\ frame' = [frame EXCEPT ![f].cfstate = "PEERWAIT"]
           /\ UNCHANGED <<process, value>>
  BY <1>1, <1>2, KnownKept, StateStep DEF Executed, States
<1>3. CASE /\ proc(f).recv # <<>>
           /\ value' = Put(Target(f, i, "dst"), In(value, There(value, Head(proc(f).recv), 0)))
           /\ process' = [process EXCEPT ![frame[f].proc].recv = Tail(@)]
           /\ frame' = Next_pc(f)
  <2>1. PICK p : p = frame[f].proc
    OBVIOUS
  <2>2. p \in DOMAIN process /\ GoodProcess(value, frame, process[p]) /\ proc(f) = process[p]
    BY <2>1, OnWorker DEF Inv, GoodProcesses, proc
  <2>3. PICK s : s = process[p].recv
    OBVIOUS
  <2>4. /\ 1 \in DOMAIN s /\ Head(s) = s[1] /\ IsSequence(Tail(s))
        /\ \A k \in DOMAIN Tail(s) : k + 1 \in DOMAIN s /\ Tail(s)[k] = s[k + 1]
    BY <1>3, <2>2, <2>3, TailSequence DEF GoodProcess
  <2>5. PICK place : place = There(value, Head(s), 0)
    OBVIOUS
  <2>6. HasPlace(value, place)
    <3>1. HasPlace(value, <<Head(s), 0, 0>>)
      BY <2>2, <2>3, <2>4 DEF GoodProcess
    <3>2. QED
      BY <2>5, <3>1, InvFacts, RegisterDomain DEF HasPlace, There
  <2>7. GoodValue(value, In(value, place))
    BY <2>6, PlaceValue DEF Inv
  <2>8. GoodHeap(value') /\ Grows(value, value')
    <3>1. PICK a, b : a = Target(f, i, "dst")[1] /\ b = Target(f, i, "dst")[2] + 1
      OBVIOUS
    <3>2. value' = Set(value, a, b, In(value, place))
      BY <1>3, <2>2, <2>3, <2>5, <3>1 DEF Put, Set
    <3>3. QED
      BY <2>7, <3>2, PutHeap DEF Inv
  <2>9. Moved(frame, frame')
    BY <1>1, <1>3, NextMoved
  <2>10. \A k \in DOMAIN Tail(s) : HasPlace(value', <<Tail(s)[k], 0, 0>>)
    <3>1. \A k \in DOMAIN s : HasPlace(value, <<s[k], 0, 0>>)
      BY <2>2, <2>3 DEF GoodProcess
    <3>2. \A k \in DOMAIN s : HasPlace(value', <<s[k], 0, 0>>)
      BY <2>8, <3>1, PlaceGrows, InvFacts DEF GoodHeap
    <3>3. QED
      BY <2>4, <3>2
  <2>11. process' = [process EXCEPT ![p].recv = Tail(s)]
    BY <1>3, <2>1, <2>3
  <2>12. QED
    BY <1>1, <2>2, <2>4, <2>8, <2>9, <2>10, <2>11, MailStep
<1>4. QED
  BY <1>2, <1>3 DEF execute_recv

-----------------------------------------------------------------------------
(***************************************************************************)
(* Calls: the override that is chosen, and the registers it gets.          *)
(***************************************************************************)
LEMMA FirstIn == ASSUME NEW S \in SUBSET Nat, S # {} PROVE First(S) \in S
<1>1. \E k \in S : \A l \in S : k <= l
  BY Least
<1>2. QED
  BY <1>1, Zenon DEF First

LEMMA FoundOverride ==
    ASSUME NEW w, NEW family, NEW types, NEW over, over = find_override(w, family, types), over # "none"
    PROVE  over \in DOMAIN Function /\ Function[over].context = "override" /\ Function[over].family = family
<1>1. DOMAIN Override \in SUBSET Nat /\ \A k \in DOMAIN Override : Override[k] \in DOMAIN Function
  BY OverrideAssumption
<1>2. PICK compiled : over = Override[First(Overrides(w, family, types, compiled))] /\ Overrides(w, family, types, compiled) # {}
  BY DEF find_override
<1>3. Overrides(w, family, types, compiled) \in SUBSET Nat
  BY <1>1 DEF Overrides
<1>4. PICK k \in Overrides(w, family, types, compiled) : k = First(Overrides(w, family, types, compiled))
  BY <1>2, <1>3, FirstIn
<1>5. k \in DOMAIN Override /\ Function[Override[k]].family = family
  BY DEF Overrides
<1>6. QED
  BY <1>1, <1>2, <1>4, <1>5, OverrideAssumption

(* What a function value may become: it keeps what is in its registers.    *)
Became(o, val) ==
    /\ GoodShape(val) /\ Grown(o, val) /\ val.func # "none"
    /\ val.family = o.family /\ val.argc = o.argc
    /\ \A r \in DOMAIN o.regs : r \in DOMAIN val.regs /\ val.regs[r] = o.regs[r]
    /\ \A r \in DOMAIN val.regs : (r \in DOMAIN o.regs /\ val.regs[r] = o.regs[r]) \/ val.regs[r] = Void

LEMMA Reassigned ==
    ASSUME NEW o, GoodShape(o), o.func # "none", NEW func \in DOMAIN Function, NEW moves,
           \/ func = o.family
           \/ Function[func].context = "override" /\ Function[func].family = o.family
    PROVE  Became(o, reassign_func(o, func, moves)) /\ reassign_func(o, func, moves).func = func
<1>1. PICK n \in Nat : n = regtotal(func)
  BY RegTotal
<1>2. PICK l \in Nat : l = Len(o.regs)
  BY SequenceDomain DEF GoodShape
<1>3. IsSequence(o.regs) /\ DOMAIN o.regs = 1 .. l
  BY <1>2, SequenceDomain DEF GoodShape
<1>4. PICK regs : regs = IF l < n THEN o.regs \o Voids(n - l) ELSE o.regs
  OBVIOUS
<1>5. PICK m : m = IF l < n /\ moves THEN o.moves + 1 ELSE o.moves
  OBVIOUS
<1>6. PICK val : val = reassign_func(o, func, moves)
  OBVIOUS
<1>7. /\ DOMAIN val = DOMAIN o /\ val.func = func /\ val.regs = regs /\ val.moves = m
      /\ val.family = o.family /\ val.argc = o.argc
  <2>1. val = [o EXCEPT !.func = func, !.regs = regs, !.moves = m]
    BY <1>1, <1>2, <1>4, <1>5, <1>6, Zenon DEF reassign_func
  <2>2. DOMAIN o = {"func", "family", "argc", "regs", "moves", "text"}
    BY DEF GoodShape
  <2>3. QED
    BY <2>1, <2>2
<1>8. /\ IsSequence(regs) /\ l <= Len(regs) /\ n <= Len(regs)
      /\ \A r \in DOMAIN o.regs : r \in DOMAIN regs /\ regs[r] = o.regs[r]
      /\ \A r \in DOMAIN regs : (r \in DOMAIN o.regs /\ regs[r] = o.regs[r]) \/ regs[r] = Void
  <2>1. CASE ~(l < n)
    <3>1. regs = o.regs
      BY <1>4, <2>1
    <3>2. IsSequence(regs) /\ Len(regs) = l
      BY <1>2, <1>3, <3>1
    <3>3. QED
      BY <2>1, <3>1, <3>2
  <2>2. CASE l < n
    <3>1. PICK more \in Nat : more = n - l
      BY <2>2
    <3>2. PICK t : t = Voids(more)
      OBVIOUS
    <3>3. IsSequence(t) /\ Len(t) = more /\ DOMAIN t = 1 .. more /\ \A r \in DOMAIN t : t[r] = Void
      BY <3>2, VoidSequence, SequenceDomain
    <3>4. regs = o.regs \o t
      BY <1>4, <2>2, <3>1, <3>2
    <3>5. /\ IsSequence(regs) /\ Len(regs) = l + more
          /\ \A k \in DOMAIN o.regs : regs[k] = o.regs[k]
          /\ \A k \in DOMAIN t : regs[l + k] = t[k]
      <4>1. PICK s : s = o.regs
        OBVIOUS
      <4>2. IsSequence(s) /\ Len(s) = l
        BY <1>2, <1>3, <4>1
      <4>3. IsSequence(s) /\ IsSequence(t) /\ regs = s \o t
        BY <3>3, <3>4, <4>1, <4>2
      <4>4. IsSequence(regs) /\ Len(regs) = Len(s) + Len(t)
        BY <4>3, ConcatSequence
      <4>5. \A k \in DOMAIN s : regs[k] = s[k]
        BY <4>3, ConcatSequence
      <4>6. \A k \in DOMAIN t : regs[Len(s) + k] = t[k]
        BY <4>3, ConcatSequence
      <4>7. QED
        BY <3>3, <4>1, <4>2, <4>4, <4>5, <4>6
    <3>6. DOMAIN regs = 1 .. n
      BY <3>1, <3>5, SequenceDomain
    <3>7. ASSUME NEW r \in DOMAIN regs, r \notin DOMAIN o.regs PROVE regs[r] = Void
      <4>1. PICK k \in 1 .. more : r = l + k
        <5>1. r - l \in 1 .. more /\ r = l + (r - l)
          BY <1>3, <3>1, <3>6, <3>7
        <5>2. QED
          BY <5>1
      <4>2. QED
        BY <3>3, <3>5, <4>1
    <3>8. QED
      BY <1>3, <2>2, <3>1, <3>5, <3>6, <3>7
  <2>3. QED
    BY <2>1, <2>2
<1>9. GoodShape(val)
  <2>1. func # "none" /\ m \in Nat
    BY <1>5, FunctionAssumption DEF GoodShape
  <2>2. val.argc <= Len(val.regs)
    <3>1. o.argc \in Nat /\ o.argc <= l
      BY <1>2, RegTotal DEF GoodShape, Loadable
    <3>2. Len(regs) \in Nat
      BY <1>8, SequenceDomain
    <3>3. QED
      BY <1>7, <1>8, <3>1, <3>2
  <2>3. QED
    BY <1>1, <1>7, <1>8, <2>1, <2>2 DEF GoodShape, Kin
<1>10. Grown(o, val) /\ val.func # "none"
  <2>1. o.moves \in Nat /\ o.moves <= m
    BY <1>5 DEF GoodShape
  <2>2. QED
    BY <1>2, <1>7, <1>8, <2>1, FunctionAssumption DEF Grown
<1>11. QED
  BY <1>6, <1>7, <1>8, <1>9, <1>10 DEF Became

LEMMA BecameTwice ==
    ASSUME NEW o, NEW mid, NEW val, GoodShape(o), Became(o, mid), Became(mid, val)
    PROVE  Became(o, val)
<1>1. /\ Len(o.regs) \in Nat /\ Len(mid.regs) \in Nat /\ Len(val.regs) \in Nat
      /\ o.moves \in Nat /\ mid.moves \in Nat /\ val.moves \in Nat
  BY SequenceDomain DEF GoodShape, Became
<1>2. Grown(o, val)
  BY <1>1 DEF Became, Grown
<1>3. \A r \in DOMAIN val.regs : (r \in DOMAIN o.regs /\ val.regs[r] = o.regs[r]) \/ val.regs[r] = Void
  BY DEF Became
<1>4. QED
  BY <1>2, <1>3 DEF Became

LEMMA BecameNot == ASSUME NEW o, GoodShape(o), o.func # "none" PROVE Became(o, o)
<1>1. Len(o.regs) \in Nat /\ o.moves \in Nat
  BY SequenceDomain DEF GoodShape
<1>2. QED
  BY <1>1 DEF Became, Grown

LEMMA SameTypes ==
    ASSUME NEW o, GoodShape(o), o.func # "none", NEW val, Became(o, val)
    PROVE  ValueTypes(val) = ValueTypes(o)
<1>1. PICK inner : inner = Types
  OBVIOUS
<1>2. o.argc \in Nat /\ o.argc <= Len(o.regs) /\ DOMAIN o.regs = 1 .. Len(o.regs) /\ Len(o.regs) \in Nat
  BY RegTotal, SequenceDomain DEF GoodShape, Loadable
<1>3. val.argc = o.argc /\ val.func # "none" /\ \A r \in 1 .. o.argc : val.regs[r] = o.regs[r]
  BY <1>2 DEF Became
<1>4. [r \in 1 .. val.argc |-> append_type(val.regs[r], inner)] = [r \in 1 .. o.argc |-> append_type(o.regs[r], inner)]
  BY <1>3
<1>5. TypesOf(val, inner) = TypesOf(o, inner)
  BY <1>3, <1>4 DEF TypesOf
<1>6. QED
  BY <1>1, <1>5 DEF ValueTypes

LEMMA OverriddenIs ==
    ASSUME NEW o, GoodShape(o), o.func # "none", o.func = o.family, NEW w, NEW moves
    PROVE  /\ Became(o, Overridden(w, o, moves))
           /\ Overridden(w, o, moves).func = LET over == find_override(w, o.family, ValueTypes(o))
                                      IN  IF over = "none" THEN o.family ELSE over
<1>1. PICK over : over = find_override(w, o.family, ValueTypes(o))
  OBVIOUS
<1>2. CASE over = "none"
  <2>1. Overridden(w, o, moves) = o
    BY <1>1, <1>2 DEF Overridden
  <2>2. Became(o, o)
    BY BecameNot
  <2>3. QED
    BY <1>1, <1>2, <2>1, <2>2
<1>3. CASE over # "none"
  <2>1. over \in DOMAIN Function /\ Function[over].context = "override" /\ Function[over].family = o.family
    BY <1>1, <1>3, FoundOverride
  <2>2. Overridden(w, o, moves) = reassign_func(o, over, moves)
    BY <1>1, <1>3 DEF Overridden
  <2>3. Became(o, Overridden(w, o, moves)) /\ Overridden(w, o, moves).func = over
    BY <2>1, <2>2, Reassigned
  <2>4. QED
    BY <1>1, <1>3, <2>3
<1>4. QED
  BY <1>2, <1>3

(* Whatever a function value has called before, what it calls now is the   *)
(* choice of its own function; a traditional function stays what it is.    *)
LEMMA OverrideFunction ==
    ASSUME NEW o, GoodShape(o), o.func # "none", NEW w, NEW moves
    PROVE  /\ Became(o, override_function(w, o, moves))
           /\ override_function(w, o, moves).func = Choice(w, o)
           /\ Function[override_function(w, o, moves).func].context = "traditional" => override_function(w, o, moves) = o
<1>1. Loadable(o.family) /\ Kin(o) /\ o.func \in DOMAIN Function
  BY DEF GoodShape
<1>2. PICK val : val = override_function(w, o, moves)
  OBVIOUS
<1>3. CASE Function[o.func].context = "traditional"
  <2>1. val = o /\ o.func = o.family
    BY <1>1, <1>2, <1>3 DEF override_function, Kin
  <2>2. Became(o, o)
    BY BecameNot
  <2>3. QED
    BY <1>2, <1>3, <2>1, <2>2 DEF Choice
<1>4. CASE Function[o.func].context # "traditional"
  <2>1. PICK mid : mid = IF Function[o.func].context = "override" THEN reassign_func(o, Function[o.func].family, moves) ELSE o
    OBVIOUS
  <2>2. val = Overridden(w, mid, moves)
    BY <1>2, <1>4, <2>1 DEF override_function
  <2>3. Became(o, mid) /\ mid.func = o.family
    <3>1. CASE Function[o.func].context = "override"
      <4>1. Function[o.func].family = o.family /\ o.family \in DOMAIN Function
        BY <1>1, <3>1 DEF Kin, Loadable
      <4>2. mid = reassign_func(o, o.family, moves)
        BY <2>1, <3>1, <4>1
      <4>3. QED
        BY <4>1, <4>2, Reassigned
    <3>2. CASE Function[o.func].context # "override"
      <4>1. mid = o /\ o.func = o.family
        BY <1>1, <2>1, <3>2 DEF Kin
      <4>2. QED
        BY <4>1, BecameNot
    <3>3. QED
      BY <3>1, <3>2
  <2>4. GoodShape(mid) /\ mid.func # "none" /\ mid.family = o.family
    BY <2>3 DEF Became
  <2>5. PICK over : over = find_override(w, o.family, ValueTypes(o))
    OBVIOUS
  <2>6. over = find_override(w, mid.family, ValueTypes(mid))
    BY <2>3, <2>4, <2>5, SameTypes
  <2>7. Became(mid, val)
    BY <2>2, <2>3, <2>4, OverriddenIs
  <2>8. val.func = IF over = "none" THEN o.family ELSE over
    <3>1. Overridden(w, mid, moves).func = LET found == find_override(w, mid.family, ValueTypes(mid))
                                    IN  IF found = "none" THEN mid.family ELSE found
      BY <2>3, <2>4, OverriddenIs
    <3>2. QED
      BY <2>2, <2>4, <2>6, <3>1
  <2>9. Function[o.family].context # "traditional"
    <3>1. CASE Function[o.func].context = "override"
      <4>1. Function[o.func].family = o.family
        BY <1>1, <3>1 DEF Kin, Loadable
      <4>2. QED
        BY <1>1, <3>1, <4>1, FunctionAssumption
    <3>2. CASE Function[o.func].context # "override"
      BY <1>1, <1>4, <3>2 DEF Kin
    <3>3. QED
      BY <3>1, <3>2
  <2>10. Function[val.func].context # "traditional"
    <3>1. over # "none" => Function[over].context = "override"
      BY <2>5, FoundOverride
    <3>2. QED
      BY <2>8, <2>9, <3>1
  <2>11. val.func = Choice(w, o)
    BY <2>5, <2>8, <2>9 DEF Choice
  <2>12. Became(o, val)
    BY <2>3, <2>7, BecameTwice
  <2>13. QED
    BY <1>2, <2>10, <2>11, <2>12
<1>5. QED
  BY <1>3, <1>4

(* What a call finds: a function value, which may have become another.     *)
Called(f, i, v, heap) ==
    /\ Step(f, i) /\ i.op = "call" /\ v \in DOMAIN value /\ value[v].func # "none"
    /\ \E moves \in BOOLEAN : heap = [value EXCEPT ![v] = override_function(on(f), value[v], moves)]

LEMMA CalledIs ==
    ASSUME Inv, NEW f \in DOMAIN frame, NEW i, NEW v, NEW heap, Called(f, i, v, heap)
    PROVE  /\ GoodHeap(heap) /\ Grows(value, heap) /\ Shaped(heap)
           /\ DOMAIN heap = DOMAIN value /\ Len(heap) = Len(value) /\ IsSequence(heap)
           /\ Became(value[v], heap[v]) /\ heap[v].func = Choice(on(f), value[v])
           /\ GoodShape(heap[v]) /\ heap[v].func \in DOMAIN Function
           /\ \A u \in DOMAIN value : u # v => heap[u] = value[u]
<1>1. GoodShape(value[v]) /\ value[v].func # "none" /\ v \in DOMAIN value /\ IsSequence(value)
  BY InvFacts DEF Called, Shaped
<1>2. PICK o, w : o = value[v] /\ w = on(f)
  OBVIOUS
<1>3. PICK moves \in BOOLEAN : heap = [value EXCEPT ![v] = override_function(w, o, moves)]
  BY <1>2 DEF Called
<1>4. PICK val : val = override_function(w, o, moves)
  OBVIOUS
<1>5. Became(o, val) /\ val.func = Choice(w, o)
  BY <1>1, <1>2, <1>4, OverrideFunction
<1>6. heap = [value EXCEPT ![v] = val]
  BY <1>3, <1>4
<1>7. GoodHeap(heap) /\ Grows(value, heap)
  BY <1>1, <1>2, <1>5, <1>6, ObjectHeap DEF Became, Inv
<1>8. IsSequence(heap) /\ Len(heap) = Len(value)
  BY <1>1, <1>6, ExceptSequence
<1>9. heap[v] = val /\ DOMAIN heap = DOMAIN value /\ \A u \in DOMAIN value : u # v => heap[u] = value[u]
  BY <1>1, <1>6
<1>10. QED
  BY <1>1, <1>2, <1>5, <1>7, <1>8, <1>9 DEF Became, GoodShape, GoodHeap

(* The arguments of a function value are in its registers.                 *)
LEMMA ArgumentFound ==
    ASSUME NEW h, GoodHeap(h), NEW v \in DOMAIN h, h[v].func # "none", NEW r \in 0 .. h[v].argc - 1
    PROVE  /\ GoodLink(h, Argument(h, v, r))
           /\ Argument(h, v, r).stop = "none" => GoodValue(h, Argued(h, v, r))
<1>1. Shaped(h) /\ GoodShape(h[v])
  BY DEF GoodHeap, Shaped
<1>2. /\ DOMAIN h[v].regs = 1 .. Len(h[v].regs) /\ Len(h[v].regs) \in Nat /\ h[v].moves \in Nat
      /\ h[v].argc \in Nat /\ h[v].argc <= Len(h[v].regs)
  BY <1>1, RegisterDomain, RegTotal DEF GoodShape, Loadable
<1>3. r + 1 \in DOMAIN h[v].regs /\ r \in Nat
  BY <1>2
<1>4. HasPlace(h, There(h, v, r))
  BY <1>2, <1>3 DEF HasPlace, There
<1>5. GoodLink(h, Argument(h, v, r))
  BY <1>4, FollowRef DEF Argument
<1>6. HasPlace(h, Argument(h, v, r).place)
  BY <1>5 DEF GoodLink
<1>7. QED
  BY <1>5, <1>6, PlaceValue DEF Argued

LEMMA CallOther ==
    ASSUME Inv, NEW f \in DOMAIN frame, NEW i, Step(f, i), i.op = "call",
           call_other(f, Value(f, i, "src"), Target(f, i, "dst"))
    PROVE  Inv'
<1>1. i = Instruction(f)
  BY DEF Step
<1>2. PICK callee, out : callee = Value(f, i, "src") /\ out = Target(f, i, "dst")
  OBVIOUS
<1>3. GoodValue(value, callee)
  BY <1>2, FoundSrc DEF Sources
<1>4. PICK x : x = IF callee[1] = "Failure" THEN callee ELSE Failure("type")
  OBVIOUS
<1>5. GoodValue(value, x)
  BY <1>3, <1>4, GoodPlain
<1>6. Write(f, out, x)
  BY <1>2, <1>4 DEF call_other
<1>7. QED
  BY <1>1, <1>5, <1>6, WriteStep

LEMMA CallFailed ==
    ASSUME Inv, NEW f \in DOMAIN frame, NEW i, Step(f, i), i.op = "call",
           NEW v \in DOMAIN value, value[v].func # "none", qbrtcall_failed(f, v)
    PROVE  Inv'
<1>1. i = Instruction(f) /\ GoodShape(value[v])
  BY InvFacts DEF Step, Shaped
<1>2. value[v].argc \in Nat
  BY <1>1, RegTotal DEF GoodShape, Loadable
<1>3. BadArguments(v) \in SUBSET Nat /\ BadArguments(v) # {}
  BY <1>2 DEF BadArguments, Arguments, qbrtcall_failed
<1>4. PICK r : r = First(BadArguments(v))
  OBVIOUS
<1>5. r \in 0 .. value[v].argc - 1
  <2>1. r \in BadArguments(v)
    BY <1>3, <1>4, FirstIn
  <2>2. QED
    BY <2>1 DEF BadArguments, Arguments
<1>6. CASE Argument(value, v, r).stop # "none"
  <2>1. Breaks(f, "dangling")
    BY <1>4, <1>6 DEF qbrtcall_failed
  <2>2. QED
    BY <2>1, BreaksStep DEF Ends
<1>7. CASE Argument(value, v, r).stop = "none"
  <2>1. PICK x : x = Argued(value, v, r)
    OBVIOUS
  <2>2. GoodValue(value, x)
    BY <1>5, <1>7, <2>1, ArgumentFound DEF Inv
  <2>3. /\ Fail(f, x) /\ UNCHANGED <<queue, io, known>>
        /\ frame' = [Next_pc(f) EXCEPT ![f].cfstate = "FAILED"]
    BY <1>4, <1>7, <2>1 DEF qbrtcall_failed
  <2>4. Moved(frame, frame')
    BY <1>1, <2>3, NextStateMoved DEF States
  <2>5. QED
    BY <2>2, <2>3, <2>4, KnownKept, FailStep
<1>8. QED
  BY <1>6, <1>7

(* A call that makes no frame: abstract functions and C functions.         *)
LEMMA CallBecomes ==
    ASSUME Inv, NEW f \in DOMAIN frame, NEW i, NEW v, NEW heap, Called(f, i, v, heap),
           NEW k, GoodHeap(k), Grows(heap, k), Becomes(f, k)
    PROVE  Inv'
<1>1. Shaped(value) /\ Shaped(heap) /\ Shaped(k) /\ Grows(value, heap)
  BY InvFacts, CalledIs DEF GoodHeap
<1>2. Grows(value, k)
  BY <1>1, GrowsTransitive
<1>3. i = Instruction(f) /\ i.op \notin {"return", "goto"}
  BY DEF Called, Step
<1>4. QED
  BY <1>2, <1>3, BecomesStep

LEMMA CallStops ==
    ASSUME Inv, NEW f \in DOMAIN frame, NEW i, NEW v, NEW heap, Called(f, i, v, heap),
           NEW k, GoodHeap(k), Grows(heap, k), value' = k, NEW s \in States,
           frame' = [Next_pc(f) EXCEPT ![f].cfstate = s], Executed(f), UNCHANGED <<queue, io, known>>
    PROVE  Inv'
<1>1. Shaped(value) /\ Shaped(heap) /\ Shaped(k) /\ Grows(value, heap)
  BY InvFacts, CalledIs DEF GoodHeap
<1>2. GoodHeap(value') /\ Grows(value, value')
  BY <1>1, GrowsTransitive
<1>3. i = Instruction(f) /\ i.op \notin {"return", "goto"}
  BY DEF Called, Step
<1>4. Moved(frame, frame')
  BY <1>3, NextStateMoved
<1>5. broken' \in Ends /\ known' \in [Worker -> SUBSET Module]
  BY DEF Executed, Inv, Rest
<1>6. QED
  BY <1>2, <1>4, <1>5, InstructionStep DEF Executed

(* What a C function writes to the register for its result.                *)
LEMMA OutputHeap ==
    ASSUME NEW h, GoodHeap(h), NEW out, HasPlace(h, out)
    PROVE  /\ \A x : GoodValue(h, x) => GoodHeap(Outputs(h, out, x)) /\ Grows(h, Outputs(h, out, x))
           /\ \A text : GoodHeap(OutputsText(h, out, text)) /\ Grows(h, OutputsText(h, out, text))
<1>1. PICK a, b : a = out[1] /\ b = out[2] + 1
  OBVIOUS
<1>2. a \in DOMAIN h
  BY <1>1 DEF HasPlace
<1>3. \A x : Outputs(h, out, x) = Set(h, a, b, x)
  BY <1>1 DEF Outputs, Set
<1>4. \A text : OutputsText(h, out, text) = PutString(h, a, b, text)
  BY <1>3 DEF OutputsText, PutString
<1>5. ASSUME NEW x, GoodValue(h, x) PROVE GoodHeap(Outputs(h, out, x)) /\ Grows(h, Outputs(h, out, x))
  BY <1>3, <1>5, PutHeap
<1>6. ASSUME NEW text PROVE GoodHeap(OutputsText(h, out, text)) /\ Grows(h, OutputsText(h, out, text))
  BY <1>2, <1>4, PutStringHeap
<1>7. QED
  BY <1>5, <1>6

LEMMA CallQuick ==
    ASSUME Inv, NEW f \in DOMAIN frame, NEW i, NEW v, NEW heap, Called(f, i, v, heap),
           NEW out, HasPlace(value, out),
           \/ qbrtcall_abstract(f, v, heap) \/ core_dangling(f, v, heap, out)
           \/ core_str(f, v, heap, out) \/ core_print(f, v, heap, out) \/ core_pid(f, v, heap, out)
           \/ core_open(f, v, heap, out) \/ qbrtcall_mismatch(f, v, heap)
    PROVE  Inv'
<1>1. GoodHeap(heap) /\ Grows(heap, heap) /\ HasPlace(heap, out)
  BY CalledIs, GrowsReflexive, PlaceGrows, InvFacts
<1>2. \A how \in Ends : Breaks(f, how) => Inv'
  BY BreaksStep
<1>3. CASE qbrtcall_abstract(f, v, heap)
  BY <1>1, <1>3, CallStops DEF qbrtcall_abstract, States
<1>4. CASE core_dangling(f, v, heap, out) \/ qbrtcall_mismatch(f, v, heap)
  BY <1>2, <1>4 DEF core_dangling, qbrtcall_mismatch, Ends
<1>5. CASE core_str(f, v, heap, out)
  <2>1. PICK text : Becomes(f, OutputsText(heap, out, text))
    BY <1>5 DEF core_str
  <2>2. PICK k : k = OutputsText(heap, out, text)
    OBVIOUS
  <2>3. GoodHeap(k) /\ Grows(heap, k)
    BY <1>1, <2>2, OutputHeap
  <2>4. QED
    BY <2>1, <2>2, <2>3, CallBecomes
<1>6. CASE core_print(f, v, heap, out)
  BY <1>1, <1>6, CallBecomes DEF core_print
<1>7. CASE core_pid(f, v, heap, out)
  <2>1. PICK id \in {frame[f].proc, on(f)} : Becomes(f, Outputs(heap, out, Num(id)))
    BY <1>7 DEF core_pid
  <2>2. id \in Int
    BY OnWorker, InvFacts, BoundsAssumption
  <2>3. GoodValue(heap, Num(id))
    BY <2>2, GoodPlain
  <2>4. PICK k : k = Outputs(heap, out, Num(id))
    OBVIOUS
  <2>5. GoodHeap(k) /\ Grows(heap, k)
    BY <1>1, <2>3, <2>4, OutputHeap
  <2>6. QED
    BY <2>1, <2>4, <2>5, CallBecomes
<1>8. CASE core_open(f, v, heap, out)
  <2>1. Breaks(f, "exit") \/ Breaks(f, "null") \/ Becomes(f, Outputs(heap, out, Stream(2)))
    BY <1>8 DEF core_open
  <2>2. PICK k : k = Outputs(heap, out, Stream(2))
    OBVIOUS
  <2>3. GoodValue(heap, Stream(2))
    BY GoodPlain
  <2>4. GoodHeap(k) /\ Grows(heap, k)
    BY <1>1, <2>2, <2>3, OutputHeap
  <2>5. QED
    BY <1>2, <2>1, <2>2, <2>4, CallBecomes DEF Ends
<1>9. QED
  BY <1>3, <1>4, <1>5, <1>6, <1>7, <1>8

(* send has the two arguments it reads.                                    *)
LEMMA SendArgument ==
    ASSUME Inv, NEW f \in DOMAIN frame, NEW i, NEW v, NEW heap, Called(f, i, v, heap),
           NEW out, Calls_c(v, heap, out, {"send"})
    PROVE  GoodValue(heap, Argued(heap, v, 1)) /\ HasPlace(heap, Argument(heap, v, 1).place)
<1>1. PICK o : o = heap[v]
  OBVIOUS
<1>2. /\ GoodHeap(heap) /\ v \in DOMAIN heap /\ GoodShape(o) /\ o.func \in DOMAIN Function /\ o.func # "none"
      /\ o.argc = value[v].argc
  <2>1. v \in DOMAIN value
    BY DEF Called
  <2>2. /\ GoodHeap(heap) /\ GoodShape(o) /\ DOMAIN heap = DOMAIN value /\ o.func \in DOMAIN Function
        /\ Became(value[v], o)
    BY <1>1, CalledIs
  <2>3. QED
    BY <2>1, <2>2 DEF Became
<1>3. Function[o.func].context = "traditional" /\ Function[o.func].argc = 2
  BY <1>1, <1>2, FunctionAssumption DEF Calls_c
<1>4. o.func = o.family
  BY <1>2, <1>3 DEF GoodShape, Kin
<1>5. o.argc = 2
  BY <1>2, <1>3, <1>4 DEF GoodShape
<1>6. 1 \in 0 .. heap[v].argc - 1 /\ 1 \in Arguments(v)
  BY <1>1, <1>2, <1>5 DEF Arguments
<1>7. Argument(heap, v, 1).stop = "none"
  BY <1>6 DEF Calls_c, Dangles
<1>8. QED
  BY <1>1, <1>2, <1>6, <1>7, ArgumentFound DEF GoodLink

LEMMA CallSend ==
    ASSUME Inv, NEW f \in DOMAIN frame, NEW i, NEW v, NEW heap, Called(f, i, v, heap),
           NEW out, core_send(f, v, heap, out)
    PROVE  Inv'
<1>1. PICK pid, x : pid = Argued(heap, v, 0)[2] /\ x = Argued(heap, v, 1)
  OBVIOUS
<1>2. GoodHeap(heap) /\ Grows(value, heap) /\ IsSequence(heap) /\ Shaped(value) /\ Shaped(heap)
  BY CalledIs, InvFacts
<1>3. Moved(frame, frame')
  BY NextMoved DEF Called, Step, core_send
<1>4. PICK mail : mail = Append(heap, NewIndex(1))
  OBVIOUS
<1>5. PICK place : place = <<Len(mail), 0, 0>>
  OBVIOUS
<1>6. Turned(f) /\ UNCHANGED <<broken, queue, io, known>>
  BY DEF core_send
<1>7. CASE value' = heap /\ process' = process
  <2>1. broken' \in Ends /\ known' \in [Worker -> SUBSET Module]
    BY <1>6 DEF Inv, Rest
  <2>2. QED
    BY <1>2, <1>3, <1>6, <1>7, <2>1, InstructionStep
<1>8. CASE /\ pid \in DOMAIN process /\ value' = Copied(mail, place, x)
           /\ process' = [process EXCEPT ![pid].recv = Append(process[pid].recv, Len(mail))]
  <2>1. GoodValue(heap, x)
    BY <1>1, SendArgument DEF core_send
  <2>2. PICK o : o = NewIndex(1)
    OBVIOUS
  <2>3. Blank(o) /\ o.regs = Voids(1) /\ o.moves \in Nat
    BY <2>2, BlankIndex DEF Blank, GoodShape
  <2>4. GoodHeap(mail) /\ Grows(heap, mail) /\ Len(heap) + 1 \in DOMAIN mail /\ mail[Len(heap) + 1] = o
    <3>1. mail = Append(heap, o)
      BY <1>4, <2>2
    <3>2. GoodHeap(mail) /\ Grows(heap, mail)
      BY <1>2, <2>3, <3>1, AppendHeap
    <3>3. Len(heap) + 1 \in DOMAIN mail /\ mail[Len(heap) + 1] = o
      BY <1>2, <3>1, AppendSequence
    <3>4. QED
      BY <3>2, <3>3
  <2>5. Len(mail) = Len(heap) + 1
    BY <1>2, <1>4, AppendSequence
  <2>6. HasPlace(mail, place)
    <3>1. 1 \in DOMAIN o.regs
      BY <2>3 DEF Voids
    <3>2. QED
      BY <1>5, <2>3, <2>4, <2>5, <3>1 DEF HasPlace
  <2>7. Shaped(mail) /\ Grows(value, mail)
    BY <1>2, <2>4, GrowsTransitive DEF GoodHeap
  <2>8. GoodValue(mail, x)
    BY <1>2, <2>1, <2>4, <2>7, ValueGrows
  <2>9. GoodHeap(value') /\ Grows(mail, value')
    BY <1>8, <2>4, <2>6, <2>8, CopiedHeap
  <2>10. Grows(value, value') /\ Shaped(value')
    BY <1>2, <2>7, <2>9, GrowsTransitive DEF GoodHeap
  <2>11. PICK q : q = process[pid].recv
    OBVIOUS
  <2>12. PICK s : s = Append(q, Len(mail))
    OBVIOUS
  <2>13. IsSequence(q) /\ \A k \in DOMAIN q : HasPlace(value, <<q[k], 0, 0>>)
    BY <1>8, <2>11 DEF Inv, GoodProcesses, GoodProcess
  <2>14. /\ IsSequence(s) /\ DOMAIN s = DOMAIN q \cup {Len(q) + 1} /\ s[Len(q) + 1] = Len(mail)
         /\ \A k \in DOMAIN q : s[k] = q[k]
    BY <2>12, <2>13, AppendSequence
  <2>15. HasPlace(value', place)
    BY <2>6, <2>7, <2>9, <2>10, PlaceGrows
  <2>16. \A k \in DOMAIN q : HasPlace(value', <<q[k], 0, 0>>)
    BY <1>2, <2>10, <2>13, PlaceGrows
  <2>17. \A k \in DOMAIN s : HasPlace(value', <<s[k], 0, 0>>)
    BY <1>5, <2>14, <2>15, <2>16
  <2>18. process' = [process EXCEPT ![pid].recv = s]
    BY <1>8, <2>11, <2>12
  <2>19. QED
    BY <1>3, <1>6, <1>8, <2>9, <2>10, <2>14, <2>17, <2>18, MailStep
<1>9. QED
  BY <1>1, <1>4, <1>5, <1>7, <1>8 DEF core_send

(* The frame waits for a stream.                                           *)
LEMMA CallPush ==
    ASSUME Inv, NEW f \in DOMAIN frame, NEW i, NEW v, NEW heap, Called(f, i, v, heap),
           NEW fd \in {0, 1}, NEW place, place # NoPlace => HasPlace(heap, place), iopush(f, heap, fd, place)
    PROVE  Inv'
<1>1. GoodHeap(heap) /\ Grows(value, heap) /\ Shaped(value) /\ Shaped(heap) /\ Len(process) \in Nat
  BY CalledIs, InvFacts
<1>2. /\ value' = heap /\ frame' = [Next_pc(f) EXCEPT ![f].cfstate = "IOWAIT"] /\ Executed(f)
      /\ UNCHANGED <<process, fresh, stale, known>>
  BY DEF iopush, Executed
<1>3. Moved(frame, frame')
  BY <1>2, NextStateMoved DEF Called, Step, States
<1>4. GoodFrames(value', frame', Len(process)) /\ DOMAIN frame' = DOMAIN frame
  <2>1. GoodFrames(value, frame, Len(process)) /\ Len(process) <= Len(process) /\ value' = heap
    BY <1>1, <1>2 DEF Inv
  <2>2. GoodFrames(heap, frame', Len(process)) /\ DOMAIN frame' = DOMAIN frame
    BY <1>1, <1>3, <2>1, MovedFrames
  <2>3. QED
    BY <2>1, <2>2
<1>5. GoodProcesses(value', frame', process)
  BY <1>1, <1>2, <1>4, ProcessesKept DEF Inv
<1>6. GoodIo(value', frame', io')
  <2>1. PICK watched \in BOOLEAN : io' = With(io, f, [fd |-> fd, place |-> place, registered |-> ~watched])
    BY DEF iopush
  <2>2. PICK x : x = [fd |-> fd, place |-> place, registered |-> ~watched]
    OBVIOUS
  <2>3. DOMAIN io' = DOMAIN io \cup {f} /\ \A g \in DOMAIN io' : io'[g] = IF g = f THEN x ELSE io[g]
    BY <2>1, <2>2 DEF With
  <2>4. x.fd \in {0, 1} /\ x.registered \in BOOLEAN /\ (x.place # NoPlace => HasPlace(value', x.place))
    BY <1>2, <2>2
  <2>5. GoodIo(value', frame', io)
    BY <1>1, <1>2, <1>4, IoKept DEF Inv
  <2>6. QED
    BY <1>4, <2>3, <2>4, <2>5 DEF GoodIo
<1>7. GoodQueue(frame', current', fresh, stale)
  BY <1>4 DEF iopush, Inv, GoodQueue
<1>8. Rest'
  BY <1>2 DEF Inv, Rest, Executed, Turned
<1>9. GoodHeap(value')
  BY <1>1, <1>2
<1>10. QED
  BY <1>2, <1>4, <1>5, <1>6, <1>7, <1>8, <1>9 DEF Inv

LEMMA CallStream ==
    ASSUME Inv, NEW f \in DOMAIN frame, NEW i, NEW v, NEW heap, Called(f, i, v, heap),
           NEW out, HasPlace(value, out), core_getline(f, v, heap, out) \/ core_write(f, v, heap, out)
    PROVE  Inv'
<1>1. GoodHeap(heap) /\ Grows(heap, heap) /\ HasPlace(heap, out)
  BY CalledIs, GrowsReflexive, PlaceGrows, InvFacts
<1>2. PICK stream : stream = Argued(heap, v, 0)
  OBVIOUS
<1>3. CASE Breaks(f, "exit")
  BY <1>3, BreaksStep DEF Ends
<1>4. CASE ByteStream(stream) /\ (iopush(f, heap, stream[2], out) \/ iopush(f, heap, stream[2], NoPlace))
  <2>1. stream[2] \in {0, 1}
    BY <1>4 DEF ByteStream
  <2>2. QED
    BY <1>1, <1>4, <2>1, CallPush
<1>5. CASE handle(f, OutputsText(heap, out, <<"line">>)) \/ handle(f, heap)
  <2>1. PICK k \in {heap, OutputsText(heap, out, <<"line">>)} : handle(f, k)
    BY <1>5
  <2>2. GoodHeap(k) /\ Grows(heap, k)
    BY <1>1, OutputHeap
  <2>3. QED
    BY <2>1, <2>2, CallStops DEF handle, States
<1>6. QED
  BY <1>2, <1>3, <1>4, <1>5 DEF core_getline, core_write

LEMMA CallFrame ==
    ASSUME Inv, NEW f \in DOMAIN frame, NEW i, NEW v, NEW heap, Called(f, i, v, heap),
           NEW out, HasPlace(value, out), qbrtcall(f, v, heap, out)
    PROVE  Inv'
<1>1. /\ GoodHeap(heap) /\ Grows(value, heap) /\ Shaped(value) /\ Shaped(heap) /\ Len(process) \in Nat
      /\ v \in DOMAIN heap /\ GoodShape(heap[v]) /\ heap[v].func \in DOMAIN Function
  BY CalledIs, InvFacts DEF Called
<1>2. value' = heap /\ Executed(f) /\ UNCHANGED <<process, fresh, stale, io, known>>
  BY DEF qbrtcall, Executed
<1>3. PICK mid, c : mid = Next_pc(f) /\ c = NewCall(f, frame[f].proc, out, v, heap[v].func)
  OBVIOUS
<1>4. /\ Len(frame) < MaxFrames /\ frame' = Append(mid, c)
      /\ current' = [current EXCEPT ![on(f)] = Len(frame) + 1]
  BY <1>3 DEF qbrtcall
<1>5. Moved(frame, mid) /\ Len(mid) = Len(frame)
  BY <1>3, NextMoved DEF Moved, Called, Step
<1>6. GoodFrames(heap, mid, Len(process)) /\ DOMAIN mid = DOMAIN frame
  BY <1>1, <1>5, MovedFrames DEF Inv
<1>7. /\ DOMAIN c = Fields /\ c.cfstate = "READY" /\ c.context = EmptyContext
      /\ c.parent = f /\ c.proc = frame[f].proc /\ c.type = "call" /\ c.pc = 1
      /\ c.value = v /\ c.func = heap[v].func /\ c.result = out
  BY <1>3 DEF NewCall, NewFrame, Fields
<1>8. c.type = "call" /\ GoodCall(heap, c) /\ c.pc \in DOMAIN Function[c.func].code
  <2>1. HasPlace(heap, out)
    BY <1>1, PlaceGrows
  <2>2. 1 \in DOMAIN Function[heap[v].func].code /\ heap[v].func # "none"
    BY <1>1, FunctionAssumption
  <2>3. regtotal(heap[v].func) <= Len(heap[v].regs)
    BY <1>1, <2>2 DEF GoodShape
  <2>4. QED
    BY <1>1, <1>7, <2>1, <2>2, <2>3 DEF GoodCall
<1>9. GoodFrames(heap, frame', Len(process)) /\ DOMAIN frame' = DOMAIN frame \cup {Len(frame) + 1}
  <2>1. GoodFrames(heap, mid, Len(process)) /\ frame' = Append(mid, c) /\ Len(mid) < MaxFrames
    BY <1>4, <1>5, <1>6
  <2>2. DOMAIN c = Fields /\ c.cfstate = "READY" /\ c.context = EmptyContext
    BY <1>7
  <2>3. c.parent \in 0 .. Len(mid) /\ c.proc \in 1 .. Len(process)
    BY <1>5, <1>7, OnWorker, InvFacts
  <2>4. GoodFrames(heap, frame', Len(process))
    BY <1>8, <2>1, <2>2, <2>3, AppendFrame
  <2>5. DOMAIN frame' = DOMAIN mid \cup {Len(mid) + 1}
    BY <1>8, <2>1, <2>2, <2>3, AppendFrame
  <2>6. QED
    BY <1>5, <1>6, <2>4, <2>5
<1>10. GoodProcesses(heap, frame', process)
  BY <1>1, <1>9, ProcessesKept DEF Inv
<1>11. GoodIo(heap, frame', io)
  BY <1>1, <1>9, IoKept DEF Inv
<1>12. GoodQueue(frame', current', fresh, stale)
  <2>1. GoodQueue(frame', current, fresh, stale)
    BY <1>9, QueueKept DEF Inv
  <2>2. Len(frame) + 1 \in DOMAIN frame'
    BY <1>9
  <2>3. QED
    BY <1>4, <2>1, <2>2 DEF GoodQueue
<1>13. Rest'
  BY <1>2 DEF Inv, Rest, Executed, Turned
<1>14. QED
  BY <1>1, <1>2, <1>9, <1>10, <1>11, <1>12, <1>13 DEF Inv

(* What comes of a call once the override is chosen.                       *)
Performs(f, v, heap, out) ==
    \/ qbrtcall_abstract(f, v, heap) \/ core_dangling(f, v, heap, out)
    \/ core_str(f, v, heap, out) \/ core_print(f, v, heap, out) \/ core_pid(f, v, heap, out)
    \/ core_send(f, v, heap, out) \/ core_open(f, v, heap, out)
    \/ core_getline(f, v, heap, out) \/ core_write(f, v, heap, out)
    \/ qbrtcall(f, v, heap, out) \/ qbrtcall_mismatch(f, v, heap)

LEMMA NextCall ==
    ASSUME Inv, NEW f \in DOMAIN frame, NEW i, Step(f, i), execute_call(f, i)
    PROVE  Inv'
<1>1. i.op = "call"
  BY DEF execute_call
<1>2. PICK callee, out : callee = Value(f, i, "src") /\ out = Target(f, i, "dst")
  OBVIOUS
<1>3. GoodValue(value, callee) /\ HasPlace(value, out)
  BY <1>1, <1>2, FoundSrc, FoundDst DEF Sources, Quiet
<1>4. CASE call_other(f, callee, out)
  BY <1>1, <1>2, <1>4, CallOther
<1>5. CASE callee[1] = "Function" /\ ~call_other(f, callee, out)
  <2>1. PICK v : v = callee[2]
    OBVIOUS
  <2>2. v \in DOMAIN value /\ value[v].func # "none"
    BY <1>3, <1>5, <2>1 DEF GoodValue, IsIndex
  <2>3. CASE qbrtcall_failed(f, v)
    BY <1>1, <2>2, <2>3, CallFailed
  <2>4. CASE ~qbrtcall_failed(f, v)
    <3>1. PICK moves \in BOOLEAN :
             \E heap \in {[value EXCEPT ![v] = override_function(on(f), value[v], moves)]} : Performs(f, v, heap, out)
      <4>1. \/ call_other(f, callee, out)
            \/ /\ callee[1] = "Function"
               /\ \/ qbrtcall_failed(f, callee[2])
                  \/ \E moves \in BOOLEAN :
                     \E heap \in {[value EXCEPT ![callee[2]] = override_function(on(f), @, moves)]} :
                        Performs(f, callee[2], heap, out)
        <5>1. PICK c \in {Value(f, i, "src")}, o \in {Target(f, i, "dst")} :
                \/ call_other(f, c, o)
                \/ /\ c[1] = "Function"
                   /\ \/ qbrtcall_failed(f, c[2])
                      \/ \E moves \in BOOLEAN :
                         \E heap \in {[value EXCEPT ![c[2]] = override_function(on(f), @, moves)]} :
                            Performs(f, c[2], heap, o)
          BY DEF execute_call, Performs
        <5>2. c = callee /\ o = out
          BY <1>2, <5>1
        <5>3. QED
          BY <5>1, <5>2
      <4>2. QED
        BY <1>5, <2>1, <2>4, <4>1
    <3>2. PICK heap : heap = [value EXCEPT ![v] = override_function(on(f), value[v], moves)]
      OBVIOUS
    <3>3. Performs(f, v, heap, out)
      BY <3>1, <3>2
    <3>4. Called(f, i, v, heap)
      BY <1>1, <2>2, <3>2 DEF Called
    <3>5. QED
      BY <1>3, <3>3, <3>4, CallQuick, CallSend, CallStream, CallFrame DEF Performs
  <2>5. QED
    BY <2>3, <2>4
<1>6. QED
  BY <1>2, <1>4, <1>5 DEF execute_call

-----------------------------------------------------------------------------
(***************************************************************************)
(* What comes between instructions.                                        *)
(***************************************************************************)
(* A worker that is about to switch on a frame has one.                    *)
Serving == \A w \in Worker : at[w] = "switch" => current[w] # None \/ broken # "none"

LEMMA MovedNot == ASSUME NEW h, NEW n, NEW fr, GoodFrames(h, fr, n) PROVE Moved(fr, fr)
BY DEF Moved, Like, GoodFrames, GoodFrame

LEMMA QuietStep ==
    ASSUME Inv, GoodHeap(value'), Grows(value, value'), Moved(frame, frame'),
           GoodQueue(frame, current', fresh', stale'), UNCHANGED <<process, io>>, Rest'
    PROVE  Inv'
<1>1. Shaped(value) /\ Shaped(value') /\ Len(process) \in Nat
  BY InvFacts DEF GoodHeap
<1>2. GoodFrames(value', frame', Len(process)) /\ DOMAIN frame' = DOMAIN frame
  <2>1. GoodFrames(value, frame, Len(process)) /\ Len(process) <= Len(process)
    BY <1>1 DEF Inv
  <2>2. QED
    BY <1>1, <2>1, MovedFrames
<1>3. GoodProcesses(value', frame', process) /\ GoodIo(value', frame', io)
  BY <1>1, <1>2, ProcessesKept, IoKept DEF Inv
<1>4. GoodQueue(frame', current', fresh', stale')
  BY <1>2 DEF GoodQueue
<1>5. QED
  BY <1>2, <1>3, <1>4 DEF Inv

LEMMA Findtask ==
    ASSUME Inv, NEW w \in Worker, findtask(w)
    PROVE  GoodQueue(frame, current', fresh', stale')
<1>1. PICK S : S = DOMAIN frame
  OBVIOUS
<1>2. /\ current \in [Worker -> {None} \cup S]
      /\ fresh \in [Worker -> Seq(S)] /\ stale \in [Worker -> Seq(S)]
  BY <1>1 DEF Inv, GoodQueue
<1>3. PICK round : round = IF fresh[w] = <<>> THEN stale[w] ELSE fresh[w]
  OBVIOUS
<1>4. round \in Seq(S) /\ <<>> \in Seq(S)
  BY <1>2, <1>3
<1>5. round # <<>> => Head(round) \in S /\ Tail(round) \in Seq(S)
  BY <1>4
<1>6. /\ current' = [current EXCEPT ![w] = IF round = <<>> THEN None ELSE Head(round)]
      /\ fresh' = [fresh EXCEPT ![w] = IF round = <<>> THEN <<>> ELSE Tail(round)]
      /\ stale' = [stale EXCEPT ![w] = IF fresh[w] = <<>> THEN <<>> ELSE @]
  BY <1>3 DEF findtask
<1>7. current' \in [Worker -> {None} \cup S]
  BY <1>2, <1>5, <1>6
<1>8. fresh' \in [Worker -> Seq(S)]
  BY <1>2, <1>4, <1>5, <1>6
<1>9. stale' \in [Worker -> Seq(S)]
  BY <1>2, <1>4, <1>6
<1>10. QED
  BY <1>1, <1>7, <1>8, <1>9 DEF GoodQueue

LEMMA StandStill == ASSUME Inv PROVE Moved(frame, frame) /\ GoodHeap(value) /\ Grows(value, value)
BY MovedNot, GrowsReflexive DEF Inv, GoodHeap

LEMMA NextIdle ==
    ASSUME Inv, NEW w \in Worker, idle(w) \/ iowork_done(w) \/ switch_ready(w)
    PROVE  Inv'
<1>1. UNCHANGED <<value, process, io, frame, program, fifo, distributor, known>>
  BY DEF idle, iowork_done, switch_ready
<1>2. Moved(frame, frame')
  BY <1>1, StandStill
<1>3. GoodQueue(frame, current', fresh', stale')
  <2>1. CASE findtask(w)
    BY <2>1, Findtask
  <2>2. CASE UNCHANGED queue
    BY <2>2 DEF Inv, GoodQueue, queue
  <2>3. QED
    BY <2>1, <2>2 DEF idle, iowork_done, switch_ready
<1>4. at' \in [Worker -> {"fetch", "io", "switch"}] /\ broken' \in Ends
  BY DEF Inv, Rest, Ends, idle, iowork_done, switch_ready, Switch
<1>5. Rest'
  BY <1>1, <1>4 DEF Inv, Rest
<1>6. QED
  BY <1>1, <1>2, <1>3, <1>5, StandStill, QuietStep

LEMMA NextWait ==
    ASSUME Inv, Serving, NEW w \in Worker, switch_wait(w)
    PROVE  Inv'
<1>1. UNCHANGED <<value, process, io, frame, program, fifo, distributor, known, broken>>
  BY DEF switch_wait
<1>2. Moved(frame, frame')
  BY <1>1, StandStill
<1>3. current[w] \in DOMAIN frame
  BY DEF Serving, switch_wait, Switch, Inv, GoodQueue
<1>4. stale' = [stale EXCEPT ![w] = Append(@, current[w])] /\ fresh' = fresh /\ current' = [current EXCEPT ![w] = None]
  BY DEF switch_wait
<1>5. stale' \in [Worker -> Seq(DOMAIN frame)]
  BY <1>3, <1>4, AppendQueue DEF Inv
<1>6. GoodQueue(frame, current', fresh', stale')
  BY <1>4, <1>5 DEF Inv, GoodQueue
<1>7. Rest'
  BY <1>1 DEF Inv, Rest, switch_wait, Switch
<1>8. QED
  BY <1>1, <1>2, <1>6, <1>7, StandStill, QuietStep

LEMMA NextFinish ==
    ASSUME Inv, Serving, NEW w \in Worker, finish_frame(w)
    PROVE  Inv'
<1>1. PICK f : f = current[w]
  OBVIOUS
<1>2. f \in DOMAIN frame
  BY <1>1 DEF Serving, finish_frame, Switch, Inv, GoodQueue
<1>3. UNCHANGED <<process, io, program, fifo, distributor, known>>
  BY DEF finish_frame
<1>4. \/ UNCHANGED <<value, frame, queue>>
      \/ /\ value' = Freed(f)
         /\ frame' = [frame EXCEPT ![f].live = FALSE]
         /\ \/ findtask(w)
            \/ current' = [current EXCEPT ![w] = frame[f].parent] /\ UNCHANGED <<fresh, stale>>
  BY <1>1 DEF finish_frame
<1>5. Moved(frame, frame')
  <2>1. CASE frame' = frame
    BY <2>1, StandStill
  <2>2. CASE frame' = [frame EXCEPT ![f].live = FALSE]
    <3>1. PICK c : c = [frame[f] EXCEPT !.live = FALSE]
      OBVIOUS
    <3>2. GoodFrames(value, frame, Len(process)) /\ GoodFrame(value, frame, Len(process), f)
      BY <1>2 DEF Inv, GoodFrames
    <3>3. Like(frame[f], c) /\ c.pc = frame[f].pc
      BY <3>1, <3>2 DEF GoodFrame, Like, Fields
    <3>4. c.pc \in DOMAIN CodeOf(frame, f)
      BY <3>2, <3>3 DEF GoodFrame
    <3>5. frame' = [frame EXCEPT ![f] = c]
      BY <2>2, <3>1
    <3>6. QED
      BY <1>2, <3>2, <3>3, <3>4, <3>5, MoveFrame
  <2>3. QED
    BY <1>4, <2>1, <2>2
<1>6. GoodQueue(frame, current', fresh', stale')
  <2>1. CASE findtask(w)
    BY <2>1, Findtask
  <2>2. CASE UNCHANGED queue
    BY <2>2 DEF Inv, GoodQueue, queue
  <2>3. CASE current' = [current EXCEPT ![w] = frame[f].parent] /\ UNCHANGED <<fresh, stale>>
    <3>1. frame[f].parent \in {None} \cup DOMAIN frame
      <4>1. frame[f].parent \in 0 .. f - 1
        BY <1>2 DEF Inv, GoodFrames, GoodFrame
      <4>2. QED
        BY <1>2, <4>1, InvFacts DEF None
    <3>2. QED
      BY <2>3, <3>1 DEF Inv, GoodQueue
  <2>4. QED
    BY <1>4, <2>1, <2>2, <2>3
<1>7. at' \in [Worker -> {"fetch", "io", "switch"}] /\ broken' \in Ends
  BY DEF Inv, Rest, Ends, finish_frame, Switch
<1>8. Rest'
  BY <1>3, <1>7 DEF Inv, Rest
<1>9. GoodHeap(value') /\ Grows(value, value')
  <2>1. CASE value' = value
    BY <2>1, StandStill
  <2>2. CASE value' = Freed(f)
    <3>1. PICK C : C = Range(frame[f].context)
      OBVIOUS
    <3>2. value' = [v \in DOMAIN value |-> IF v \in C THEN Gone(value[v]) ELSE value[v]]
      BY <2>2, <3>1 DEF Freed, Gone
    <3>3. GoodHeap(value)
      BY DEF Inv
    <3>4. QED
      BY <3>2, <3>3, FreedHeap
  <2>3. QED
    BY <1>4, <2>1, <2>2
<1>10. QED
  BY <1>3, <1>5, <1>6, <1>8, <1>9, QuietStep

LEMMA NextIopop ==
    ASSUME Inv, NEW f \in DOMAIN io, iopop(f)
    PROVE  Inv'
<1>1. f \in DOMAIN frame /\ (io[f].place # NoPlace => HasPlace(value, io[f].place))
  BY DEF Inv, GoodIo
<1>2. broken' \in Ends
  BY DEF Inv, Rest, Ends, iopop
<1>4. GoodHeap(value') /\ Grows(value, value')
  <2>1. CASE value' # value
    <3>1. io[f].place # NoPlace /\ value' = Append(Put(io[f].place, String(Len(value) + 1)), NewString(<<"line">>))
      BY <2>1 DEF iopop
    <3>2. PICK a, b : a = io[f].place[1] /\ b = io[f].place[2] + 1
      OBVIOUS
    <3>3. value' = PutString(value, a, b, <<"line">>)
      BY <3>1, <3>2 DEF PutString, Put, Set
    <3>4. a \in DOMAIN value /\ GoodHeap(value)
      BY <1>1, <3>1, <3>2 DEF HasPlace, Inv
    <3>5. QED
      BY <3>3, <3>4, PutStringHeap
  <2>2. CASE value' = value
    BY <2>2, StandStill
  <2>3. QED
    BY <2>1, <2>2
<1>5. Shaped(value) /\ Shaped(value') /\ Len(process) \in Nat
  BY <1>4, InvFacts DEF GoodHeap
<1>6. Moved(frame, frame')
  BY <1>1, StateMoved DEF iopop, Inv, States
<1>7. GoodFrames(value', frame', Len(process)) /\ DOMAIN frame' = DOMAIN frame
  BY <1>4, <1>5, <1>6, MovedFrames DEF Inv
<1>8. GoodProcesses(value', frame', process)
  BY <1>4, <1>5, <1>7, ProcessesKept DEF Inv
<1>9. GoodIo(value', frame', io)
  BY <1>4, <1>5, <1>7, IoKept DEF Inv
<1>10. GoodIo(value', frame', io')
  BY <1>9 DEF iopop, GoodIo
<1>11. GoodQueue(frame', current, fresh, stale')
  <2>1. stale' = [stale EXCEPT ![on(f)] = Append(@, f)]
    BY DEF iopop
  <2>2. stale' \in [Worker -> Seq(DOMAIN frame)]
    BY <1>1, <2>1, AppendQueue DEF Inv
  <2>3. QED
    BY <1>7, <2>2 DEF Inv, GoodQueue
<1>12. Rest'
  BY <1>2 DEF Inv, Rest, iopop
<1>13. UNCHANGED <<process, current, fresh>>
  BY DEF iopop
<1>14. QED
  BY <1>4, <1>7, <1>8, <1>10, <1>11, <1>12, <1>13 DEF Inv

LEMMA NextDistribute == ASSUME Inv, distribute_work PROVE Inv'
<1>1. PICK p \in DOMAIN process :
         /\ process' = [process EXCEPT ![p].worker = distributor]
         /\ stale' = [stale EXCEPT ![distributor] = Append(@, process[p].call)]
  BY DEF distribute_work
<1>2. UNCHANGED <<program, fifo, value, frame, current, fresh, at, io, known, broken>>
  BY DEF distribute_work
<1>3. GoodProcess(value, frame, process[p])
  BY DEF Inv, GoodProcesses
<1>4. PICK new : new = [process[p] EXCEPT !.worker = distributor]
  OBVIOUS
<1>5. process' = [process EXCEPT ![p] = new]
  BY <1>1, <1>4
<1>6. IsSequence(process') /\ Len(process') = Len(process)
  <2>1. IsSequence(process)
    BY InvFacts
  <2>2. IsSequence([process EXCEPT ![p] = new]) /\ Len([process EXCEPT ![p] = new]) = Len(process)
    BY <2>1, ExceptSequence
  <2>3. QED
    BY <1>5, <2>2, Zenon
<1>7. GoodProcess(value, frame, new)
  <2>1. /\ DOMAIN new = {"worker", "call", "recv"} /\ new.worker = distributor
        /\ new.call = process[p].call /\ new.recv = process[p].recv
    BY <1>3, <1>4 DEF GoodProcess
  <2>2. distributor \in 0 .. NumWorkers
    BY BoundsAssumption DEF Inv, Rest, Worker
  <2>3. QED
    BY <1>3, <2>1, <2>2 DEF GoodProcess
<1>8. GoodProcesses(value, frame, process')
  <2>1. ASSUME NEW q \in DOMAIN process' PROVE GoodProcess(value, frame, process'[q])
    BY <1>5, <1>7 DEF Inv, GoodProcesses
  <2>2. QED
    BY <1>6, <2>1 DEF GoodProcesses
<1>9. GoodQueue(frame, current, fresh, stale')
  <2>1. PICK g : g = process[p].call
    OBVIOUS
  <2>2. g \in DOMAIN frame
    BY <1>3, <2>1 DEF GoodProcess
  <2>3. stale' = [stale EXCEPT ![distributor] = Append(@, g)]
    BY <1>1, <2>1
  <2>4. GoodQueue(frame, current, fresh, stale)
    BY DEF Inv
  <2>5. stale' \in [Worker -> Seq(DOMAIN frame)]
    BY <2>2, <2>3, <2>4, AppendQueue
  <2>6. QED
    BY <2>4, <2>5 DEF GoodQueue
<1>10. Rest'
  <2>1. distributor \in 1 .. NumWorkers /\ NumWorkers \in Nat \ {0}
    BY BoundsAssumption DEF Inv, Rest, Worker
  <2>2. distributor' = IF distributor = NumWorkers THEN 1 ELSE distributor + 1
    BY DEF distribute_work
  <2>3. distributor' \in Worker
    BY <2>1, <2>2 DEF Worker
  <2>4. QED
    BY <1>2, <2>3 DEF Inv, Rest
<1>11. GoodFrames(value, frame, Len(process')) /\ GoodHeap(value) /\ GoodIo(value, frame, io)
  BY <1>6 DEF Inv
<1>12. QED
  BY <1>2, <1>8, <1>9, <1>10, <1>11 DEF Inv

-----------------------------------------------------------------------------
(***************************************************************************)
(* The invariant.                                                          *)
(***************************************************************************)
(* After an instruction the worker of its frame turns to the streams,      *)
(* unless the program has gone wrong; no other worker notices.             *)
Turn(f) ==
    \/ at' = at /\ current' = current /\ broken' # "none"
    \/ /\ at' = [at EXCEPT ![on(f)] = "io"]
       /\ current' = current \/ \E x : current' = [current EXCEPT ![on(f)] = x]

LEMMA BreaksTurn == ASSUME NEW f, NEW how, how # "none", Breaks(f, how) PROVE Turn(f)
BY DEF Breaks, Turn, queue

LEMMA QuietTurn == ASSUME NEW f, Turned(f), UNCHANGED queue PROVE Turn(f)
BY DEF Turned, Turn, queue

LEMMA BecomesTurn == ASSUME NEW f, NEW heap, Becomes(f, heap) PROVE Turn(f)
BY QuietTurn DEF Becomes, Executed

LEMMA FailTurn == ASSUME NEW f, NEW x, Fail(f, x), UNCHANGED queue PROVE Turn(f)
BY QuietTurn DEF Fail

LEMMA StoppedTurn ==
    ASSUME NEW f, NEW i,
           \/ read_promise(f, i) \/ read_failure(f, i) \/ register404(f, i)
           \/ patternvar_null(f, i) \/ follow_null(f, i)
    PROVE  Turn(f)
<1>1. CASE ~follow_null(f, i)
  <2>1. Turned(f) /\ UNCHANGED queue
    BY <1>1 DEF read_promise, read_failure, register404, patternvar_null, Fail, Executed
  <2>2. QED
    BY <2>1, QuietTurn
<1>2. CASE follow_null(f, i)
  <2>1. PICK how : Breaks(f, how) /\ how # "none"
    BY <1>2 DEF follow_null
  <2>2. QED
    BY <2>1, BreaksTurn
<1>3. QED
  BY <1>1, <1>2

LEMMA CallTurn == ASSUME NEW f, NEW i, execute_call(f, i) PROVE Turn(f)
<1>1. PICK callee \in {Value(f, i, "src")}, out \in {Target(f, i, "dst")} :
         \/ call_other(f, callee, out)
         \/ /\ callee[1] = "Function"
            /\ \/ qbrtcall_failed(f, callee[2])
               \/ \E moves \in BOOLEAN :
                  \E heap \in {[value EXCEPT ![callee[2]] = override_function(on(f), @, moves)]} :
                     Performs(f, callee[2], heap, out)
  BY DEF execute_call, Performs
<1>2. CASE call_other(f, callee, out)
  BY <1>2, BecomesTurn DEF call_other, Write
<1>3. CASE qbrtcall_failed(f, callee[2])
  BY <1>3, BreaksTurn, QuietTurn DEF qbrtcall_failed, Fail
<1>4. ASSUME NEW v, NEW heap, Performs(f, v, heap, out) PROVE Turn(f)
  <2>1. CASE qbrtcall_abstract(f, v, heap) \/ core_send(f, v, heap, out)
    BY <2>1, QuietTurn DEF qbrtcall_abstract, core_send, Executed
  <2>2. CASE core_dangling(f, v, heap, out) \/ qbrtcall_mismatch(f, v, heap)
    BY <2>2, BreaksTurn DEF core_dangling, qbrtcall_mismatch
  <2>3. CASE core_str(f, v, heap, out) \/ core_print(f, v, heap, out) \/ core_pid(f, v, heap, out)
    BY <2>3, BecomesTurn DEF core_str, core_print, core_pid
  <2>4. CASE core_open(f, v, heap, out)
    <3>1. Breaks(f, "exit") \/ Breaks(f, "null") \/ \E k : Becomes(f, k)
      BY <2>4 DEF core_open
    <3>2. QED
      BY <3>1, BreaksTurn, BecomesTurn
  <2>5. CASE core_getline(f, v, heap, out) \/ core_write(f, v, heap, out)
    <3>1. Breaks(f, "exit") \/ (\E k : handle(f, k)) \/ (\E fd, place : iopush(f, heap, fd, place))
      BY <2>5 DEF core_getline, core_write
    <3>2. CASE \E k : handle(f, k)
      BY <3>2, QuietTurn DEF handle, Executed
    <3>3. CASE \E fd, place : iopush(f, heap, fd, place)
      BY <3>3 DEF iopush, Executed, Turned, Turn
    <3>4. QED
      BY <3>1, <3>2, <3>3, BreaksTurn
  <2>6. CASE qbrtcall(f, v, heap, out)
    BY <2>6 DEF qbrtcall, Executed, Turned, Turn
  <2>7. QED
    BY <1>4, <2>1, <2>2, <2>3, <2>4, <2>5, <2>6 DEF Performs
<1>5. QED
  BY <1>1, <1>2, <1>3, <1>4

(* The instructions that have found their registers.                       *)
LEMMA ExecutedIs ==
    ASSUME NEW f, execute_instruction(f), NEW i, i = Instruction(f),
           ~(read_promise(f, i) \/ read_failure(f, i) \/ register404(f, i)
               \/ patternvar_null(f, i) \/ follow_null(f, i))
    PROVE  /\ Step(f, i)
           /\ \/ execute_consti(f, i) \/ execute_consthash(f, i) \/ execute_cfailure(f, i) \/ execute_patternvar(f, i)
              \/ execute_consts(f, i) \/ execute_ctuple(f, i) \/ execute_lconstruct(f, i) \/ execute_loadfunc(f, i)
              \/ execute_copy(f, i) \/ execute_move(f, i) \/ execute_ref(f, i) \/ execute_lcontext(f, i)
              \/ execute_binaryop(f, i) \/ execute_divide(f, i) \/ execute_cmp(f, i)
              \/ execute_iffail(f, i) \/ execute_if(f, i) \/ execute_goto(f, i) \/ execute_return(f, i)
              \/ execute_loadobj(f, i) \/ execute_match(f, i) \/ execute_matchargs(f, i) \/ execute_stracc(f, i)
              \/ invalid_opcode(f, i) \/ execute_fieldget(f, i) \/ execute_fork(f, i) \/ execute_newproc(f, i)
              \/ execute_recv(f, i) \/ execute_call(f, i)
BY Zenon DEF execute_instruction, Step

LEMMA Turns == ASSUME NEW f, execute_instruction(f) PROVE Turn(f)
<1>1. PICK i : i = Instruction(f)
  OBVIOUS
<1>2. CASE read_promise(f, i) \/ read_failure(f, i) \/ register404(f, i) \/ patternvar_null(f, i) \/ follow_null(f, i)
  BY <1>2, StoppedTurn
<1>3. CASE execute_consti(f, i) \/ execute_consthash(f, i) \/ execute_cfailure(f, i) \/ execute_patternvar(f, i)
           \/ execute_copy(f, i) \/ execute_move(f, i) \/ execute_ref(f, i)
  BY <1>3, BecomesTurn DEF execute_consti, execute_consthash, execute_cfailure, execute_patternvar,
     execute_copy, execute_move, execute_ref, Write
<1>4. CASE execute_binaryop(f, i) \/ execute_divide(f, i) \/ execute_cmp(f, i)
  <2>1. Breaks(f, "undefined") \/ \E k : Becomes(f, k)
    BY <1>4 DEF execute_binaryop, execute_divide, execute_cmp, Write
  <2>2. QED
    BY <2>1, BreaksTurn, BecomesTurn
<1>5. CASE execute_consts(f, i) \/ execute_ctuple(f, i) \/ execute_lconstruct(f, i) \/ execute_loadfunc(f, i)
           \/ execute_loadobj(f, i) \/ execute_return(f, i) \/ execute_goto(f, i) \/ execute_iffail(f, i)
  <2>1. Turned(f) /\ UNCHANGED queue
    BY <1>5 DEF execute_consts, execute_ctuple, execute_lconstruct, execute_loadfunc, WriteNew,
       execute_loadobj, execute_return, execute_goto, execute_iffail, Branches, Executed
  <2>2. QED
    BY <2>1, QuietTurn
<1>6. CASE execute_lcontext(f, i)
  <2>1. Turned(f) /\ UNCHANGED queue
    BY <1>6 DEF execute_lcontext, Write, Becomes, Executed
  <2>2. QED
    BY <2>1, QuietTurn
<1>7. CASE execute_if(f, i)
  <2>1. Breaks(f, "undefined") \/ (Turned(f) /\ UNCHANGED queue)
    BY <1>7 DEF execute_if, Branches, Executed
  <2>2. QED
    BY <2>1, BreaksTurn, QuietTurn
<1>8. CASE execute_match(f, i)
  <2>1. (\E k : Becomes(f, k)) \/ Branches(f, i, FALSE)
    BY <1>8 DEF execute_match
  <2>2. QED
    BY <2>1, BecomesTurn, QuietTurn DEF Branches, Executed
<1>9. CASE execute_matchargs(f, i)
  <2>1. (\E k : Becomes(f, k)) \/ Branches(f, i, FALSE) \/ Breaks(f, "undefined")
    BY <1>9 DEF execute_matchargs
  <2>2. QED
    BY <2>1, BecomesTurn, BreaksTurn, QuietTurn DEF Branches, Executed
<1>10. CASE execute_stracc(f, i)
  <2>1. (\E k : Becomes(f, k)) \/ (Turned(f) /\ UNCHANGED queue)
    BY <1>10 DEF execute_stracc, Fail
  <2>2. QED
    BY <2>1, BecomesTurn, QuietTurn
<1>11. CASE invalid_opcode(f, i) \/ execute_fieldget(f, i)
  BY <1>11, BreaksTurn, QuietTurn DEF invalid_opcode, execute_fieldget, Fail
<1>12. CASE execute_fork(f, i)
  BY <1>12 DEF execute_fork, Forking, Executed, Turned, Turn
<1>13. CASE execute_newproc(f, i)
  <2>1. (\E k : Becomes(f, k)) \/ Breaks(f, "null") \/ (Turned(f) /\ UNCHANGED queue)
    BY <1>13 DEF execute_newproc, Write
  <2>2. QED
    BY <2>1, BecomesTurn, BreaksTurn, QuietTurn
<1>14. CASE execute_recv(f, i)
  BY <1>14, QuietTurn DEF execute_recv
<1>15. CASE execute_call(f, i)
  BY <1>15, CallTurn
<1>16. QED
  BY <1>1, <1>2, <1>3, <1>4, <1>5, <1>6, <1>7, <1>8, <1>9, <1>10, <1>11, <1>12, <1>13, <1>14, <1>15, ExecutedIs

LEMMA NextInstruction == ASSUME Inv, NEW f \in DOMAIN frame, execute_instruction(f) PROVE Inv'
<1>1. PICK i : i = Instruction(f)
  OBVIOUS
<1>2. CASE read_promise(f, i) \/ read_failure(f, i) \/ register404(f, i) \/ patternvar_null(f, i) \/ follow_null(f, i)
  <2>1. Runs(f)
    BY DEF execute_instruction
  <2>2. QED
    BY <1>1, <1>2, <2>1, NextStopped
<1>3. CASE ~(read_promise(f, i) \/ read_failure(f, i) \/ register404(f, i) \/ patternvar_null(f, i) \/ follow_null(f, i))
  <2>1. Step(f, i)
    BY <1>1, <1>3, ExecutedIs
  <2>2. CASE execute_consti(f, i) \/ execute_consthash(f, i) \/ execute_cfailure(f, i) \/ execute_patternvar(f, i)
    BY <2>1, <2>2, NextConst
  <2>3. CASE execute_consts(f, i) \/ execute_ctuple(f, i) \/ execute_lconstruct(f, i) \/ execute_loadfunc(f, i)
    BY <2>1, <2>3, NextNew
  <2>4. CASE execute_copy(f, i) \/ execute_move(f, i)
    BY <2>1, <2>4, NextCopy
  <2>5. CASE execute_ref(f, i) \/ execute_lcontext(f, i)
    BY <2>1, <2>5, NextRef, NextContext
  <2>6. CASE execute_binaryop(f, i) \/ execute_divide(f, i) \/ execute_cmp(f, i)
    BY <2>1, <2>6, NextBinary
  <2>7. CASE \/ execute_iffail(f, i) \/ execute_if(f, i) \/ execute_goto(f, i)
             \/ execute_return(f, i) \/ execute_loadobj(f, i)
    BY <2>1, <2>7, NextBranch
  <2>8. CASE execute_match(f, i) \/ execute_matchargs(f, i) \/ execute_stracc(f, i)
    BY <2>1, <2>8, NextMatch, NextMatchargs, NextStracc
  <2>9. CASE invalid_opcode(f, i) \/ execute_fieldget(f, i)
    BY <2>9, NextInvalid
  <2>10. CASE execute_fork(f, i) \/ execute_newproc(f, i) \/ execute_recv(f, i) \/ execute_call(f, i)
    BY <2>1, <2>10, NextFork, NextNewproc, NextRecv, NextCall
  <2>11. QED
    BY <1>1, <1>3, <2>2, <2>3, <2>4, <2>5, <2>6, <2>7, <2>8, <2>9, <2>10, ExecutedIs
<1>4. QED
  BY <1>2, <1>3

(* The result of main() and the drains of the workers; a context variable. *)
Starting(n, x) == [NewIndex(n) EXCEPT !.regs[1] = x]
LEMMA FirstObject ==
    ASSUME NEW n \in Nat \ {0}, NEW x, NEW o, o = Starting(n, x)
    PROVE  /\ GoodShape(o) /\ Len(o.regs) = n /\ 1 \in DOMAIN o.regs /\ o.moves = 0
           /\ \A r \in DOMAIN o.regs : o.regs[r] \in {Void, x}
<1>1. PICK b : b = NewIndex(n)
  OBVIOUS
<1>2. GoodShape(b) /\ b.regs = Voids(n) /\ b.func = "none" /\ b.moves = 0
  BY <1>1, BlankIndex DEF Blank, NewIndex
<1>3. PICK regs : regs = [Voids(n) EXCEPT ![1] = x]
  OBVIOUS
<1>4. IsSequence(Voids(n)) /\ Len(Voids(n)) = n /\ \A r \in DOMAIN Voids(n) : Voids(n)[r] = Void
  BY VoidSequence
<1>5. IsSequence(regs) /\ Len(regs) = n /\ DOMAIN regs = DOMAIN Voids(n)
  BY <1>3, <1>4, ExceptSequence
<1>6. o = [b EXCEPT !.regs = regs]
  BY <1>1, <1>2, <1>3 DEF Starting
<1>7. DOMAIN o = DOMAIN b /\ o.regs = regs /\ o.func = "none" /\ o.moves = 0
  BY <1>2, <1>6 DEF GoodShape
<1>8. GoodShape(o)
  BY <1>2, <1>5, <1>7 DEF GoodShape
<1>9. 1 \in DOMAIN regs
  <2>1. DOMAIN regs = 1 .. n /\ 1 <= n
    BY <1>5, SequenceDomain
  <2>2. QED
    BY <2>1
<1>10. \A r \in DOMAIN regs : regs[r] \in {Void, x}
  BY <1>3, <1>4, <1>5
<1>11. QED
  BY <1>5, <1>7, <1>8, <1>9, <1>10

LEMMA VariableObject ==
    ASSUME NEW x, NEW o, o = NewVariable(x)
    PROVE  GoodShape(o) /\ 1 \in DOMAIN o.regs /\ o.moves = 0 /\ \A r \in DOMAIN o.regs : o.regs[r] \in {Void, x}
<1>1. o = Starting(1, x) /\ 1 \in Nat \ {0}
  BY DEF NewVariable, Starting
<1>2. QED
  BY <1>1, FirstObject

LEMMA InitInv == ASSUME Init PROVE Inv /\ Serving
<1>1. program \in Main /\ Loadable(program) /\ program \in DOMAIN Function /\ 1 \in DOMAIN Function[program].code
  BY MainAssumption, FunctionAssumption DEF Init, Loadable
<1>2. PICK o : o = Starting(NumWorkers + 1, Num(0))
  OBVIOUS
<1>3. PICK m, d, e, k : /\ m = NewValue(program) /\ d = NewVariable(Stream(0)) /\ e = NewVariable(Stream(1))
                         /\ k = NewIndex(1)
  OBVIOUS
<1>4. value = <<o, m, d, e, k>>
  BY <1>2, <1>3 DEF Init, Starting
<1>5. Blank(m) /\ m.func = program /\ program # "none" /\ m.regs = Voids(regtotal(program)) /\ regtotal(program) \in Nat
  BY <1>1, <1>3, BlankValue, RegTotal DEF NewValue, NewIndex
<1>6. /\ GoodShape(o) /\ Len(o.regs) = NumWorkers + 1 /\ 1 \in DOMAIN o.regs /\ o.moves = 0 /\ NumWorkers \in Nat
      /\ \A r \in DOMAIN o.regs : o.regs[r] \in {Void, Num(0)}
      /\ GoodShape(d) /\ 1 \in DOMAIN d.regs /\ d.moves = 0 /\ \A r \in DOMAIN d.regs : d.regs[r] \in {Void, Stream(0)}
      /\ GoodShape(e) /\ 1 \in DOMAIN e.regs /\ e.moves = 0 /\ \A r \in DOMAIN e.regs : e.regs[r] \in {Void, Stream(1)}
      /\ Blank(k) /\ 1 \in DOMAIN k.regs
  <2>1. NumWorkers + 1 \in Nat \ {0} /\ NumWorkers \in Nat /\ 1 \in Nat \ {0}
    BY BoundsAssumption
  <2>2. GoodShape(d) /\ 1 \in DOMAIN d.regs /\ d.moves = 0 /\ \A r \in DOMAIN d.regs : d.regs[r] \in {Void, Stream(0)}
    BY <1>3, VariableObject
  <2>3. GoodShape(e) /\ 1 \in DOMAIN e.regs /\ e.moves = 0 /\ \A r \in DOMAIN e.regs : e.regs[r] \in {Void, Stream(1)}
    BY <1>3, VariableObject
  <2>4. PICK n \in Nat \ {0} : n = NumWorkers + 1
    BY <2>1
  <2>5. /\ GoodShape(o) /\ Len(o.regs) = NumWorkers + 1 /\ 1 \in DOMAIN o.regs /\ o.moves = 0
        /\ \A r \in DOMAIN o.regs : o.regs[r] \in {Void, Num(0)}
    BY <1>2, <2>4, FirstObject
  <2>6. Blank(k) /\ k.regs = Voids(1)
    BY <1>3, BlankIndex
  <2>7. 1 \in DOMAIN Voids(1)
    BY DEF Voids
  <2>8. QED
    BY <2>1, <2>2, <2>3, <2>5, <2>6, <2>7
<1>7. IsSequence(value) /\ DOMAIN value = 1 .. 5 /\ value[1] = o /\ value[2] = m /\ value[3] = d /\ value[4] = e /\ value[5] = k
  <2>1. DOMAIN value = 1 .. 5 /\ value[1] = o /\ value[2] = m /\ value[3] = d /\ value[4] = e /\ value[5] = k
        /\ value = [v \in 1 .. 5 |-> value[v]]
    BY <1>4
  <2>2. QED
    BY <2>1, SequenceLength
<1>8. GoodHeap(value)
  <2>1. Shaped(value)
    <3>1. \A v \in 1 .. 5 : GoodShape(value[v])
      <4>1. \A v \in 1 .. 5 : v \in {1, 2, 3, 4, 5}
        OBVIOUS
      <4>2. QED
        BY <1>5, <1>6, <1>7, <4>1 DEF Blank
    <3>2. QED
      BY <1>7, <3>1 DEF Shaped
  <2>2. GoodValue(value, Void) /\ GoodValue(value, Num(0)) /\ GoodValue(value, Stream(0)) /\ GoodValue(value, Stream(1))
    <3>1. /\ \A n \in Int : GoodValue(value, Num(n))
          /\ \A fd \in 0 .. 2 : GoodValue(value, Stream(fd))
      BY GoodPlain
    <3>2. QED
      BY <3>1, GoodVoid
  <2>3. ASSUME NEW v \in DOMAIN value, NEW r \in DOMAIN value[v].regs PROVE GoodValue(value, value[v].regs[r])
    <3>1. v \in {1, 2, 3, 4, 5}
      BY <1>7
    <3>2. value[v].regs[r] \in {Void, Num(0), Stream(0), Stream(1)}
      BY <1>5, <1>6, <1>7, <3>1 DEF Blank
    <3>3. QED
      BY <2>2, <3>2
  <2>4. /\ 1 \in DOMAIN value /\ NumWorkers + 1 <= Len(value[1].regs)
        /\ CONST_REGISTER \in DOMAIN value /\ 1 \in DOMAIN value[CONST_REGISTER].regs
    BY <1>6, <1>7 DEF CONST_REGISTER
  <2>5. QED
    BY <2>1, <2>3, <2>4 DEF GoodHeap
<1>9. PICK context : context = [stdin |-> stdin, stdout |-> stdout]
  OBVIOUS
<1>10. PICK b, c : b = NewCall(0, 1, <<1, 0, 0>>, 2, program) /\ c = [b EXCEPT !.context = context]
  OBVIOUS
<1>11. /\ DOMAIN c = Fields /\ c.cfstate = "READY" /\ c.context = context
       /\ c.parent = 0 /\ c.proc = 1 /\ c.type = "call" /\ c.pc = 1
       /\ c.value = 2 /\ c.func = program /\ c.result = <<1, 0, 0>>
  <2>1. /\ DOMAIN b = Fields /\ b.cfstate = "READY"
        /\ b.parent = 0 /\ b.proc = 1 /\ b.type = "call" /\ b.pc = 1
        /\ b.value = 2 /\ b.func = program /\ b.result = <<1, 0, 0>>
    BY <1>10 DEF NewCall, NewFrame, Fields
  <2>2. QED
    BY <1>10, <2>1 DEF Fields
<1>12. GoodCall(value, c)
  <2>1. HasPlace(value, <<1, 0, 0>>)
    BY <1>6, <1>7 DEF HasPlace
  <2>2. regtotal(program) <= Len(value[2].regs)
    <3>1. Len(Voids(regtotal(program))) = regtotal(program)
      BY <1>5, VoidSequence
    <3>2. QED
      BY <1>5, <1>7, <3>1
  <2>3. QED
    BY <1>1, <1>7, <1>11, <2>1, <2>2 DEF GoodCall
<1>13. /\ GoodFrames(value, frame, Len(process)) /\ DOMAIN frame = {1}
       /\ GoodProcesses(value, frame, process)
  <2>1. frame = <<c>> /\ process = <<NewProcess(1)>>
    BY <1>9, <1>10 DEF Init
  <2>2. DOMAIN frame = 1 .. 1 /\ frame[1] = c /\ frame = [g \in 1 .. 1 |-> frame[g]]
    BY <2>1
  <2>3. IsSequence(frame) /\ Len(frame) = 1
    BY <2>2, SequenceLength
  <2>4. PICK p : p = NewProcess(1)
    OBVIOUS
  <2>5. DOMAIN process = 1 .. 1 /\ process[1] = p /\ process = [g \in 1 .. 1 |-> process[g]]
    BY <2>1, <2>4
  <2>6. IsSequence(process) /\ Len(process) = 1
    BY <2>5, SequenceLength
  <2>7. CodeOf(frame, 1) = Function[program].code
    BY <1>11, <2>2 DEF CodeOf, CallOf
  <2>8. GoodFrame(value, frame, 1, 1)
    <3>1. HasPlace(value, <<3, 0, 0>>) /\ HasPlace(value, <<4, 0, 0>>)
      BY <1>6, <1>7 DEF HasPlace
    <3>2. \A name \in DOMAIN context : context[name] \in {3, 4}
      BY <1>9 DEF stdin, stdout
    <3>3. \A name \in DOMAIN c.context : HasPlace(value, <<c.context[name], 0, 0>>)
      BY <1>11, <3>1, <3>2
    <3>4. QED
      BY <1>1, <1>11, <1>12, <2>2, <2>7, <3>3 DEF GoodFrame, States
  <2>9. GoodFrames(value, frame, Len(process))
    BY <2>2, <2>3, <2>6, <2>8, BoundsAssumption DEF GoodFrames
  <2>10. DOMAIN p = {"worker", "call", "recv"} /\ p.worker = 0 /\ p.call = 1 /\ p.recv = <<>>
    BY <2>4 DEF NewProcess
  <2>11. IsSequence(p.recv) /\ DOMAIN p.recv = {}
    BY <2>10, EmptySequence, SequenceDomain
  <2>12. GoodProcess(value, frame, p)
    BY <2>2, <2>10, <2>11, BoundsAssumption DEF GoodProcess
  <2>13. GoodProcesses(value, frame, process)
    BY <2>5, <2>6, <2>12 DEF GoodProcesses
  <2>14. QED
    BY <2>2, <2>9, <2>13
<1>14. GoodIo(value, frame, io)
  BY DEF Init, GoodIo
<1>15. GoodQueue(frame, current, fresh, stale)
  BY DEF Init, GoodQueue
<1>16. Rest
  BY MainAssumption, BoundsAssumption DEF Init, Rest, Worker, Ends
<1>17. Serving
  BY DEF Init, Serving
<1>18. QED
  BY <1>8, <1>13, <1>14, <1>15, <1>16, <1>17 DEF Inv

LEMMA NextInv == Inv /\ Serving /\ [Next]_vars => Inv' /\ Serving'
<1>1. SUFFICES ASSUME Inv, Serving, [Next]_vars PROVE Inv' /\ Serving'
  OBVIOUS
<1>2. at \in [Worker -> {"fetch", "io", "switch"}] /\ current \in [Worker -> {None} \cup DOMAIN frame]
  BY <1>1 DEF Inv, Rest, GoodQueue
<1>3. ASSUME NEW w \in Worker, gotowork(w) PROVE Inv' /\ Serving'
  <2>1. Inv'
    BY <1>1, <1>3, NextIdle, NextWait, NextFinish DEF gotowork
  <2>2. CASE idle(w)
    BY <1>1, <1>2, <2>1, <2>2 DEF idle, findtask, Serving
  <2>3. CASE iowork_done(w)
    <3>1. at' = [at EXCEPT ![w] = "switch"] /\ (current'[w] = None => broken' # "none")
      BY <2>3 DEF iowork_done
    <3>2. broken = "none" /\ \A v \in Worker : v # w => current'[v] = current[v]
      BY <1>2, <2>3 DEF iowork_done, findtask, queue
    <3>3. QED
      BY <1>1, <1>2, <2>1, <3>1, <3>2 DEF Serving
  <2>4. CASE switch_ready(w) \/ switch_wait(w) \/ finish_frame(w)
    <3>1. at' = [at EXCEPT ![w] = "fetch"] /\ broken = "none"
      BY <2>4 DEF switch_ready, switch_wait, finish_frame, Switch
    <3>2. \A v \in Worker : v # w => current'[v] = current[v]
      BY <1>2, <2>4 DEF switch_ready, switch_wait, finish_frame, findtask, queue
    <3>3. QED
      BY <1>1, <1>2, <2>1, <3>1, <3>2 DEF Serving
  <2>5. QED
    BY <1>3, <2>2, <2>3, <2>4 DEF gotowork
<1>4. ASSUME NEW f \in DOMAIN frame, execute_instruction(f) PROVE Inv' /\ Serving'
  <2>1. Inv'
    BY <1>1, <1>4, NextInstruction
  <2>2. Runs(f) /\ on(f) \in Worker /\ broken = "none"
    BY <1>1, <1>4, RunsOn DEF execute_instruction, Runs
  <2>3. CASE at' = at /\ current' = current /\ broken' # "none"
    BY <1>1, <2>1, <2>3 DEF Serving
  <2>4. CASE at' = [at EXCEPT ![on(f)] = "io"] /\ (current' = current \/ \E x : current' = [current EXCEPT ![on(f)] = x])
    <3>1. PICK w \in Worker : w = on(f)
      BY <2>2
    <3>2. \A v \in Worker : v # w => at'[v] = at[v] /\ current'[v] = current[v]
      BY <1>2, <2>4, <3>1
    <3>3. at'[w] = "io"
      BY <1>2, <2>4, <3>1
    <3>4. \A v \in Worker : at'[v] = "switch" => current'[v] # None \/ broken' # "none"
      BY <1>1, <2>2, <3>2, <3>3 DEF Serving
    <3>5. QED
      BY <2>1, <3>4 DEF Serving
  <2>5. QED
    BY <1>4, <2>3, <2>4, Turns DEF Turn
<1>5. ASSUME NEW f \in DOMAIN io, iopop(f) PROVE Inv' /\ Serving'
  BY <1>1, <1>5, NextIopop DEF iopop, Serving
<1>6. CASE distribute_work
  BY <1>1, <1>6, NextDistribute DEF distribute_work, Serving
<1>7. CASE UNCHANGED vars
  <2>1. UNCHANGED <<program, fifo, process, distributor, value, frame, current, fresh, stale, at, io, known, broken>>
    BY <1>7 DEF vars, queue
  <2>2. Inv'
    BY <1>1, <2>1 DEF Inv, Rest
  <2>3. QED
    BY <1>1, <2>1, <2>2 DEF Serving
<1>8. QED
  BY <1>1, <1>3, <1>4, <1>5, <1>6, <1>7 DEF Next

-----------------------------------------------------------------------------
(***************************************************************************)
(* Theorems.                                                               *)
(***************************************************************************)
(* Whatever a program does, in whatever order its paths, calls and         *)
(* processes get their turns: registers hold values that are there, a      *)
(* reference leads to a register or to where one has been before its       *)
(* object's registers moved or were freed, frames have the registers their *)
(* code names, queues the frames that were made.                           *)
THEOREM Invariance == Spec => [](Inv /\ Serving)
<1>1. Init => Inv /\ Serving
  BY InitInv
<1>2. QED
  BY <1>1, NextInv, PTL DEF Spec

LEMMA InvTypeOK == Inv => TypeOK
<1>1. SUFFICES ASSUME Inv PROVE TypeOK
  OBVIOUS
<1>2. /\ program \in Main /\ fifo \in BOOLEAN /\ distributor \in Worker
      /\ broken \in {"none", "null", "exit", "unjoined", "dangling", "undefined"}
  BY <1>1 DEF Inv, Rest, Ends
<1>3. ASSUME NEW p \in DOMAIN process
      PROVE  /\ process[p].worker \in Worker \cup {0} /\ process[p].call \in DOMAIN frame
             /\ Range(process[p].recv) \subseteq DOMAIN value
  <2>1. GoodProcess(value, frame, process[p])
    BY <1>1 DEF Inv, GoodProcesses
  <2>2. process[p].worker \in Worker \cup {0}
    BY <2>1, BoundsAssumption DEF GoodProcess, Worker
  <2>3. \A k \in DOMAIN process[p].recv : process[p].recv[k] \in DOMAIN value
    BY <2>1 DEF GoodProcess, HasPlace
  <2>4. Range(process[p].recv) \subseteq DOMAIN value
    BY <2>3 DEF Range
  <2>5. QED
    BY <2>1, <2>2, <2>4 DEF GoodProcess
<1>4. ASSUME NEW v \in DOMAIN value, NEW r \in DOMAIN value[v].regs PROVE IsValue(value[v].regs[r])
  <2>1. PICK x : x = value[v].regs[r]
    OBVIOUS
  <2>2. GoodValue(value, x)
    BY <1>1, <2>1 DEF Inv, GoodHeap
  <2>3. IsValue(x)
    <3>1. CASE x[1] = "Int"
      BY <2>2, <3>1 DEF GoodValue, IsValue
    <3>2. CASE x[1] = "Bool"
      BY <2>2, <3>2 DEF GoodValue, IsValue
    <3>3. CASE x[1] = "Ref"
      BY <2>2, <3>3 DEF GoodValue, IsValue, HasPlace, IsPlace
    <3>4. CASE x[1] = "String"
      BY <2>2, <3>4 DEF GoodValue, IsValue
    <3>5. CASE IsIndex(x)
      <4>1. x[1] \notin {"Int", "Bool", "Ref", "Stream"} /\ x[2] \in DOMAIN value
        BY <2>2, <3>5 DEF GoodValue, Plain
      <4>2. QED
        BY <3>5, <4>1 DEF IsValue
    <3>6. CASE ~IsIndex(x) /\ x[1] \in Plain \ {"Int", "Bool", "Stream"}
      BY <3>6 DEF IsValue, Plain
    <3>7. CASE x[1] = "Stream"
      BY <2>2, <3>7 DEF GoodValue, IsValue, Plain
    <3>8. QED
      BY <2>2, <3>1, <3>2, <3>3, <3>4, <3>5, <3>6, <3>7 DEF GoodValue
  <2>4. QED
    BY <2>1, <2>3
<1>5. Len(frame) <= MaxFrames
  BY <1>1 DEF Inv, GoodFrames
<1>6. ASSUME NEW w \in Worker
      PROVE  /\ known[w] \subseteq Module
             /\ ({current[w]} \ {None}) \cup Range(fresh[w] \o stale[w]) \subseteq DOMAIN frame
             /\ at[w] \in {"fetch", "io", "switch"}
  <2>1. known[w] \subseteq Module /\ at[w] \in {"fetch", "io", "switch"}
    BY <1>1 DEF Inv, Rest
  <2>2. current[w] \in {None} \cup DOMAIN frame
    BY <1>1 DEF Inv, GoodQueue
  <2>3. PICK S : S = DOMAIN frame
    OBVIOUS
  <2>4. fresh[w] \in Seq(S) /\ stale[w] \in Seq(S)
    BY <1>1, <2>3 DEF Inv, GoodQueue
  <2>5. PICK q : q = fresh[w] \o stale[w]
    OBVIOUS
  <2>6. q \in Seq(S)
    BY <2>4, <2>5
  <2>7. Range(q) \subseteq S
    BY <2>6 DEF Range
  <2>8. QED
    BY <2>1, <2>2, <2>3, <2>5, <2>7
<1>7. ASSUME NEW f \in DOMAIN io
      PROVE  /\ f \in DOMAIN frame /\ io[f].fd \in {0, 1} /\ io[f].registered \in BOOLEAN
             /\ io[f].place # NoPlace => IsPlace(io[f].place)
  BY <1>1 DEF Inv, GoodIo, HasPlace, IsPlace
<1>8. ASSUME NEW f \in DOMAIN frame
      PROVE  /\ frame[f].cfstate \in {"READY", "IOWAIT", "PEERWAIT", "COMPLETE", "FAILED"}
             /\ frame[f].parent < f /\ frame[f].proc \in DOMAIN process /\ frame[function_call(f)].type = "call"
             /\ frame[f].type = "call" =>
                   /\ frame[f].value \in DOMAIN value
                   /\ frame[f].result # NoPlace => IsPlace(frame[f].result)
  <2>1. GoodFrame(value, frame, Len(process), f)
    BY <1>1 DEF Inv, GoodFrames
  <2>2. frame[f].parent < f /\ frame[f].proc \in DOMAIN process
    <3>1. f \in Nat /\ DOMAIN process = 1 .. Len(process)
      BY <1>1, InvFacts
    <3>2. QED
      BY <2>1, <3>1 DEF GoodFrame
  <2>3. frame[function_call(f)].type = "call"
    BY <1>1, CallOfFrame
  <2>4. frame[f].type = "call" =>
           /\ frame[f].value \in DOMAIN value
           /\ frame[f].result # NoPlace => IsPlace(frame[f].result)
    BY <2>1 DEF GoodFrame, GoodCall, HasPlace, IsPlace
  <2>5. QED
    BY <2>1, <2>2, <2>3, <2>4 DEF GoodFrame, States
<1>9. QED
  BY <1>2, <1>3, <1>4, <1>5, <1>6, <1>7, <1>8 DEF TypeOK

(* Every register holds a value the code knows, references lead to         *)
(* registers or to where registers have been, and every frame knows its    *)
(* call.                                                                   *)
THEOREM InterpreterTypes == Spec => []TypeOK
BY Invariance, InvTypeOK, PTL

(* A call has the registers its code names, whatever override its function *)
(* value has become.                                                       *)
THEOREM Registers == Spec => []RoomForRegisters
<1>1. Inv => RoomForRegisters
  <2>1. SUFFICES ASSUME Inv, NEW f \in Live, frame[f].type = "call"
                 PROVE  Len(value[frame[f].value].regs) >= regtotal(frame[f].func)
    BY DEF RoomForRegisters
  <2>2. GoodFrame(value, frame, Len(process), f)
    BY <2>1 DEF Inv, GoodFrames, Live
  <2>3. GoodCall(value, frame[f])
    BY <2>1, <2>2 DEF GoodFrame
  <2>4. Len(value[frame[f].value].regs) \in Nat /\ regtotal(frame[f].func) \in Nat
    BY <2>1, <2>3, InvFacts, RegisterDomain, RegTotal DEF GoodCall
  <2>5. QED
    BY <2>3, <2>4 DEF GoodCall
<1>2. QED
  BY <1>1, Invariance, PTL

-----------------------------------------------------------------------------
(***************************************************************************)
(* Dispatch.                                                               *)
(***************************************************************************)
(* Writing registers changes what no function value stands for.            *)
LEMMA SetKeeps ==
    ASSUME NEW h, Shaped(h), NEW v \in DOMAIN h, NEW a, NEW b, NEW x, NEW k, k = Set(h, a, b, x)
    PROVE  k[v].func = h[v].func /\ IsSequence(k) /\ Len(k) = Len(h) /\ DOMAIN k = DOMAIN h
<1>1. IsSequence(k) /\ Len(k) = Len(h) /\ DOMAIN k = DOMAIN h
  BY ExceptSequence DEF Set, Shaped
<1>2. CASE v = a
  <2>1. k[v] = [h[v] EXCEPT !.regs = [h[v].regs EXCEPT ![b] = x]]
    BY <1>2 DEF Set
  <2>2. DOMAIN h[v] = {"func", "family", "argc", "regs", "moves", "text"}
    BY DEF Shaped, GoodShape
  <2>3. QED
    BY <1>1, <2>1, <2>2
<1>3. CASE v # a
  BY <1>1, <1>3 DEF Set
<1>4. QED
  BY <1>2, <1>3

LEMMA PutStringKeeps ==
    ASSUME NEW h, Shaped(h), NEW v \in DOMAIN h, NEW a, NEW b, NEW text, NEW k, k = PutString(h, a, b, text)
    PROVE  k[v].func = h[v].func
<1>1. PICK e : e = Set(h, a, b, String(Len(h) + 1))
  OBVIOUS
<1>2. e[v].func = h[v].func /\ IsSequence(e) /\ DOMAIN e = DOMAIN h
  BY <1>1, SetKeeps
<1>3. PICK o : o = NewString(text)
  OBVIOUS
<1>4. k = Append(e, o)
  BY <1>1, <1>3 DEF PutString
<1>5. k[v] = e[v]
  BY <1>2, <1>4, AppendSequence
<1>6. QED
  BY <1>2, <1>5

LEMMA CopiedKeeps ==
    ASSUME NEW h, Shaped(h), NEW v \in DOMAIN h, NEW place, NEW x, NEW k, k = Copied(h, place, x)
    PROVE  k[v].func = h[v].func
<1>1. PICK a, b : a = place[1] /\ b = place[2] + 1
  OBVIOUS
<1>2. CASE x[1] = "String"
  <2>1. k = Append([h EXCEPT ![place[1]].regs[place[2] + 1] = String(Len(h) + 1)], NewString(h[x[2]].text))
    BY <1>2, Zenon DEF Copied
  <2>2. k = PutString(h, a, b, h[x[2]].text)
    BY <1>1, <2>1 DEF PutString, Set
  <2>3. QED
    BY <2>2, PutStringKeeps
<1>3. CASE x[1] # "String" /\ Copies(x)
  <2>1. k = Set(h, a, b, x)
    BY <1>1, <1>3 DEF Copied, Set
  <2>2. QED
    BY <2>1, SetKeeps
<1>4. CASE x[1] # "String" /\ ~Copies(x)
  BY <1>4 DEF Copied
<1>5. QED
  BY <1>2, <1>3, <1>4

(* Only the instruction of its frame turns a worker to the streams.        *)
LEMMA TurnsItself ==
    ASSUME Inv, [Next]_vars, NEW f \in DOMAIN frame, Runs(f), at'[on(f)] = "io"
    PROVE  execute_instruction(f)
<1>1. on(f) \in Worker /\ at[on(f)] = "fetch" /\ current[on(f)] = f
  BY RunsOn DEF Runs
<1>2. at \in [Worker -> {"fetch", "io", "switch"}]
  BY DEF Inv, Rest
<1>3. at' # at
  BY <1>1
<1>4. ASSUME NEW w \in Worker, gotowork(w) PROVE FALSE
  <2>1. at' = at \/ at' = [at EXCEPT ![w] = "switch"] \/ at' = [at EXCEPT ![w] = "fetch"]
    BY <1>4 DEF gotowork, idle, iowork_done, switch_ready, switch_wait, finish_frame, Switch
  <2>2. QED
    BY <1>1, <1>2, <2>1
<1>5. ASSUME NEW g \in DOMAIN frame, execute_instruction(g) PROVE g = f
  <2>1. Runs(g) /\ at' = [at EXCEPT ![on(g)] = "io"]
    BY <1>3, <1>5, Turns DEF Turn, execute_instruction
  <2>2. PICK w \in Worker : w = on(g)
    BY <2>1, RunsOn
  <2>3. w = on(f)
    BY <1>1, <1>2, <2>1, <2>2
  <2>4. QED
    BY <1>1, <2>1, <2>2, <2>3 DEF Runs
<1>6. ASSUME NEW g \in DOMAIN io, iopop(g) PROVE FALSE
  BY <1>3, <1>6 DEF iopop
<1>7. CASE distribute_work
  BY <1>3, <1>7 DEF distribute_work
<1>8. CASE UNCHANGED vars
  BY <1>3, <1>8 DEF vars
<1>9. QED
  BY <1>4, <1>5, <1>6, <1>7, <1>8 DEF Next

(* A call never waits for a promise, nor passes on the failure of what it  *)
(* looks up: it finds its registers, or the program goes wrong.            *)
LEMMA CallLooks ==
    ASSUME Inv, NEW f \in DOMAIN frame, NEW i, i = Instruction(f), i.op = "call", NEW name \in Stops(f, i)
    PROVE  /\ Look(f, i, name).stop # "promise" /\ Mode(i.op, name) \notin {"read", "appended"}
           /\ ~Noticed(f, i, name)
<1>1. name \in {"dst", "src"}
  <2>1. name \in Range(Operands(i.op))
    BY StopsOperand
  <2>2. Operands(i.op) = <<"dst", "src">>
    BY DEF Operands, Arithmetic, Comparison
  <2>3. QED
    BY <2>1, <2>2, TupleRange
<1>2. Mode(i.op, name) \in {"write", "dst"} /\ i.op \notin Checked
  <2>1. Mode("call", "dst") = "write"
    BY DEF Mode, Checked, Arithmetic
  <2>2. Mode("call", "src") = "dst"
    BY DEF Mode, Checked, Arithmetic
  <2>3. "call" \notin Checked
    BY DEF Checked
  <2>4. QED
    BY <1>1, <2>1, <2>2, <2>3
<1>3. Named(frame[function_call(f)].func, i[name])
  <2>1. name \in Range(Operands(i.op))
    BY StopsOperand
  <2>2. QED
    BY <2>1, CodeNames
<1>4. Look(f, i, name).stop # "promise"
  BY <1>2, <1>3, LookupFound, ModeOf DEF Look
<1>5. QED
  BY <1>2, <1>4 DEF Noticed

LEMMA ExecutesCall ==
    ASSUME Inv, NEW f \in DOMAIN frame, execute_instruction(f), NEW i, i = Instruction(f), i.op = "call", at' # at
    PROVE  Step(f, i) /\ execute_call(f, i)
<1>1. ~read_promise(f, i) /\ ~read_failure(f, i) /\ ~register404(f, i) /\ ~patternvar_null(f, i)
  BY CallLooks DEF read_promise, read_failure, register404, patternvar_null
<1>2. ~follow_null(f, i)
  <2>1. \A how : Breaks(f, how) => at' = at
    BY DEF Breaks
  <2>2. QED
    BY <2>1 DEF follow_null
<1>3. ~(execute_consti(f, i) \/ execute_consts(f, i) \/ execute_consthash(f, i) \/ execute_ctuple(f, i)
        \/ execute_lconstruct(f, i) \/ execute_cfailure(f, i) \/ execute_copy(f, i) \/ execute_move(f, i)
        \/ execute_patternvar(f, i) \/ execute_ref(f, i))
  BY DEF execute_consti, execute_consts, execute_consthash, execute_ctuple, execute_lconstruct,
     execute_cfailure, execute_copy, execute_move, execute_patternvar, execute_ref
<1>4. ~(execute_lcontext(f, i) \/ execute_binaryop(f, i) \/ execute_divide(f, i) \/ execute_cmp(f, i)
        \/ execute_goto(f, i) \/ execute_if(f, i) \/ execute_iffail(f, i) \/ execute_match(f, i)
        \/ execute_matchargs(f, i) \/ execute_stracc(f, i))
  BY DEF execute_lcontext, execute_binaryop, execute_divide, execute_cmp, Comparison, execute_goto, execute_if,
     execute_iffail, execute_match, execute_matchargs, execute_stracc
<1>5. ~(execute_fieldget(f, i) \/ execute_fork(f, i) \/ execute_loadfunc(f, i) \/ execute_loadobj(f, i)
        \/ invalid_opcode(f, i) \/ execute_return(f, i) \/ execute_newproc(f, i) \/ execute_recv(f, i))
  BY DEF execute_fieldget, execute_fork, Forking, execute_loadfunc, execute_loadobj, invalid_opcode,
     execute_return, execute_newproc, execute_recv
<1>6. QED
  BY <1>1, <1>2, <1>3, <1>4, <1>5, ExecutedIs

LEMMA CallChooses ==
    ASSUME Inv, NEW f \in DOMAIN frame, NEW i, Step(f, i), execute_call(f, i), at' # at,
           NEW func, func = Value(f, i, "src"), func[1] = "Function",
           NEW v, v = func[2], BadArguments(v) = {}
    PROVE  value'[v].func = Choice(on(f), value[v])
<1>1. PICK out : out = Target(f, i, "dst")
  OBVIOUS
<1>2. i.op = "call" /\ GoodValue(value, func) /\ v \in DOMAIN value /\ value[v].func # "none"
  <2>1. i.op = "call"
    BY DEF execute_call
  <2>2. GoodValue(value, func)
    BY <2>1, FoundSrc DEF Sources
  <2>3. QED
    BY <2>1, <2>2 DEF GoodValue, IsIndex
<1>3. PICK moves \in BOOLEAN :
         \E heap \in {[value EXCEPT ![v] = override_function(on(f), value[v], moves)]} : Performs(f, v, heap, out)
  <2>1. PICK c \in {Value(f, i, "src")}, o \in {Target(f, i, "dst")} :
           \/ call_other(f, c, o)
           \/ /\ c[1] = "Function"
              /\ \/ qbrtcall_failed(f, c[2])
                 \/ \E moves \in BOOLEAN :
                    \E heap \in {[value EXCEPT ![c[2]] = override_function(on(f), @, moves)]} :
                       Performs(f, c[2], heap, o)
    BY DEF execute_call, Performs
  <2>2. c = func /\ o = out
    BY <1>1, <2>1
  <2>3. ~call_other(f, c, o) /\ ~qbrtcall_failed(f, c[2])
    BY <2>2 DEF call_other, qbrtcall_failed
  <2>4. QED
    BY <2>1, <2>2, <2>3
<1>4. PICK h : h = [value EXCEPT ![v] = override_function(on(f), value[v], moves)]
  OBVIOUS
<1>5. Performs(f, v, h, out)
  BY <1>3, <1>4
<1>6. Called(f, i, v, h)
  BY <1>2, <1>4 DEF Called
<1>7. /\ GoodHeap(h) /\ Shaped(h) /\ IsSequence(h) /\ v \in DOMAIN h
      /\ h[v].func = Choice(on(f), value[v])
  BY <1>2, <1>6, CalledIs
<1>8. SUFFICES value'[v].func = h[v].func
  BY <1>7
<1>9. \A how : ~Breaks(f, how)
  BY DEF Breaks
<1>10. PICK a, b : a = out[1] /\ b = out[2] + 1
  OBVIOUS
<1>11. CASE qbrtcall_abstract(f, v, h) \/ core_print(f, v, h, out) \/ qbrtcall(f, v, h, out)
  BY <1>11 DEF qbrtcall_abstract, core_print, Becomes, qbrtcall
<1>12. CASE core_dangling(f, v, h, out) \/ qbrtcall_mismatch(f, v, h)
  BY <1>9, <1>12 DEF core_dangling, qbrtcall_mismatch
<1>13. ASSUME NEW x, value' = Outputs(h, out, x) PROVE value'[v].func = h[v].func
  <2>1. value' = Set(h, a, b, x)
    BY <1>10, <1>13 DEF Outputs, Set
  <2>2. QED
    BY <1>7, <2>1, SetKeeps
<1>14. ASSUME NEW text, value' = OutputsText(h, out, text) PROVE value'[v].func = h[v].func
  <2>1. value' = PutString(h, a, b, text)
    BY <1>10, <1>14 DEF OutputsText, Outputs, PutString, Set
  <2>2. QED
    BY <1>7, <2>1, PutStringKeeps
<1>15. CASE core_pid(f, v, h, out) \/ core_open(f, v, h, out)
  <2>1. \E x : value' = Outputs(h, out, x)
    BY <1>9, <1>15 DEF core_pid, core_open, Becomes
  <2>2. QED
    BY <1>13, <2>1
<1>16. CASE core_str(f, v, h, out)
  <2>1. \E text : value' = OutputsText(h, out, text)
    BY <1>16 DEF core_str, Becomes
  <2>2. QED
    BY <1>14, <2>1
<1>17. CASE core_getline(f, v, h, out) \/ core_write(f, v, h, out)
  <2>1. value' = h \/ \E text : value' = OutputsText(h, out, text)
    BY <1>9, <1>17 DEF core_getline, core_write, iopush, handle
  <2>2. QED
    BY <1>14, <2>1
<1>18. CASE core_send(f, v, h, out)
  <2>1. PICK o : o = NewIndex(1)
    OBVIOUS
  <2>2. PICK mail : mail = Append(h, o)
    OBVIOUS
  <2>3. PICK place, x : value' = h \/ value' = Copied(mail, place, x)
    BY <1>18, <2>1, <2>2 DEF core_send
  <2>4. Blank(o)
    BY <2>1, BlankIndex
  <2>5. GoodHeap(mail) /\ mail[v] = h[v] /\ v \in DOMAIN mail
    <3>1. GoodHeap(mail)
      BY <1>7, <2>2, <2>4, AppendHeap
    <3>2. mail[v] = h[v] /\ v \in DOMAIN mail
      BY <1>7, <2>2, AppendSequence
    <3>3. QED
      BY <3>1, <3>2
  <2>6. Shaped(mail)
    BY <2>5 DEF GoodHeap
  <2>7. QED
    BY <2>3, <2>5, <2>6, CopiedKeeps
<1>19. QED
  BY <1>5, <1>11, <1>12, <1>15, <1>16, <1>17, <1>18 DEF Performs

(* What a function value calls is the choice of what it was made for and   *)
(* of the types of its arguments, whatever it has called before.           *)
THEOREM Dispatch == Spec => DispatchFresh
<1>1. Inv /\ Serving /\ [Next]_vars =>
         [\A f \in DOMAIN frame :
             Runs(f) /\ Instruction(f).op = "call" /\ at'[on(f)] = "io" =>
                 LET func == Value(f, Instruction(f), "src")
                 IN  func[1] = "Function" /\ BadArguments(func[2]) = {} =>
                         value'[func[2]].func = Choice(on(f), value[func[2]])]_vars
  <2>1. SUFFICES ASSUME Inv, [Next]_vars, NEW f \in DOMAIN frame, Runs(f), Instruction(f).op = "call",
                        at'[on(f)] = "io",
                        NEW func, func = Value(f, Instruction(f), "src"), func[1] = "Function",
                        BadArguments(func[2]) = {}
                 PROVE  value'[func[2]].func = Choice(on(f), value[func[2]])
    OBVIOUS
  <2>2. execute_instruction(f) /\ at' # at
    BY <2>1, TurnsItself DEF Runs
  <2>3. PICK i : i = Instruction(f)
    OBVIOUS
  <2>4. Step(f, i) /\ execute_call(f, i)
    BY <2>1, <2>2, <2>3, ExecutesCall
  <2>5. QED
    BY <2>1, <2>2, <2>3, <2>4, CallChooses
<1>2. QED
  BY <1>1, Invariance, PTL DEF Spec, DispatchFresh
=============================================================================
