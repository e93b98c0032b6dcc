---------------------------- MODULE PromiseProof ----------------------------
(***************************************************************************)
(* What becomes of promises and messages in Interpreter, for every program *)
(* it allows.  Instructions move values about, between registers, calls    *)
(* and processes; none of them moves a promise, which is in no register    *)
(* but the one a fork has put it in.  For messages that needs that a       *)
(* message is its mailbox's alone: nothing leads to the object that is     *)
(* sent, so that no fork can put a promise there.                          *)
(***************************************************************************)
EXTENDS InterpreterProof

-----------------------------------------------------------------------------
(***************************************************************************)
(* The inductive invariant.  S is a set of objects, the messages.          *)
(***************************************************************************)
Off(x, s) ==
    /\ x[1] = "Ref" => x[2][1] # s
    /\ IsIndex(x) \/ x[1] = "String" => x[2] # s
Clear(c, S) ==
    /\ c.type = "call" => c.value \notin S /\ (c.result # NoPlace => c.result[1] \notin S)
    /\ c.type = "path" => c.promised[1] \notin S
    /\ \A name \in DOMAIN c.context : c.context[name] \notin S

(* No register, frame or stream leads to an object of S.                   *)
Hidden(h, fr, waiting, S) ==
    /\ 1 \notin S
    /\ \A v \in DOMAIN h : \A r \in DOMAIN h[v].regs : \A s \in S : Off(h[v].regs[r], s)
    /\ \A f \in DOMAIN fr : Clear(fr[f], S)
    /\ \A f \in DOMAIN waiting : waiting[f].place # NoPlace => waiting[f].place[1] \notin S

(* A promise is where a fork has put it.                                   *)
Forked(fr, v, r) ==
    \E g \in DOMAIN fr : fr[g].type = "path" /\ fr[g].promised[1] = v /\ fr[g].promised[2] = r - 1
Made(h, fr) ==
    \A v \in DOMAIN h : \A r \in DOMAIN h[v].regs : h[v].regs[r] = Promise => Forked(fr, v, r)

Sent(ps) == UNION {Range(ps[p].recv) : p \in DOMAIN ps}
MessagesHidden == Hidden(value, frame, io, Sent(process))
PromisesMade == Made(value, frame)

(* Nothing leads to the constant either.                                   *)
Sealed(ps) == Sent(ps) \cup {CONST_REGISTER}
SealedHidden == Hidden(value, frame, io, Sealed(process))

-----------------------------------------------------------------------------
(***************************************************************************)
(* What a step may do to the heap.                                         *)
(***************************************************************************)
Free(x, S) == x # Promise /\ \A s \in S : Off(x, s)
Keeps(h, k, S) ==
    \A v \in DOMAIN k : \A r \in DOMAIN k[v].regs :
        \/ v \in DOMAIN h /\ r \in DOMAIN h[v].regs /\ k[v].regs[r] = h[v].regs[r]
        \/ Free(k[v].regs[r], S)

LEMMA KeepsReflexive == ASSUME NEW h, NEW S PROVE Keeps(h, h, S)
BY DEF Keeps

LEMMA KeepsTransitive ==
    ASSUME NEW h, NEW k, NEW l, NEW S, Keeps(h, k, S), Keeps(k, l, S)
    PROVE  Keeps(h, l, S)
BY DEF Keeps

LEMMA KeepsSet ==
    ASSUME NEW h, NEW S, Shaped(h), NEW a, NEW b, NEW x, Free(x, S), NEW k, k = Set(h, a, b, x)
    PROVE  Keeps(h, k, S)
<1>1. DOMAIN k = DOMAIN h
  BY DEF Set
<1>2. ASSUME NEW v \in DOMAIN k, NEW r \in DOMAIN k[v].regs
      PROVE  \/ v \in DOMAIN h /\ r \in DOMAIN h[v].regs /\ k[v].regs[r] = h[v].regs[r]
             \/ Free(k[v].regs[r], S)
  <2>1. DOMAIN h[v] = {"func", "family", "argc", "regs", "moves", "text"}
    BY <1>1 DEF Shaped, GoodShape
  <2>2. CASE v # a
    <3>1. k[v] = h[v]
      BY <1>1, <2>2 DEF Set
    <3>2. QED
      BY <1>1, <1>2, <3>1
  <2>3. CASE v = a
    <3>1. k[v].regs = [h[v].regs EXCEPT ![b] = x]
      BY <1>1, <2>1, <2>3 DEF Set
    <3>2. r \in DOMAIN h[v].regs /\ (k[v].regs[r] = x \/ k[v].regs[r] = h[v].regs[r])
      BY <1>2, <3>1
    <3>3. QED
      BY <1>1, <3>2
  <2>4. QED
    BY <2>2, <2>3
<1>3. QED
  BY <1>2 DEF Keeps

LEMMA FreePlain ==
    ASSUME NEW S
    PROVE  /\ Free(Void, S) /\ Free(PatternVar, S)
           /\ \A n : /\ Free(Num(n), S) /\ Free(Bool(n), S) /\ Free(Failure(n), S) /\ Free(Hashtag(n), S)
                  /\ Free(Stream(n), S)
<1>1. Free(Void, S)
  BY DEF Free, Off, IsIndex, Void, Promise
<1>2. Free(PatternVar, S)
  BY DEF Free, Off, IsIndex, PatternVar, Promise
<1>3. ASSUME NEW n PROVE Free(Num(n), S)
  BY DEF Free, Off, IsIndex, Num, Promise
<1>4. ASSUME NEW n PROVE Free(Bool(n), S)
  BY DEF Free, Off, IsIndex, Bool, Promise
<1>5. ASSUME NEW n PROVE Free(Failure(n), S)
  BY DEF Free, Off, IsIndex, Failure, Promise
<1>6. ASSUME NEW n PROVE Free(Hashtag(n), S)
  BY DEF Free, Off, IsIndex, Hashtag, Promise
<1>7. ASSUME NEW n PROVE Free(Stream(n), S)
  BY DEF Free, Off, IsIndex, Stream, Promise
<1>8. QED
  BY <1>1, <1>2, <1>3, <1>4, <1>5, <1>6, <1>7

LEMMA FreePointer ==
    ASSUME NEW S, NEW n, n \notin S
    PROVE  /\ Free(String(n), S) /\ Free(Tuple(n), S) /\ Free(function_value(n), S)
           /\ \A b : Free(Ref(<<n, 0, b>>), S)
<1>1. Free(String(n), S)
  BY DEF Free, Off, IsIndex, String, Promise
<1>2. Free(Tuple(n), S)
  BY DEF Free, Off, IsIndex, Tuple, Promise
<1>3. Free(function_value(n), S)
  BY DEF Free, Off, IsIndex, function_value, Promise
<1>4. ASSUME NEW b PROVE Free(Ref(<<n, 0, b>>), S)
  BY DEF Free, Off, IsIndex, Ref, Promise
<1>5. QED
  BY <1>1, <1>2, <1>3, <1>4

LEMMA FreeConstruct ==
    ASSUME NEW S, NEW n, n \notin S, NEW c \in DOMAIN Construct
    PROVE  Free(construct(n, c), S)
<1>1. Construct[c].type # "Ref" /\ Construct[c].type # "Promise"
  BY ConstructAssumption
<1>2. QED
  BY <1>1 DEF Free, Off, IsIndex, construct, Promise

LEMMA KeepsAppend ==
    ASSUME NEW h, IsSequence(h), NEW o, Blank(o), NEW S, NEW k, k = Append(h, o)
    PROVE  Keeps(h, k, S)
<1>1. /\ DOMAIN k = DOMAIN h \cup {Len(h) + 1} /\ k[Len(h) + 1] = o
      /\ \A v \in DOMAIN h : k[v] = h[v]
  BY AppendSequence
<1>2. \A r \in DOMAIN o.regs : Free(o.regs[r], S)
  BY FreePlain DEF Blank
<1>3. QED
  BY <1>1, <1>2 DEF Keeps

LEMMA KeepsObject ==
    ASSUME NEW h, NEW v \in DOMAIN h, NEW o, NEW S,
           \A r \in DOMAIN o.regs :
              (r \in DOMAIN h[v].regs /\ o.regs[r] = h[v].regs[r]) \/ o.regs[r] = Void,
           NEW k, k = [h EXCEPT ![v] = o]
    PROVE  Keeps(h, k, S)
<1>1. Free(Void, S)
  BY FreePlain
<1>2. DOMAIN k = DOMAIN h /\ k[v] = o /\ \A u \in DOMAIN h : u # v => k[u] = h[u]
  OBVIOUS
<1>3. QED
  BY <1>1, <1>2 DEF Keeps

LEMMA KeepsFreed ==
    ASSUME NEW h, Shaped(h), NEW C, NEW S,
           NEW k, k = [v \in DOMAIN h |-> IF v \in C THEN Gone(h[v]) ELSE h[v]]
    PROVE  Keeps(h, k, S)
<1>1. ASSUME NEW v \in DOMAIN k, NEW r \in DOMAIN k[v].regs
      PROVE  \/ v \in DOMAIN h /\ r \in DOMAIN h[v].regs /\ k[v].regs[r] = h[v].regs[r]
             \/ Free(k[v].regs[r], S)
  <2>1. v \in DOMAIN h
    BY <1>1
  <2>2. CASE v \notin C
    BY <1>1, <2>1, <2>2
  <2>3. CASE v \in C
    <3>1. PICK o : o = h[v]
      OBVIOUS
    <3>2. DOMAIN o = {"func", "family", "argc", "regs", "moves", "text"}
      BY <2>1, <3>1 DEF Shaped, GoodShape
    <3>3. k[v].regs = [o.regs EXCEPT ![1] = Void]
      BY <2>1, <2>3, <3>1, <3>2 DEF Gone
    <3>4. r \in DOMAIN o.regs /\ (k[v].regs[r] = Void \/ k[v].regs[r] = o.regs[r])
      BY <1>1, <3>3
    <3>5. QED
      BY <2>1, <3>1, <3>4, FreePlain
  <2>4. QED
    BY <2>2, <2>3
<1>2. QED
  BY <1>1 DEF Keeps

-----------------------------------------------------------------------------
(***************************************************************************)
(* What a step may do to the frames.                                       *)
(***************************************************************************)
Same(c, d) ==
    /\ DOMAIN c = Fields /\ DOMAIN d = Fields
    /\ d.type = c.type /\ d.value = c.value /\ d.result = c.result /\ d.promised = c.promised /\ d.context = c.context
Stay(fr, to) == DOMAIN to = DOMAIN fr /\ \A g \in DOMAIN fr : Same(fr[g], to[g])
Stays(fr, to, S) ==
    /\ DOMAIN fr \subseteq DOMAIN to /\ \A g \in DOMAIN to : Clear(to[g], S)
    /\ \A g \in DOMAIN fr : to[g].type = fr[g].type /\ to[g].promised = fr[g].promised

LEMMA StayReflexive == ASSUME Inv PROVE Stay(frame, frame)
BY DEF Stay, Same, Inv, GoodFrames, GoodFrame

LEMMA StayChanged ==
    ASSUME NEW fr, \A g \in DOMAIN fr : DOMAIN fr[g] = Fields, NEW f, NEW x, NEW to,
           \/ to = [fr EXCEPT ![f].pc = x] \/ to = [fr EXCEPT ![f].cfstate = x] \/ to = [fr EXCEPT ![f].live = x]
    PROVE  Stay(fr, to)
<1>1. DOMAIN to = DOMAIN fr
  OBVIOUS
<1>2. ASSUME NEW g \in DOMAIN fr PROVE Same(fr[g], to[g])
  <2>1. DOMAIN fr[g] = Fields
    OBVIOUS
  <2>2. CASE g # f
    <3>1. to[g] = fr[g]
      BY <2>2
    <3>2. QED
      BY <2>1, <3>1 DEF Same
  <2>3. CASE g = f
    <3>1. \/ to[g] = [fr[g] EXCEPT !.pc = x] \/ to[g] = [fr[g] EXCEPT !.cfstate = x]
          \/ to[g] = [fr[g] EXCEPT !.live = x]
      BY <2>3
    <3>2. QED
      BY <2>1, <3>1 DEF Same, Fields
  <2>4. QED
    BY <2>2, <2>3
<1>3. QED
  BY <1>1, <1>2 DEF Stay

LEMMA StayTransitive ==
    ASSUME NEW fr, NEW mid, NEW to, Stay(fr, mid), Stay(mid, to)
    PROVE  Stay(fr, to)
BY DEF Stay, Same

LEMMA FrameFields == ASSUME Inv PROVE \A g \in DOMAIN frame : DOMAIN frame[g] = Fields
BY DEF Inv, GoodFrames, GoodFrame

LEMMA StayGoto ==
    ASSUME Inv, NEW f, NEW pc
    PROVE  Stay(frame, Goto(f, pc)) /\ Stay(frame, Next_pc(f))
<1>1. Stay(frame, Goto(f, pc))
  BY FrameFields, StayChanged DEF Goto
<1>2. Stay(frame, Next_pc(f))
  BY FrameFields, StayChanged DEF Goto, Next_pc
<1>3. QED
  BY <1>1, <1>2

LEMMA StayState ==
    ASSUME Inv, NEW f, NEW g, NEW s
    PROVE  Stay(frame, [frame EXCEPT ![g].cfstate = s]) /\ Stay(frame, [Next_pc(f) EXCEPT ![g].cfstate = s])
<1>1. Stay(frame, [frame EXCEPT ![g].cfstate = s])
  BY FrameFields, StayChanged
<1>2. PICK mid : mid = Next_pc(f)
  OBVIOUS
<1>3. Stay(frame, mid)
  BY <1>2, StayGoto
<1>4. \A h \in DOMAIN mid : DOMAIN mid[h] = Fields
  BY <1>3 DEF Stay, Same
<1>5. PICK to : to = [mid EXCEPT ![g].cfstate = s]
  OBVIOUS
<1>6. Stay(mid, to)
  BY <1>4, <1>5, StayChanged
<1>7. Stay(frame, to)
  BY <1>3, <1>6, StayTransitive
<1>8. QED
  BY <1>1, <1>2, <1>5, <1>7

LEMMA StayClear ==
    ASSUME NEW fr, NEW S, \A g \in DOMAIN fr : Clear(fr[g], S), NEW to, Stay(fr, to)
    PROVE  Stays(fr, to, S)
BY DEF Stays, Stay, Same, Clear

LEMMA StaysAppend ==
    ASSUME NEW fr, NEW S, \A g \in DOMAIN fr : Clear(fr[g], S), NEW mid, IsSequence(mid), Stay(fr, mid),
           NEW c, Clear(c, S), NEW to, to = Append(mid, c)
    PROVE  Stays(fr, to, S)
<1>1. /\ DOMAIN to = DOMAIN mid \cup {Len(mid) + 1} /\ to[Len(mid) + 1] = c
      /\ \A k \in DOMAIN mid : to[k] = mid[k]
  BY AppendSequence
<1>2. Stays(fr, mid, S)
  BY StayClear
<1>3. QED
  BY <1>1, <1>2 DEF Stays, Stay

(* Both parts of the invariant after a step that makes no promise.         *)
LEMMA Onward ==
    ASSUME NEW h, NEW fr, NEW waiting, NEW S, Hidden(h, fr, waiting, S), Made(h, fr),
           NEW k, Keeps(h, k, S), NEW to, Stays(fr, to, S),
           NEW waits, \A f \in DOMAIN waits : waits[f].place # NoPlace => waits[f].place[1] \notin S
    PROVE  Hidden(k, to, waits, S) /\ Made(k, to)
<1>1. \A v \in DOMAIN k : \A r \in DOMAIN k[v].regs : \A s \in S : Off(k[v].regs[r], s)
  BY DEF Hidden, Keeps, Free
<1>2. Hidden(k, to, waits, S)
  BY <1>1 DEF Hidden, Stays
<1>3. ASSUME NEW v \in DOMAIN k, NEW r \in DOMAIN k[v].regs, k[v].regs[r] = Promise PROVE Forked(to, v, r)
  <2>1. v \in DOMAIN h /\ r \in DOMAIN h[v].regs /\ h[v].regs[r] = Promise
    BY <1>3 DEF Keeps, Free
  <2>2. Forked(fr, v, r)
    BY <2>1 DEF Made
  <2>3. QED
    BY <2>2 DEF Forked, Stays
<1>4. QED
  BY <1>2, <1>3 DEF Made

LEMMA HiddenLess ==
    ASSUME NEW h, NEW fr, NEW waiting, NEW S, Hidden(h, fr, waiting, S), NEW T, T \subseteq S
    PROVE  Hidden(h, fr, waiting, T)
BY DEF Hidden, Clear

-----------------------------------------------------------------------------
(***************************************************************************)
(* Where an instruction gets to.                                           *)
(***************************************************************************)
PInv == SealedHidden /\ PromisesMade

LEMMA SentObjects ==
    ASSUME Inv
    PROVE  Sealed(process) \subseteq DOMAIN value /\ Len(value) + 1 \notin Sealed(process)
<1>1. ASSUME NEW p \in DOMAIN process, NEW k \in DOMAIN process[p].recv PROVE process[p].recv[k] \in DOMAIN value
  <2>1. HasPlace(value, <<process[p].recv[k], 0, 0>>)
    BY DEF Inv, GoodProcesses, GoodProcess
  <2>2. QED
    BY <2>1 DEF HasPlace
<1>2. Sent(process) \subseteq DOMAIN value
  BY <1>1 DEF Sent, Range
<1>3. Sealed(process) \subseteq DOMAIN value
  BY <1>2 DEF Sealed, Inv, GoodHeap
<1>4. Len(value) + 1 \notin DOMAIN value
  BY InvFacts
<1>5. QED
  BY <1>3, <1>4

LEMMA SealedLess ==
    ASSUME NEW h, NEW fr, NEW waiting, NEW ps, Hidden(h, fr, waiting, Sealed(ps))
    PROVE  Hidden(h, fr, waiting, Sent(ps))
BY HiddenLess DEF Sealed

LEMMA FreeValue ==
    ASSUME PInv, NEW place, HasPlace(value, place), At(place) # Promise
    PROVE  Free(At(place), Sealed(process))
BY DEF PInv, SealedHidden, Hidden, HasPlace, At, In, Free

LEMMA OffValue ==
    ASSUME PInv, NEW place, HasPlace(value, place)
    PROVE  \A s \in Sealed(process) : Off(At(place), s)
BY DEF PInv, SealedHidden, Hidden, HasPlace, At, In

(* Nobody can have put a promise into what is sealed.                      *)
LEMMA SealedFree ==
    ASSUME PInv, NEW place, HasPlace(value, place), place[1] \in Sealed(process)
    PROVE  Free(At(place), Sealed(process))
<1>1. CASE At(place) = Promise
  <2>1. PICK v, r : v = place[1] /\ r = place[2] + 1 /\ r - 1 = place[2]
    BY DEF HasPlace
  <2>2. v \in DOMAIN value /\ r \in DOMAIN value[v].regs /\ value[v].regs[r] = Promise
    BY <1>1, <2>1 DEF HasPlace, At, In
  <2>3. Forked(frame, v, r)
    BY <2>2 DEF PInv, PromisesMade, Made
  <2>4. PICK g \in DOMAIN frame : frame[g].type = "path" /\ frame[g].promised[1] = v
    BY <2>3 DEF Forked
  <2>5. QED
    BY <2>1, <2>4 DEF PInv, SealedHidden, Hidden, Clear
<1>2. CASE At(place) # Promise
  BY <1>2, FreeValue
<1>3. QED
  BY <1>1, <1>2

(* What is found leads to no object of S.                                  *)
Away(found, S) == found.stop = "none" => found.place[1] \notin S
Apart(h, S) == \A v \in DOMAIN h : \A r \in DOMAIN h[v].regs : \A s \in S : Off(h[v].regs[r], s)

LEMMA PresentAway ==
    ASSUME NEW h, NEW p, NEW S, p[1] \notin S
    PROVE  Away(Present(h, p), S)
BY DEF Away, Present, Found, Stopped

LEMMA PursueAway ==
    ASSUME NEW h, NEW S, Apart(h, S), NEW found, GoodLink(h, found), Away(found, S)
    PROVE  Away(Pursue(h, found), S)
<1>1. CASE found.stop = "none" /\ In(h, found.place)[1] = "Ref"
  <2>1. PICK x : x = In(h, found.place)
    OBVIOUS
  <2>2. \A s \in S : Off(x, s)
    BY <2>1 DEF Apart, GoodLink, HasPlace, In
  <2>3. x[2][1] \notin S
    BY <1>1, <2>1, <2>2 DEF Off
  <2>4. Pursue(h, found) = Present(h, x[2])
    BY <1>1, <2>1 DEF Pursue
  <2>5. QED
    BY <2>3, <2>4, PresentAway
<1>2. CASE ~(found.stop = "none" /\ In(h, found.place)[1] = "Ref")
  BY <1>2 DEF Pursue
<1>3. QED
  BY <1>1, <1>2

LEMMA FollowAway ==
    ASSUME NEW h, GoodHeap(h), NEW S, Apart(h, S), NEW p, HasPlace(h, p), p[1] \notin S
    PROVE  Away(follow_ref(h, p), S)
<1>1. PICK c : c = Chain(h, p)
  OBVIOUS
<1>2. follow_ref(h, p) = c[MaxRefs]
  BY <1>1, Zenon DEF follow_ref, Chain
<1>3. MaxRefs \in Nat
  BY BoundsAssumption
<1>4. PICK d : d = c
  OBVIOUS
<1>5. c = [n \in 0 .. MaxRefs |-> IF n = 0 THEN Present(h, p) ELSE Pursue(h, d[n - 1])]
  BY <1>1, <1>4, ChainDef
<1>6. c[0] = Present(h, p)
  BY <1>3, <1>5
<1>7. ASSUME NEW n \in 0 .. MaxRefs, n # MaxRefs PROVE c[n + 1] = Pursue(h, c[n])
  <2>1. n + 1 \in 0 .. MaxRefs /\ n + 1 # 0 /\ n + 1 - 1 = n
    BY <1>3, <1>7
  <2>2. QED
    BY <1>4, <1>5, <2>1
<1> DEFINE T == {n \in Nat : GoodLink(h, c[n]) /\ Away(c[n], S)}
<1>8. 0 \in T
  BY <1>6, PresentLink, PresentAway
<1>9. ASSUME NEW n \in 0 .. MaxRefs, n # MaxRefs, n \in T PROVE n + 1 \in T
  BY <1>3, <1>7, <1>9, PursueLink, PursueAway
<1>10. MaxRefs \in T
  <2> HIDE DEF T
  <2>1. QED
    BY <1>3, <1>8, <1>9, UpTo
<1>11. QED
  BY <1>2, <1>10

LEMMA SealedApart == ASSUME PInv PROVE Apart(value, Sealed(process)) /\ 1 \notin Sealed(process)
BY DEF PInv, SealedHidden, Hidden, Apart

LEMMA CallAway ==
    ASSUME Inv, PInv, NEW f \in DOMAIN frame, NEW c, c = frame[function_call(f)]
    PROVE  /\ c.value \notin Sealed(process) /\ (c.result # NoPlace => c.result[1] \notin Sealed(process))
BY CallOfFrame DEF PInv, SealedHidden, Hidden, Clear

(* A failure that stops an instruction is one.                             *)
Apt(found) == Away(found, Sealed(process)) /\ (found.stop = "failure" => At(found.place)[1] = "Failure")

LEMMA FollowedAway ==
    ASSUME Inv, PInv, NEW found, GoodFound(value, found), Apt(found)
    PROVE  Apt(Followed(found))
<1>1. CASE found.stop = "none"
  <2>1. HasPlace(value, found.place) /\ found.place[1] \notin Sealed(process)
    BY <1>1 DEF GoodFound, Apt, Away
  <2>2. Away(follow_ref(value, found.place), Sealed(process))
    BY <2>1, SealedApart, FollowAway DEF Inv
  <2>3. follow_ref(value, found.place).stop # "failure"
    BY <2>1, FollowRef DEF GoodLink, Inv
  <2>4. QED
    BY <1>1, <2>2, <2>3 DEF Followed, Apt
<1>2. CASE found.stop # "none"
  BY <1>2 DEF Followed
<1>3. QED
  BY <1>1, <1>2

LEMMA PartAway ==
    ASSUME PInv, NEW place, HasPlace(value, place), NEW j, NEW missing \in {"null", "undefined", "register404"}
    PROVE  Apt(Part(At(place), j, missing))
<1>1. PICK x : x = At(place)
  OBVIOUS
<1>2. \A s \in Sealed(process) : Off(x, s)
  BY <1>1, OffValue
<1>3. CASE IsIndex(x)
  <2>1. x[2] \notin Sealed(process)
    BY <1>2, <1>3 DEF Off
  <2>2. QED
    BY <1>1, <2>1 DEF Part, Stopped, Found, There, Apt, Away
<1>4. CASE ~IsIndex(x)
  BY <1>1, <1>4 DEF Part, Stopped, Apt, Away
<1>5. QED
  BY <1>3, <1>4

LEMMA ResultAway ==
    ASSUME Inv, PInv, NEW f \in DOMAIN frame
    PROVE  Apt(Result(f))
BY ResultFound, CallAway DEF Result, Present, Found, Stopped, Apt, Away

LEMMA DrainAway == ASSUME PInv, NEW f PROVE Apt(Drain(f))
BY SealedApart DEF Drain, Found, Apt, Away

LEMMA PrimaryAway ==
    ASSUME Inv, PInv, NEW f \in DOMAIN frame, NEW r, r[1] \in {"reg", "sub"}
    PROVE  Apt(Found(Primary(f, r)))
<1>1. PICK c : c = frame[function_call(f)]
  OBVIOUS
<1>2. c.value \notin Sealed(process)
  BY <1>1, CallAway
<1>3. QED
  BY <1>1, <1>2 DEF Primary, Register, There, Found, Apt, Away

LEMMA ReadableAway ==
    ASSUME NEW found, Apt(found), NEW mode \in {"read", "failed", "write"}
    PROVE  Apt(Readable(mode, found)) /\ Apt(readable_value(found))
<1>1. Apt(readable_failed_value(found))
  BY DEF Apt, Away, readable_failed_value, StopsAt, Stopped
<1>2. Apt(readable_value(found))
  BY <1>1 DEF Apt, Away, readable_value, StopsAt, Stopped
<1>3. QED
  BY <1>1, <1>2 DEF Readable

LEMMA LookupAway ==
    ASSUME Inv, PInv, NEW f \in DOMAIN frame, NEW r, Named(frame[function_call(f)].func, r),
           NEW mode \in Modes, r = void => mode \notin {"read", "src"}
    PROVE  Apt(Lookup(f, r, mode, Primary(f, r)))
<1>1. PICK prim : prim = Primary(f, r)
  OBVIOUS
<1>2. /\ r[1] \in {"reg", "sub", "result", "void"}
      /\ r[1] = "result" => r = result
      /\ r[1] = "void" => r = void
      /\ r[1] = "sub" => r[3] \in Nat
      /\ r = void => r[1] \notin {"reg", "sub"}
      /\ r = result => r[1] \notin {"reg", "sub"}
      /\ r[1] \in {"reg", "sub"} => HasPlace(value, prim) /\ Apt(Found(prim))
  BY <1>1, PrimaryFound, PrimaryAway
<1>3. CASE mode = "ref"
  <2>1. Apt(refvalue(r, prim))
    BY <1>2, PartAway DEF refvalue, Stopped, Apt, Away
  <2>2. QED
    BY <1>1, <1>3, <2>1 DEF Lookup
<1>4. CASE mode # "ref" /\ r = void
  <2>1. Apt(constant(f, mode))
    <3>1. CASE mode = "failed"
      BY <3>1 DEF constant, Stopped, Apt, Away
    <3>2. CASE mode # "failed"
      BY <1>4, <3>2, DrainAway DEF constant
    <3>3. QED
      BY <3>1, <3>2
  <2>2. QED
    BY <1>1, <1>4, <2>1 DEF Lookup
<1>5. CASE mode # "ref" /\ r # void /\ mode = "appended" /\ returns_failure(r, prim)
  BY <1>1, <1>5 DEF Lookup, returns_failure, Stopped, Apt, Away
<1>6. CASE mode \in {"src", "dst", "appended"} /\ r # void /\ ~(mode = "appended" /\ returns_failure(r, prim))
  <2>1. Lookup(f, r, mode, prim) = dstvalue(f, r, prim)
    BY <1>6 DEF Lookup
  <2>2. CASE r = result
    BY <1>1, <2>1, <2>2, ResultAway DEF dstvalue
  <2>3. CASE r # result
    <3>1. r[1] \in {"reg", "sub"}
      BY <1>2, <1>6, <2>3
    <3>2. Apt(Direct(r, prim))
      <4>1. CASE r[1] = "reg"
        BY <1>2, <4>1 DEF Direct
      <4>2. CASE r[1] # "reg" /\ At(prim)[1] = "Failure"
        BY <4>2 DEF Direct, Stopped, Apt, Away
      <4>3. CASE r[1] # "reg" /\ At(prim)[1] # "Failure"
        BY <1>2, <3>1, <4>3, PartAway DEF Direct
      <4>4. QED
        BY <4>1, <4>2, <4>3
    <3>3. GoodFound(value, Direct(r, prim))
      BY <1>1, <3>1, DirectFound
    <3>4. QED
      BY <1>1, <2>1, <2>3, <3>2, <3>3, FollowedAway DEF dstvalue
  <2>4. QED
    BY <2>2, <2>3
<1>7. CASE mode \in {"read", "failed", "write"} /\ r # void
  <2>1. PICK looked : looked = read_reg(f, r, prim)
    OBVIOUS
  <2>2. Lookup(f, r, mode, prim) = Readable(mode, Followed(looked))
    BY <1>7, <2>1 DEF Lookup
  <2>3. GoodFound(value, looked)
    BY <1>1, <2>1, ReadRegFound
  <2>4. Apt(looked)
    <3>1. CASE r[1] = "reg"
      BY <1>2, <2>1, <3>1 DEF read_reg
    <3>2. CASE r[1] = "sub"
      <4>1. PICK owner : owner = readable_value(Followed(Found(prim)))
        OBVIOUS
      <4>2. GoodFound(value, Found(prim)) /\ Apt(Found(prim))
        BY <1>2, <3>2 DEF Found, GoodFound
      <4>3. GoodFound(value, owner)
        BY <4>1, <4>2, FollowedFound, ReadableFound
      <4>4. looked = Within(owner, r[3])
        BY <2>1, <3>2, <4>1 DEF read_reg, secondary_reg
      <4>5. CASE owner.stop = "none"
        <5>1. HasPlace(value, owner.place) /\ looked = Part(At(owner.place), r[3], "null")
          BY <4>3, <4>4, <4>5 DEF GoodFound, Within
        <5>2. QED
          BY <5>1, PartAway
      <4>6. CASE owner.stop # "none"
        BY <4>4, <4>6 DEF Within, Stopped, Apt, Away
      <4>7. QED
        BY <4>5, <4>6
    <3>3. CASE r[1] \notin {"reg", "sub"}
      BY <2>1, <3>3, ResultAway DEF read_reg
    <3>4. QED
      BY <3>1, <3>2, <3>3
  <2>5. Apt(Followed(looked))
    BY <2>3, <2>4, FollowedAway
  <2>6. QED
    BY <1>1, <1>7, <2>2, <2>5, ReadableAway
<1>8. QED
  BY <1>1, <1>3, <1>4, <1>5, <1>6, <1>7 DEF Modes

LEMMA LookAway ==
    ASSUME Inv, PInv, NEW f \in DOMAIN frame, NEW i, i = Instruction(f), NEW name \in Range(Operands(i.op)),
           Mode(i.op, name) \notin {"read", "src"}
    PROVE  Apt(Look(f, i, name))
BY CodeNames, LookupAway, ModeOf DEF Look

(* What an instruction has read is no promise when it is there.            *)
LEMMA ReadFree ==
    ASSUME Inv, PInv, NEW f \in DOMAIN frame, NEW r, Named(frame[function_call(f)].func, r),
           NEW found, found = Lookup(f, r, "read", Primary(f, r)), found.stop \in {"none", "failure"}
    PROVE  Free(At(found.place), Sealed(process))
<1>1. HasPlace(value, found.place)
  BY LookupFound DEF GoodFound, Modes
<1>2. CASE r = void
  <2>1. found = Constant
    BY <1>2 DEF Lookup, constant
  <2>2. found.place[1] \in Sealed(process)
    BY <2>1 DEF Constant, Found, Sealed
  <2>3. QED
    BY <1>1, <2>2, SealedFree
<1>3. CASE r # void
  <2>1. PICK looked : looked = Followed(read_reg(f, r, Primary(f, r)))
    OBVIOUS
  <2>2. found = readable_value(looked)
    BY <1>3, <2>1 DEF Lookup, Readable
  <2>3. Apt(found)
    BY <1>3, LookupAway DEF Modes
  <2>4. At(found.place)[1] # "Promise"
    <3>1. CASE found.stop = "failure"
      BY <2>3, <3>1 DEF Apt
    <3>2. CASE found.stop = "none"
      <4>1. found = looked /\ looked.stop = "none" /\ At(looked.place)[1] # "Promise"
        BY <2>2, <3>2 DEF readable_value, readable_failed_value, StopsAt, Stopped
      <4>2. QED
        BY <4>1
    <3>3. QED
      BY <3>1, <3>2
  <2>5. At(found.place) # Promise
    BY <2>4 DEF Promise
  <2>6. QED
    BY <1>1, <2>5, FreeValue
<1>4. QED
  BY <1>2, <1>3

LEMMA FreeRead ==
    ASSUME Inv, PInv, NEW f \in DOMAIN frame, NEW i, Step(f, i), i.op # "recv", NEW name \in Range(Operands(i.op)),
           Mode(i.op, name) = "read"
    PROVE  Free(Value(f, i, name), Sealed(process))
<1>1. Look(f, i, name).stop = "none"
  BY FoundOperand DEF Step
<1>2. Named(frame[function_call(f)].func, i[name])
  BY CodeNames DEF Step
<1>3. QED
  BY <1>1, <1>2, ReadFree DEF Look, Target, Value

(* Where an instruction writes no message is, nor the constant.            *)
LEMMA DstAway ==
    ASSUME Inv, PInv, NEW f \in DOMAIN frame, NEW i, Step(f, i), i.op \notin Quiet,
           i.op = "recv" => proc(f).recv # <<>>
    PROVE  Target(f, i, "dst")[1] \notin Sealed(process)
<1>1. "dst" \in Range(Operands(i.op))
  BY OperandNames
<1>2. Mode(i.op, "dst") \notin {"read", "src"}
  BY DEF Mode, Quiet, Checked, Arithmetic
<1>3. Look(f, i, "dst").stop = "none"
  BY <1>1, FoundOperand DEF Step
<1>4. QED
  BY <1>1, <1>2, <1>3, LookAway DEF Step, Apt, Away, Target

LEMMA SrcAway ==
    ASSUME Inv, PInv, NEW f \in DOMAIN frame, NEW i, Step(f, i), i.op = "ref"
    PROVE  Target(f, i, "src")[1] \notin Sealed(process)
<1>1. "src" \in Range(Operands(i.op))
  BY OperandNames DEF Sources
<1>2. Mode(i.op, "src") \notin {"read", "src"}
  BY DEF Mode
<1>3. Look(f, i, "src").stop = "none"
  BY <1>1, FoundOperand DEF Step
<1>4. QED
  BY <1>1, <1>2, <1>3, LookAway DEF Step, Apt, Away, Target

-----------------------------------------------------------------------------
(***************************************************************************)
(* Instructions.                                                           *)
(***************************************************************************)
LEMMA InstructionOnward ==
    ASSUME Inv, PInv, Keeps(value, value', Sealed(process)), Stay(frame, frame'), UNCHANGED <<process, io>>
    PROVE  PInv'
<1>1. PICK S : S = Sealed(process)
  OBVIOUS
<1>2. Hidden(value, frame, io, S) /\ Made(value, frame)
  BY <1>1 DEF PInv, SealedHidden, PromisesMade
<1>3. Stays(frame, frame', S)
  BY <1>2, StayClear DEF Hidden
<1>4. \A f \in DOMAIN io' : io'[f].place # NoPlace => io'[f].place[1] \notin S
  BY <1>2 DEF Hidden
<1>5. Hidden(value', frame', io', S) /\ Made(value', frame')
  BY <1>1, <1>2, <1>3, <1>4, Onward
<1>6. Sealed(process') = S
  BY <1>1
<1>7. QED
  BY <1>5, <1>6 DEF PInv, SealedHidden, PromisesMade

LEMMA KeepsPut ==
    ASSUME Inv, NEW S, NEW place, NEW x, Free(x, S), NEW k, k = Put(place, x)
    PROVE  Keeps(value, k, S)
<1>1. PICK a, b : a = place[1] /\ b = place[2] + 1
  OBVIOUS
<1>2. k = Set(value, a, b, x)
  BY <1>1 DEF Put, Set
<1>3. QED
  BY <1>2, InvFacts, KeepsSet

LEMMA KeepsPutAppend ==
    ASSUME Inv, NEW S, NEW place, NEW x, Free(x, S), NEW o, Blank(o), NEW k, k = Append(Put(place, x), o)
    PROVE  Keeps(value, k, S)
<1>1. PICK e : e = Put(place, x)
  OBVIOUS
<1>2. Keeps(value, e, S)
  BY <1>1, KeepsPut
<1>3. IsSequence(e)
  BY <1>1, InvFacts, ExceptSequence DEF Put
<1>4. k = Append(e, o)
  BY <1>1
<1>5. Keeps(e, k, S)
  BY <1>3, <1>4, KeepsAppend
<1>6. QED
  BY <1>2, <1>5, KeepsTransitive

LEMMA BecomesOnward ==
    ASSUME Inv, PInv, NEW f, NEW heap, Keeps(value, heap, Sealed(process)), Becomes(f, heap)
    PROVE  PInv'
BY StayGoto, InstructionOnward DEF Becomes, Executed

LEMMA WriteOnward ==
    ASSUME Inv, PInv, NEW f, NEW place, NEW x, Free(x, Sealed(process)), Write(f, place, x)
    PROVE  PInv'
<1>1. PICK heap : heap = Put(place, x)
  OBVIOUS
<1>2. Keeps(value, heap, Sealed(process))
  BY <1>1, KeepsPut
<1>3. QED
  BY <1>1, <1>2, BecomesOnward DEF Write

LEMMA WriteNewOnward ==
    ASSUME Inv, PInv, NEW f, NEW i, NEW place, NEW x, Free(x, Sealed(process)), NEW o, Blank(o),
           WriteNew(f, i, place, x, o)
    PROVE  PInv'
<1>1. value' = Append(Put(place, x), o) /\ frame' = Next_pc(f) /\ UNCHANGED <<process, io>>
  BY DEF WriteNew, Executed
<1>2. Keeps(value, value', Sealed(process))
  BY <1>1, KeepsPutAppend
<1>3. Stay(frame, frame')
  BY <1>1, StayGoto
<1>4. QED
  BY <1>1, <1>2, <1>3, InstructionOnward

LEMMA FailOnward ==
    ASSUME Inv, PInv, NEW f, NEW x, Free(x, Sealed(process)), Fail(f, x), Stay(frame, frame'), UNCHANGED io
    PROVE  PInv'
<1>1. UNCHANGED process /\ (value' = value \/ value' = Put(Result(f).place, x))
  BY DEF Fail
<1>2. PICK place : place = Result(f).place
  OBVIOUS
<1>3. Keeps(value, value', Sealed(process))
  BY <1>1, <1>2, KeepsPut, KeepsReflexive
<1>4. QED
  BY <1>1, <1>3, InstructionOnward

LEMMA SilentOnward ==
    ASSUME Inv, PInv, Stay(frame, frame'), UNCHANGED <<value, process, io>>
    PROVE  PInv'
BY KeepsReflexive, InstructionOnward

LEMMA BreaksOnward ==
    ASSUME Inv, PInv, NEW f, NEW how, Breaks(f, how)
    PROVE  PInv'
BY StayReflexive, SilentOnward DEF Breaks

LEMMA BranchesOnward ==
    ASSUME Inv, PInv, NEW f, NEW i, NEW stays, Branches(f, i, stays)
    PROVE  PInv'
<1>1. UNCHANGED <<value, process, io>>
  BY DEF Branches, Executed
<1>2. frame' = Next_pc(f) \/ \E pc : frame' = Goto(f, pc)
  BY DEF Branches
<1>3. Stay(frame, frame')
  BY <1>2, StayGoto
<1>4. QED
  BY <1>1, <1>3, SilentOnward

LEMMA PromiseConst ==
    ASSUME Inv, PInv, NEW f \in DOMAIN frame, NEW i,
           \/ execute_consti(f, i) \/ execute_consthash(f, i) \/ execute_cfailure(f, i)
           \/ execute_patternvar(f, i)
    PROVE  PInv'
<1>1. PICK place, n, s, tag : place = Target(f, i, "dst") /\ n = i.n /\ s = i.s /\ tag = i.tag
  OBVIOUS
<1>2. Write(f, place, Num(n)) \/ Write(f, place, Hashtag(s)) \/ Write(f, place, Failure(tag)) \/ Write(f, place, PatternVar)
  BY <1>1 DEF execute_consti, execute_consthash, execute_cfailure, execute_patternvar
<1>3. QED
  BY <1>2, FreePlain, WriteOnward

LEMMA PromiseNew ==
    ASSUME Inv, PInv, NEW f \in DOMAIN frame, NEW i, i = Instruction(f),
           execute_consts(f, i) \/ execute_ctuple(f, i) \/ execute_lconstruct(f, i) \/ execute_loadfunc(f, i)
    PROVE  PInv'
<1>1. PICK n, S, place : n = Len(value) + 1 /\ S = Sealed(process) /\ place = Target(f, i, "dst")
  OBVIOUS
<1>2. n \notin S
  BY <1>1, SentObjects
<1>3. PICK func : func = frame[function_call(f)].func
  OBVIOUS
<1>4. func \in DOMAIN Function /\ frame[f].pc \in DOMAIN Function[func].code /\ i = Function[func].code[frame[f].pc]
  BY <1>3, CodeAt
<1>5. CASE execute_consts(f, i)
  <2>1. PICK o : o = NewString(<<i.s>>)
    OBVIOUS
  <2>2. WriteNew(f, i, place, String(n), o)
    BY <1>1, <1>5, <2>1 DEF execute_consts
  <2>3. QED
    BY <1>1, <1>2, <2>1, <2>2, BlankString, FreePointer, WriteNewOnward
<1>6. CASE execute_ctuple(f, i)
  <2>1. PICK o : o = NewIndex(i.size)
    OBVIOUS
  <2>2. i.size \in Nat
    BY <1>4, <1>6, CodeAssumption DEF execute_ctuple
  <2>3. WriteNew(f, i, place, Tuple(n), o)
    BY <1>1, <1>6, <2>1 DEF execute_ctuple
  <2>4. QED
    BY <1>1, <1>2, <2>1, <2>2, <2>3, BlankIndex, FreePointer, WriteNewOnward
<1>7. CASE execute_lconstruct(f, i)
  <2>1. PICK c, o : c = i.cons /\ o = NewConstruct(c)
    OBVIOUS
  <2>2. c \in DOMAIN Construct
    BY <1>4, <1>7, <2>1, CodeAssumption DEF execute_lconstruct
  <2>3. WriteNew(f, i, place, construct(n, c), o)
    BY <1>1, <1>7, <2>1 DEF execute_lconstruct
  <2>4. QED
    BY <1>1, <1>2, <2>1, <2>2, <2>3, BlankConstruct, FreeConstruct, WriteNewOnward
<1>8. CASE execute_loadfunc(f, i)
  <2>1. PICK g, o : g = i.func /\ o = NewValue(g)
    OBVIOUS
  <2>2. Loadable(g)
    BY <1>4, <1>8, <2>1, CodeAssumption DEF execute_loadfunc
  <2>3. WriteNew(f, i, place, function_value(n), o)
    BY <1>1, <1>8, <2>1 DEF execute_loadfunc
  <2>4. QED
    BY <1>1, <1>2, <2>1, <2>2, <2>3, BlankValue, FreePointer, WriteNewOnward
<1>9. QED
  BY <1>5, <1>6, <1>7, <1>8

LEMMA PromiseCopy ==
    ASSUME Inv, PInv, NEW f \in DOMAIN frame, NEW i, Step(f, i), execute_copy(f, i) \/ execute_move(f, i)
    PROVE  PInv'
<1>1. i.op \in {"copy", "move"}
  BY DEF execute_copy, execute_move
<1>2. "src" \in Range(Operands(i.op)) /\ Mode(i.op, "src") = "read"
  BY <1>1, OperandNames DEF Mode, Sources, Checked, Arithmetic
<1>3. Free(Value(f, i, "src"), Sealed(process))
  BY <1>1, <1>2, FreeRead
<1>4. QED
  BY <1>3, WriteOnward DEF execute_copy, execute_move

LEMMA PromiseRef ==
    ASSUME Inv, PInv, NEW f \in DOMAIN frame, NEW i, Step(f, i), execute_ref(f, i)
    PROVE  PInv'
<1>1. i.op = "ref"
  BY DEF execute_ref
<1>2. PICK p, q : p = Target(f, i, "dst") /\ q = Target(f, i, "src")
  OBVIOUS
<1>3. HasPlace(value, p) /\ q[1] \notin Sealed(process)
  BY <1>1, <1>2, FoundDst, SrcAway DEF Quiet
<1>4. Write(f, p, IF p = q THEN At(p) ELSE Ref(q))
  BY <1>2 DEF execute_ref, Value
<1>5. CASE p # q
  <2>1. Free(Ref(q), Sealed(process))
    BY <1>3 DEF Free, Off, IsIndex, Ref, Promise
  <2>2. QED
    BY <1>4, <1>5, <2>1, WriteOnward
<1>6. CASE p = q
  <2>1. PICK x : x = At(p)
    OBVIOUS
  <2>2. PICK a, b : a = p[1] /\ b = p[2] + 1
    OBVIOUS
  <2>3. PICK heap : heap = [value EXCEPT ![a].regs[b] = x]
    OBVIOUS
  <2>4. Becomes(f, heap)
    BY <1>4, <1>6, <2>1, <2>2, <2>3 DEF Write, Put
  <2>5. x = value[a].regs[b] /\ a \in DOMAIN value /\ b \in DOMAIN value[a].regs
    BY <1>3, <2>1, <2>2 DEF At, In, HasPlace
  <2>6. Keeps(value, heap, Sealed(process))
    <3>1. DOMAIN value[a] = {"func", "family", "argc", "regs", "moves", "text"}
      BY <2>5, InvFacts DEF Shaped, GoodShape
    <3>2. \A v \in DOMAIN heap : v \in DOMAIN value /\ (v # a => heap[v] = value[v])
      BY <2>3
    <3>3. heap[a].regs = [value[a].regs EXCEPT ![b] = x]
      BY <2>3, <2>5, <3>1
    <3>4. \A r \in DOMAIN heap[a].regs : r \in DOMAIN value[a].regs /\ heap[a].regs[r] = value[a].regs[r]
      BY <2>5, <3>3
    <3>5. QED
      BY <3>2, <3>4 DEF Keeps
  <2>7. QED
    BY <2>4, <2>6, BecomesOnward
<1>7. QED
  BY <1>5, <1>6

LEMMA PromiseBinary ==
    ASSUME Inv, PInv, NEW f \in DOMAIN frame, NEW i,
           execute_binaryop(f, i) \/ execute_divide(f, i) \/ execute_cmp(f, i)
    PROVE  PInv'
<1>1. PICK a, b : a = Value(f, i, "a") /\ b = Value(f, i, "b")
  OBVIOUS
<1>2. PICK place : place = Target(f, i, "dst")
  OBVIOUS
<1>3. CASE execute_binaryop(f, i)
  <2>1. PICK op \in {"iadd", "isub", "imult"} :
           Write(f, place,
                 IF a[1] # "Int" \/ b[1] # "Int" THEN Failure("type")
                 ELSE Num(CASE op = "iadd" -> a[2] + b[2] [] op = "isub" -> a[2] - b[2] [] op = "imult" -> a[2] * b[2]))
    BY <1>1, <1>2, <1>3 DEF execute_binaryop
  <2>2. PICK n : n = CASE op = "iadd" -> a[2] + b[2] [] op = "isub" -> a[2] - b[2] [] op = "imult" -> a[2] * b[2]
    OBVIOUS
  <2>3. Write(f, place, Failure("type")) \/ Write(f, place, Num(n))
    BY <2>1, <2>2
  <2>4. QED
    BY <2>3, FreePlain, WriteOnward
<1>4. CASE execute_divide(f, i)
  <2>1. PICK n : n = Quotient(a[2], b[2])
    OBVIOUS
  <2>2. Write(f, place, Failure("divideby0")) \/ Write(f, place, Num(n)) \/ Breaks(f, "undefined")
    BY <1>1, <1>2, <1>4, <2>1 DEF execute_divide
  <2>3. QED
    BY <2>2, FreePlain, WriteOnward, BreaksOnward
<1>5. CASE execute_cmp(f, i)
  <2>1. PICK op \in Comparison : Write(f, place, Bool(Compares(op, qbrt_compare(a, b))))
    BY <1>1, <1>2, <1>5 DEF execute_cmp
  <2>2. PICK c : c = Compares(op, qbrt_compare(a, b))
    OBVIOUS
  <2>3. Write(f, place, Bool(c))
    BY <2>1, <2>2
  <2>4. QED
    BY <2>3, FreePlain, WriteOnward
<1>6. QED
  BY <1>3, <1>4, <1>5

LEMMA PromiseBranch ==
    ASSUME Inv, PInv, NEW f \in DOMAIN frame, NEW i,
           \/ execute_iffail(f, i) \/ execute_if(f, i) \/ execute_goto(f, i) \/ execute_return(f, i)
           \/ execute_loadobj(f, i)
    PROVE  PInv'
<1>1. CASE execute_iffail(f, i) \/ execute_goto(f, i)
  BY <1>1, BranchesOnward DEF execute_iffail, execute_goto
<1>2. CASE execute_if(f, i)
  BY <1>2, BranchesOnward, BreaksOnward DEF execute_if
<1>3. CASE execute_return(f, i)
  BY <1>3, StayState, SilentOnward DEF execute_return, Executed
<1>4. CASE execute_loadobj(f, i)
  BY <1>4, StayGoto, SilentOnward DEF execute_loadobj, Executed
<1>5. QED
  BY <1>1, <1>2, <1>3, <1>4

LEMMA PromiseStopped ==
    ASSUME Inv, PInv, NEW f \in DOMAIN frame, NEW i, i = Instruction(f),
           \/ read_promise(f, i) \/ read_failure(f, i) \/ register404(f, i)
           \/ patternvar_null(f, i) \/ follow_null(f, i)
    PROVE  PInv'
<1>1. ASSUME NEW name \in Stops(f, i), Look(f, i, name).stop = "failure"
      PROVE  Free(Value(f, i, name), Sealed(process))
  <2>1. name \in Range(Operands(i.op)) /\ GoodFound(value, Look(f, i, name))
    BY StopsOperand
  <2>2. Named(frame[function_call(f)].func, i[name])
    BY <2>1, CodeNames
  <2>3. CASE Mode(i.op, name) = "read"
    BY <1>1, <2>2, <2>3, ReadFree DEF Look, Target, Value
  <2>4. CASE Mode(i.op, name) # "read" /\ ~(Mode(i.op, name) = "src" /\ i[name] = void)
    <3>1. Apt(Look(f, i, name))
      BY <2>2, <2>4, LookupAway, ModeOf DEF Look
    <3>2. At(Look(f, i, name).place) # Promise
      BY <1>1, <3>1 DEF Apt, Promise
    <3>3. QED
      BY <1>1, <2>1, <3>2, FreeValue DEF Target, Value, GoodFound
  <2>5. CASE Mode(i.op, name) = "src" /\ i[name] = void
    BY <1>1, <2>5 DEF Look, Lookup, constant, Constant, Found
  <2>6. QED
    BY <2>3, <2>4, <2>5
<1>2. CASE read_promise(f, i)
  BY <1>2, StayState, SilentOnward DEF read_promise, Executed
<1>3. CASE read_failure(f, i)
  <2>1. PICK name \in Stops(f, i) : Look(f, i, name).stop = "failure" /\ Fail(f, Value(f, i, name))
    BY <1>3 DEF read_failure
  <2>2. Stay(frame, frame') /\ UNCHANGED io
    BY <1>3, StayState DEF read_failure
  <2>3. QED
    BY <1>1, <2>1, <2>2, FailOnward
<1>4. CASE register404(f, i)
  <2>1. \E x : Free(x, Sealed(process)) /\ Fail(f, x)
    BY <1>1, <1>4, FreePlain DEF register404
  <2>2. Stay(frame, frame') /\ UNCHANGED io
    BY <1>4, StayState DEF register404
  <2>3. QED
    BY <2>1, <2>2, FailOnward
<1>5. CASE patternvar_null(f, i)
  BY <1>5, StayReflexive, SilentOnward DEF patternvar_null, Executed
<1>6. CASE follow_null(f, i)
  BY <1>6, BreaksOnward DEF follow_null
<1>7. QED
  BY <1>2, <1>3, <1>4, <1>5, <1>6

LEMMA PromiseInvalid ==
    ASSUME Inv, PInv, NEW f \in DOMAIN frame, NEW i, invalid_opcode(f, i) \/ execute_fieldget(f, i)
    PROVE  PInv'
<1>1. CASE invalid_opcode(f, i)
  <2>1. Fail(f, Failure("invalidopcode")) /\ Stay(frame, frame') /\ UNCHANGED io
    BY <1>1, StayState DEF invalid_opcode
  <2>2. QED
    BY <2>1, FreePlain, FailOnward
<1>2. CASE execute_fieldget(f, i)
  BY <1>2, BreaksOnward DEF execute_fieldget
<1>3. QED
  BY <1>1, <1>2

LEMMA PromiseContext ==
    ASSUME Inv, PInv, NEW f \in DOMAIN frame, NEW i, execute_lcontext(f, i)
    PROVE  PInv'
<1>1. PICK name, place : name = i.name /\ place = Target(f, i, "dst")
  OBVIOUS
<1>2. PICK v : v = get_context(f, name)
  OBVIOUS
<1>3. PICK S : S = Sealed(process)
  OBVIOUS
<1>4. Hidden(value, frame, io, S) /\ Made(value, frame)
  BY <1>3 DEF PInv, SealedHidden, PromisesMade
<1>5. CASE v # 0
  <2>1. PICK g \in DOMAIN frame : name \in DOMAIN frame[g].context /\ v = frame[g].context[name]
    BY <1>2, <1>5, ContextFound DEF Inv
  <2>2. v \notin S
    BY <1>4, <2>1 DEF Hidden, Clear
  <2>3. Free(Ref(There(value, v, 0)), S)
    BY <2>2, FreePointer DEF There
  <2>4. Write(f, place, Ref(There(value, v, 0)))
    BY <1>1, <1>2, <1>5 DEF execute_lcontext
  <2>5. QED
    BY <1>3, <2>3, <2>4, WriteOnward
<1>6. CASE v = 0
  <2>1. PICK n, o, mid : n = Len(value) + 1 /\ o = NewVariable(Void) /\ mid = Next_pc(f)
    OBVIOUS
  <2>2. /\ value' = Append(Put(place, Ref(<<n, 0, 0>>)), o)
        /\ frame' = [mid EXCEPT ![f].context = With(@, name, n)]
        /\ UNCHANGED <<process, io>>
    BY <1>1, <1>2, <1>6, <2>1 DEF execute_lcontext, Executed
  <2>3. n \notin S
    BY <1>3, <2>1, SentObjects
  <2>4. Keeps(value, value', S)
    <3>1. Free(Ref(<<n, 0, 0>>), S)
      BY <2>3, FreePointer
    <3>2. Blank(o)
      BY <2>1, BlankVariable
    <3>3. QED
      BY <2>2, <3>1, <3>2, KeepsPutAppend
  <2>5. Stays(frame, mid, S)
    BY <1>4, <2>1, StayGoto, StayClear DEF Hidden
  <2>6. Stays(frame, frame', S)
    <3>1. PICK c : c = With(mid[f].context, name, n)
      OBVIOUS
    <3>2. \A x \in DOMAIN c : c[x] = n \/ (x \in DOMAIN mid[f].context /\ c[x] = mid[f].context[x])
      BY <3>1 DEF With
    <3>3. Stay(frame, mid)
      BY <2>1, StayGoto
    <3>4. f \in DOMAIN mid /\ DOMAIN mid[f] = Fields
      BY <3>3 DEF Stay, Same
    <3>5. DOMAIN frame' = DOMAIN mid /\ \A g \in DOMAIN mid : g # f => frame'[g] = mid[g]
      BY <2>2
    <3>6. frame'[f] = [mid[f] EXCEPT !.context = c]
      BY <2>2, <3>1, <3>4
    <3>7. /\ frame'[f].context = c /\ frame'[f].type = mid[f].type /\ frame'[f].value = mid[f].value
          /\ frame'[f].result = mid[f].result /\ frame'[f].promised = mid[f].promised
      BY <3>4, <3>6 DEF Fields
    <3>8. Clear(mid[f], S)
      BY <2>5, <3>4 DEF Stays
    <3>9. Clear(frame'[f], S)
      BY <2>3, <3>2, <3>7, <3>8 DEF Clear
    <3>10. QED
      BY <2>5, <3>5, <3>7, <3>9 DEF Stays
  <2>7. Hidden(value', frame', io', S) /\ Made(value', frame')
    <3>1. \A g \in DOMAIN io' : io'[g].place # NoPlace => io'[g].place[1] \notin S
      BY <1>4, <2>2 DEF Hidden
    <3>2. QED
      BY <1>4, <2>4, <2>6, <3>1, Onward
  <2>8. Sealed(process') = S
    BY <1>3, <2>2
  <2>9. QED
    BY <2>7, <2>8 DEF PInv, SealedHidden, PromisesMade
<1>7. QED
  BY <1>5, <1>6


(* What is copied is no promise, and points at nothing that is sealed.     *)
LEMMA KeepsString ==
    ASSUME NEW h, Shaped(h), NEW S, Len(h) + 1 \notin S, NEW a, NEW b, NEW text,
           NEW k, k = PutString(h, a, b, text)
    PROVE  Keeps(h, k, S)
<1>1. PICK o, y : o = NewString(text) /\ y = String(Len(h) + 1)
  OBVIOUS
<1>2. PICK e : e = Set(h, a, b, y)
  OBVIOUS
<1>3. k = Append(e, o)
  BY <1>1, <1>2 DEF PutString
<1>4. Free(y, S)
  BY <1>1, FreePointer
<1>5. Keeps(h, e, S)
  BY <1>2, <1>4, KeepsSet
<1>6. IsSequence(e)
  BY <1>2, ExceptSequence DEF Set, Shaped
<1>7. Keeps(e, k, S)
  BY <1>1, <1>3, <1>6, BlankString, KeepsAppend
<1>8. QED
  BY <1>5, <1>7, KeepsTransitive

LEMMA KeepsCopied ==
    ASSUME NEW h, Shaped(h), NEW S, Len(h) + 1 \notin S, NEW place, NEW x, \A s \in S : Off(x, s),
           NEW k, k = Copied(h, place, x)
    PROVE  Keeps(h, k, S)
<1>1. PICK a, b : a = place[1] /\ b = place[2] + 1
  OBVIOUS
<1>2. CASE x[1] = "String"
  <2>1. PICK text : text = h[x[2]].text
    OBVIOUS
  <2>2. k = PutString(h, a, b, text)
    BY <1>1, <1>2, <2>1, Zenon DEF Copied, PutString, Set
  <2>3. QED
    BY <2>2, KeepsString
<1>3. CASE x[1] # "String" /\ Copies(x)
  <2>1. k = Set(h, a, b, x)
    BY <1>1, <1>3 DEF Copied, Set
  <2>2. x # Promise
    BY <1>3 DEF Promise, Copies
  <2>3. Free(x, S)
    BY <2>2 DEF Free
  <2>4. QED
    BY <2>1, <2>3, KeepsSet
<1>4. CASE x[1] # "String" /\ ~Copies(x)
  <2>1. k = h
    BY <1>4 DEF Copied
  <2>2. QED
    BY <2>1, KeepsReflexive
<1>5. QED
  BY <1>2, <1>3, <1>4

LEMMA PromiseMatch ==
    ASSUME Inv, PInv, NEW f \in DOMAIN frame, NEW i, Step(f, i), execute_match(f, i)
    PROVE  PInv'
<1>1. i.op = "match"
  BY DEF execute_match
<1>2. PICK place, x : place = Target(f, i, "dst") /\ x = Value(f, i, "src")
  OBVIOUS
<1>3. \A s \in Sealed(process) : Off(x, s)
  BY <1>1, <1>2, FoundSrc, OffValue DEF Sources, Value
<1>4. CASE Becomes(f, Copied(value, place, x))
  <2>1. PICK heap : heap = Copied(value, place, x)
    OBVIOUS
  <2>2. Keeps(value, heap, Sealed(process))
    BY <1>3, <2>1, InvFacts, SentObjects, KeepsCopied
  <2>3. QED
    BY <1>4, <2>1, <2>2, BecomesOnward
<1>5. CASE Branches(f, i, FALSE)
  BY <1>5, BranchesOnward
<1>6. QED
  BY <1>2, <1>4, <1>5 DEF execute_match

LEMMA PromiseMatchargs ==
    ASSUME Inv, PInv, NEW f \in DOMAIN frame, NEW i, Step(f, i), execute_matchargs(f, i)
    PROVE  PInv'
<1>1. i.op = "matchargs"
  BY DEF execute_matchargs
<1>2. PICK to, pattern : to = Value(f, i, "dst") /\ pattern = value[Value(f, i, "pattern")[2]].regs
  OBVIOUS
<1>3. PICK given : given = [j \in Parameters(f) |-> At(Passed(f, j).place)]
  OBVIOUS
<1>4. \/ Branches(f, i, FALSE) \/ Breaks(f, "undefined")
      \/ IsIndex(to) /\ Becomes(f, CopiedArguments(to[2], pattern, given))
  BY <1>2, <1>3 DEF execute_matchargs
<1>5. CASE IsIndex(to) /\ Becomes(f, CopiedArguments(to[2], pattern, given))
  <2>1. PICK n \in Nat : n = Function[frame[function_call(f)].func].argc
    BY ParameterFound
  <2>2. given = [j \in 1 .. n |-> given[j]] /\ DOMAIN given = 1 .. n
    BY <1>3, <2>1 DEF Parameters
  <2>3. IsSequence(given)
    BY <2>2, SequenceLength
  <2>4. ASSUME NEW j \in DOMAIN given PROVE \A s \in Sealed(process) : Off(given[j], s)
    <3>1. j \in Parameters(f)
      BY <1>3
    <3>2. HasPlace(value, Passed(f, j).place)
      BY <3>1, ParameterFound DEF GoodLink
    <3>3. QED
      BY <1>3, <3>1, <3>2, OffValue
  <2>5. to[2] \in DOMAIN value
    BY <1>1, <1>2, <1>5, FoundDst DEF Quiet, GoodValue
  <2>6. PICK index, k : index = to[2] /\ k = CopiedArguments(index, pattern, given)
    OBVIOUS
  <2>7. \A v \in DOMAIN k : \A r \in DOMAIN k[v].regs :
           \/ v \in DOMAIN value /\ r \in DOMAIN value[v].regs /\ k[v].regs[r] = value[v].regs[r]
           \/ k[v].regs[r] = Void
           \/ r \in DOMAIN given /\ k[v].regs[r] = given[r] /\ Copies(given[r])
           \/ r \in DOMAIN given /\ k[v].regs[r] = String(Len(value) + r) /\ Len(value) + r \in DOMAIN k
    BY <2>3, <2>5, <2>6, ArgumentsCopied
  <2>8. ASSUME NEW r \in DOMAIN given, Copies(given[r]) PROVE Free(given[r], Sealed(process))
    <3>1. given[r] # Promise
      BY <2>8 DEF Promise, Copies
    <3>2. QED
      BY <2>4, <3>1 DEF Free
  <2>9. ASSUME NEW r \in DOMAIN given PROVE Free(String(Len(value) + r), Sealed(process))
    <3>1. r \in Nat \ {0}
      BY <2>2
    <3>2. Len(value) + r \notin DOMAIN value
      BY <3>1, InvFacts
    <3>3. QED
      BY <3>2, SentObjects, FreePointer
  <2>10. Free(Void, Sealed(process))
    BY FreePlain
  <2>11. Keeps(value, k, Sealed(process))
    BY <2>7, <2>8, <2>9, <2>10 DEF Keeps
  <2>12. QED
    BY <1>5, <2>6, <2>11, BecomesOnward
<1>6. QED
  BY <1>4, <1>5, BranchesOnward, BreaksOnward

LEMMA PromiseStracc ==
    ASSUME Inv, PInv, NEW f \in DOMAIN frame, NEW i, Step(f, i), execute_stracc(f, i)
    PROVE  PInv'
<1>1. i.op = "stracc"
  BY DEF execute_stracc
<1>2. PICK place, y : place = Target(f, i, "dst") /\ y = Value(f, i, "dst")
  OBVIOUS
<1>3. PICK text :
         \/ Fail(f, Failure("type")) /\ frame' = [Next_pc(f) EXCEPT ![f].cfstate = "FAILED"] /\ UNCHANGED io
         \/ y[1] = "String" /\ Becomes(f, [value EXCEPT ![y[2]].text = text])
         \/ Write(f, place, Failure("type"))
  <2>1. PICK x : x = Value(f, i, "src")
    OBVIOUS
  <2>2. PICK more : more = CASE x[1] = "String" -> value[x[2]].text
                             [] x[1] = "Int" -> <<ToString(x[2])>>
                             [] OTHER -> <<>>
    OBVIOUS
  <2>3. \/ Fail(f, Failure("type")) /\ frame' = [Next_pc(f) EXCEPT ![f].cfstate = "FAILED"] /\ UNCHANGED io
        \/ /\ y[1] = "String"
           /\ Becomes(f, IF x[1] \in {"String", "Int"} THEN [value EXCEPT ![y[2]].text = value[y[2]].text \o more]
                         ELSE Put(place, Failure("type")))
    BY <1>2, <2>1, <2>2 DEF execute_stracc
  <2>4. CASE x[1] \in {"String", "Int"}
    BY <2>3, <2>4
  <2>5. CASE x[1] \notin {"String", "Int"}
    BY <2>3, <2>5 DEF Write
  <2>6. QED
    BY <2>4, <2>5
<1>4. CASE Fail(f, Failure("type")) /\ frame' = [Next_pc(f) EXCEPT ![f].cfstate = "FAILED"] /\ UNCHANGED io
  BY <1>4, StayState, FreePlain, FailOnward
<1>5. CASE y[1] = "String" /\ Becomes(f, [value EXCEPT ![y[2]].text = text])
  <2>1. y[2] \in DOMAIN value
    BY <1>1, <1>2, <1>5, FoundDst DEF Quiet, GoodValue
  <2>2. PICK v, o : v = y[2] /\ o = [value[v] EXCEPT !.text = text]
    OBVIOUS
  <2>3. o.regs = value[v].regs
    BY <2>1, <2>2, InvFacts DEF Shaped, GoodShape
  <2>4. PICK heap : heap = [value EXCEPT ![v] = o]
    OBVIOUS
  <2>5. Keeps(value, heap, Sealed(process))
    BY <2>1, <2>2, <2>3, <2>4, KeepsObject
  <2>6. heap = [value EXCEPT ![y[2]].text = text]
    BY <2>2, <2>4
  <2>7. QED
    BY <1>5, <2>5, <2>6, BecomesOnward
<1>6. CASE Write(f, place, Failure("type"))
  BY <1>6, FreePlain, WriteOnward
<1>7. QED
  BY <1>3, <1>4, <1>5, <1>6

(* A fork makes the promise, and the path that is to keep it.              *)
LEMMA PromiseFork ==
    ASSUME Inv, PInv, NEW f \in DOMAIN frame, NEW i, Step(f, i), execute_fork(f, i)
    PROVE  PInv'
<1>1. i = Instruction(f) /\ i.op = "fork"
  BY DEF execute_fork, Forking, Step
<1>2. PICK place, S : place = Target(f, i, "dst") /\ S = Sealed(process)
  OBVIOUS
<1>3. PICK mid : mid = Goto(f, frame[f].pc + i.jump)
  OBVIOUS
<1>4. PICK c : c = NewPath(f, frame[f].proc, function_call(f), frame[f].pc + 1, place)
  OBVIOUS
<1>5. value' = Put(place, Promise) /\ frame' = Append(mid, c) /\ UNCHANGED <<process, io>>
  BY <1>2, <1>3, <1>4 DEF execute_fork, Forking, Executed
<1>6. HasPlace(value, place) /\ place[1] \notin S
  BY <1>1, <1>2, FoundDst, DstAway DEF Quiet
<1>7. Hidden(value, frame, io, S) /\ Made(value, frame)
  BY <1>2 DEF PInv, SealedHidden, PromisesMade
<1>8. c.type = "path" /\ c.promised = place /\ c.context = EmptyContext
  BY <1>4 DEF NewPath, NewFrame
<1>9. Clear(c, S)
  BY <1>6, <1>8 DEF Clear, EmptyContext
<1>10. IsSequence(mid) /\ Len(mid) = Len(frame) /\ Stay(frame, mid)
  BY <1>1, <1>3, JumpMoved, StayGoto DEF Moved
<1>11. Stays(frame, frame', S) /\ Len(mid) + 1 \in DOMAIN frame' /\ frame'[Len(mid) + 1] = c
  <2>1. \A g \in DOMAIN frame : Clear(frame[g], S)
    BY <1>7 DEF Hidden
  <2>2. frame' = Append(mid, c)
    BY <1>5
  <2>3. Stays(frame, frame', S)
    BY <1>9, <1>10, <2>1, <2>2, StaysAppend
  <2>4. Len(mid) + 1 \in DOMAIN frame' /\ frame'[Len(mid) + 1] = c
    BY <1>10, <2>2, AppendSequence
  <2>5. QED
    BY <2>3, <2>4
<1>12. PICK a, b : a = place[1] /\ b = place[2] + 1
  OBVIOUS
<1>13. ASSUME NEW v \in DOMAIN value', NEW r \in DOMAIN value'[v].regs
       PROVE  \/ v \in DOMAIN value /\ r \in DOMAIN value[v].regs /\ value'[v].regs[r] = value[v].regs[r]
              \/ v = a /\ r = b /\ value'[v].regs[r] = Promise
  <2>1. value' = [value EXCEPT ![a].regs[b] = Promise]
    BY <1>5, <1>12 DEF Put
  <2>2. DOMAIN value[v] = {"func", "family", "argc", "regs", "moves", "text"} /\ v \in DOMAIN value
    BY <2>1, InvFacts DEF Shaped, GoodShape
  <2>3. CASE v # a
    BY <2>1, <2>2, <2>3
  <2>4. CASE v = a
    <3>1. value'[v].regs = [value[v].regs EXCEPT ![b] = Promise]
      BY <2>1, <2>2, <2>4
    <3>2. QED
      BY <2>2, <2>4, <3>1
  <2>5. QED
    BY <2>3, <2>4
<1>14. Hidden(value', frame', io', S)
  <2>1. \A s : Off(Promise, s)
    BY DEF Off, IsIndex, Promise
  <2>2. \A v \in DOMAIN value' : \A r \in DOMAIN value'[v].regs : \A s \in S : Off(value'[v].regs[r], s)
    BY <1>7, <1>13, <2>1 DEF Hidden
  <2>3. QED
    BY <1>5, <1>7, <1>11, <2>2 DEF Hidden, Stays
<1>15. Made(value', frame')
  <2>1. ASSUME NEW v \in DOMAIN value', NEW r \in DOMAIN value'[v].regs, value'[v].regs[r] = Promise
        PROVE  Forked(frame', v, r)
    <3>1. CASE v \in DOMAIN value /\ r \in DOMAIN value[v].regs /\ value'[v].regs[r] = value[v].regs[r]
      <4>1. Forked(frame, v, r)
        BY <1>7, <2>1, <3>1 DEF Made
      <4>2. QED
        BY <1>11, <4>1 DEF Forked, Stays
    <3>2. CASE v = a /\ r = b
      <4>1. place[1] = a /\ place[2] = b - 1
        BY <1>6, <1>12 DEF HasPlace
      <4>2. QED
        BY <1>8, <1>11, <3>2, <4>1 DEF Forked
    <3>3. QED
      BY <1>13, <3>1, <3>2
  <2>2. QED
    BY <2>1 DEF Made
<1>16. Sealed(process') = S
  BY <1>2, <1>5
<1>17. QED
  BY <1>14, <1>15, <1>16 DEF PInv, SealedHidden, PromisesMade

LEMMA SentAppend ==
    ASSUME IsSequence(process), NEW p, p.recv = <<>>
    PROVE  Sealed(Append(process, p)) \subseteq Sealed(process)
<1>1. /\ DOMAIN Append(process, p) = DOMAIN process \cup {Len(process) + 1} /\ Append(process, p)[Len(process) + 1] = p
      /\ \A q \in DOMAIN process : Append(process, p)[q] = process[q]
  BY AppendSequence
<1>2. Range(<<>>) = {}
  BY EmptySequence, SequenceDomain DEF Range
<1>3. ASSUME NEW q \in DOMAIN Append(process, p)
      PROVE  Range(Append(process, p)[q].recv) \subseteq Sent(process)
  BY <1>1, <1>2 DEF Sent
<1>4. Sent(Append(process, p)) \subseteq Sent(process)
  BY <1>3 DEF Sent
<1>5. QED
  BY <1>4 DEF Sealed

(* The new process runs on the registers of a function value, which is not *)
(* sealed.                                                                 *)
LEMMA PromiseNewproc ==
    ASSUME Inv, PInv, NEW f \in DOMAIN frame, NEW i, Step(f, i), execute_newproc(f, i)
    PROVE  PInv'
<1>1. i = Instruction(f) /\ i.op = "newproc"
  BY DEF execute_newproc, Step
<1>2. PICK func, pid, src : func = Value(f, i, "src") /\ pid = Target(f, i, "dst") /\ src = Target(f, i, "src")
  OBVIOUS
<1>3. PICK S : S = Sealed(process)
  OBVIOUS
<1>4. CASE func[1] # "Function" /\ Write(f, pid, Failure("type"))
  BY <1>4, FreePlain, WriteOnward
<1>5. CASE Breaks(f, "null")
  BY <1>5, BreaksOnward
<1>6. CASE /\ func[1] = "Function"
           /\ process' = Append(process, NewProcess(Len(frame) + 1))
           /\ frame' = Append(Next_pc(f), NewCall(0, Len(process) + 1, NoPlace, func[2], value[func[2]].func))
           /\ value' = [Put(src, Void) EXCEPT ![pid[1]].regs[pid[2] + 1] = Num(Len(process) + 1)]
           /\ UNCHANGED io
  <2>1. PICK mid, c, n : /\ mid = Next_pc(f) /\ n = Len(process) + 1
                         /\ c = NewCall(0, Len(process) + 1, NoPlace, func[2], value[func[2]].func)
    OBVIOUS
  <2>2. Hidden(value, frame, io, S) /\ Made(value, frame)
    BY <1>3 DEF PInv, SealedHidden, PromisesMade
  <2>3. func[2] \notin S
    <3>1. HasPlace(value, src) /\ func = At(src)
      BY <1>1, <1>2, FoundSrc DEF Sources, Value
    <3>2. \A s \in S : Off(func, s)
      BY <1>3, <3>1, OffValue
    <3>3. QED
      BY <1>6, <3>2 DEF Off, IsIndex
  <2>4. c.type = "call" /\ c.value = func[2] /\ c.result = NoPlace /\ c.context = EmptyContext
    BY <2>1 DEF NewCall, NewFrame
  <2>5. Clear(c, S)
    BY <2>3, <2>4 DEF Clear, EmptyContext
  <2>6. Stays(frame, frame', S)
    <3>1. IsSequence(mid)
      BY <1>1, <2>1, NextMoved DEF Moved
    <3>2. Stay(frame, mid)
      BY <2>1, StayGoto
    <3>3. \A g \in DOMAIN frame : Clear(frame[g], S)
      BY <2>2 DEF Hidden
    <3>4. frame' = Append(mid, c)
      BY <1>6, <2>1
    <3>5. QED
      BY <2>5, <3>1, <3>2, <3>3, <3>4, StaysAppend
  <2>7. Keeps(value, value', S)
    <3>1. PICK h : h = Put(src, Void)
      OBVIOUS
    <3>2. Keeps(value, h, S)
      BY <3>1, FreePlain, KeepsPut
    <3>3. PICK a, b : a = pid[1] /\ b = pid[2] + 1
      OBVIOUS
    <3>4. value' = Set(h, a, b, Num(n))
      BY <1>6, <2>1, <3>1, <3>3 DEF Set
    <3>5. Shaped(h)
      <4>1. PICK d, e : d = src[1] /\ e = src[2] + 1
        OBVIOUS
      <4>2. h = Set(value, d, e, Void)
        BY <3>1, <4>1 DEF Put, Set
      <4>3. QED
        BY <4>2, GoodVoid, PutHeap DEF Inv, GoodHeap
    <3>6. Free(Num(n), S)
      BY FreePlain
    <3>7. Keeps(h, value', S)
      BY <3>4, <3>5, <3>6, KeepsSet
    <3>8. QED
      BY <3>2, <3>7, KeepsTransitive
  <2>8. Hidden(value', frame', io', S) /\ Made(value', frame')
    <3>1. \A g \in DOMAIN io' : io'[g].place # NoPlace => io'[g].place[1] \notin S
      BY <1>6, <2>2 DEF Hidden
    <3>2. QED
      BY <2>2, <2>6, <2>7, <3>1, Onward
  <2>9. Sealed(process') \subseteq S
    <3>1. NewProcess(Len(frame) + 1).recv = <<>>
      BY DEF NewProcess
    <3>2. QED
      BY <1>3, <1>6, <3>1, SentAppend, InvFacts
  <2>10. Hidden(value', frame', io', Sealed(process'))
    BY <2>8, <2>9, HiddenLess
  <2>11. QED
    BY <2>8, <2>10 DEF PInv, SealedHidden, PromisesMade
<1>7. QED
  BY <1>2, <1>4, <1>5, <1>6 DEF execute_newproc

LEMMA PromiseRecv ==
    ASSUME Inv, PInv, NEW f \in DOMAIN frame, NEW i, Step(f, i), execute_recv(f, i)
    PROVE  PInv'
<1>1. UNCHANGED io
  BY DEF execute_recv
<1>2. CASE frame' = [frame EXCEPT ![f].cfstate = "PEERWAIT"] /\ UNCHANGED <<process, value>>
  BY <1>1, <1>2, StayState, SilentOnward
<1>3. CASE /\ proc(f).recv # <<>>
           /\ value' = Put(Target(f, i, "dst"), In(value, There(value, Head(proc(f).recv), 0)))
           /\ process' = [process EXCEPT ![frame[f].proc].recv = Tail(@)]
           /\ frame' = Next_pc(f)
  <2>1. PICK p, S : p = frame[f].proc /\ S = Sealed(process)
    OBVIOUS
  <2>2. p \in DOMAIN process /\ GoodProcess(value, frame, process[p]) /\ proc(f) = process[p]
    BY <2>1, OnWorker DEF Inv, GoodProcesses, proc
  <2>3. PICK s : s = process[p].recv
    OBVIOUS
  <2>4. /\ 1 \in DOMAIN s /\ Head(s) = s[1]
        /\ \A k \in DOMAIN Tail(s) : k + 1 \in DOMAIN s /\ Tail(s)[k] = s[k + 1]
    BY <1>3, <2>2, <2>3, TailSequence DEF GoodProcess
  <2>5. PICK mail : mail = <<Head(s), 0, 0>>
    OBVIOUS
  <2>6. HasPlace(value, mail) /\ mail[1] \in S
    <3>1. Head(s) \in Range(process[p].recv)
      BY <2>3, <2>4 DEF Range
    <3>2. Head(s) \in S
      BY <2>1, <2>2, <3>1 DEF Sent, Sealed
    <3>3. HasPlace(value, <<s[1], 0, 0>>)
      BY <2>2, <2>3, <2>4 DEF GoodProcess
    <3>4. QED
      BY <2>4, <2>5, <3>2, <3>3
  <2>7. PICK x : x = At(mail)
    OBVIOUS
  <2>8. Free(x, S)
    BY <2>1, <2>6, <2>7, SealedFree
  <2>9. Keeps(value, value', S)
    <3>1. PICK place : place = Target(f, i, "dst")
      OBVIOUS
    <3>2. value' = Put(place, x)
      BY <1>3, <2>2, <2>3, <2>5, <2>7, <3>1 DEF At, In, There
    <3>3. QED
      BY <2>8, <3>2, KeepsPut
  <2>10. Hidden(value, frame, io, S) /\ Made(value, frame)
    BY <2>1 DEF PInv, SealedHidden, PromisesMade
  <2>11. Stays(frame, frame', S)
    BY <1>3, <2>10, StayGoto, StayClear DEF Hidden
  <2>12. Hidden(value', frame', io', S) /\ Made(value', frame')
    <3>1. \A g \in DOMAIN io' : io'[g].place # NoPlace => io'[g].place[1] \notin S
      BY <1>1, <2>10 DEF Hidden
    <3>2. QED
      BY <2>9, <2>10, <2>11, <3>1, Onward
  <2>13. Sent(process') \subseteq Sent(process)
    <3>1. PICK t : t = Tail(s)
      OBVIOUS
    <3>2. process' = [process EXCEPT ![p].recv = t]
      BY <1>3, <2>1, <2>3, <3>1
    <3>3. process'[p].recv = t /\ DOMAIN process' = DOMAIN process
      BY <2>2, <3>2 DEF GoodProcess
    <3>4. \A q \in DOMAIN process : q # p => process'[q] = process[q]
      BY <3>2
    <3>5. Range(t) \subseteq Range(s)
      BY <2>4, <3>1 DEF Range
    <3>6. \A q \in DOMAIN process' : Range(process'[q].recv) \subseteq Range(process[q].recv)
      BY <2>3, <3>3, <3>4, <3>5
    <3>7. QED
      BY <3>3, <3>6 DEF Sent
  <2>14. Hidden(value', frame', io', Sealed(process'))
    BY <2>1, <2>12, <2>13, HiddenLess DEF Sealed
  <2>15. QED
    BY <2>12, <2>14 DEF PInv, SealedHidden, PromisesMade
<1>4. QED
  BY <1>2, <1>3 DEF execute_recv

-----------------------------------------------------------------------------
(***************************************************************************)
(* Calls.                                                                  *)
(***************************************************************************)
LEMMA KeepsBecame ==
    ASSUME Inv, NEW f \in DOMAIN frame, NEW i, NEW v, NEW heap, Called(f, i, v, heap), NEW S
    PROVE  Keeps(value, heap, S)
<1>1. PICK o : o = heap[v]
  OBVIOUS
<1>2. v \in DOMAIN value /\ \A r \in DOMAIN o.regs : (r \in DOMAIN value[v].regs /\ o.regs[r] = value[v].regs[r]) \/ o.regs[r] = Void
  BY <1>1, CalledIs DEF Became, Called
<1>3. heap = [value EXCEPT ![v] = o]
  BY <1>1, <1>2 DEF Called
<1>4. QED
  BY <1>2, <1>3, KeepsObject

LEMMA PromiseCallOther ==
    ASSUME Inv, PInv, NEW f \in DOMAIN frame, NEW i, Step(f, i), i.op = "call",
           call_other(f, Value(f, i, "src"), Target(f, i, "dst"))
    PROVE  PInv'
<1>1. PICK callee, out : callee = Value(f, i, "src") /\ out = Target(f, i, "dst")
  OBVIOUS
<1>2. CASE callee[1] = "Failure"
  <2>1. HasPlace(value, Target(f, i, "src"))
    BY FoundSrc DEF Sources
  <2>2. callee # Promise
    BY <1>2 DEF Promise
  <2>3. Free(callee, Sealed(process))
    BY <1>1, <2>1, <2>2, FreeValue DEF Value
  <2>4. Write(f, out, callee)
    BY <1>1, <1>2 DEF call_other
  <2>5. QED
    BY <2>3, <2>4, WriteOnward
<1>3. CASE callee[1] # "Failure"
  <2>1. Write(f, out, Failure("type"))
    BY <1>1, <1>3 DEF call_other
  <2>2. QED
    BY <2>1, FreePlain, WriteOnward
<1>4. QED
  BY <1>2, <1>3

LEMMA PromiseCallFailed ==
    ASSUME Inv, PInv, NEW f \in DOMAIN frame, NEW i, Step(f, i),
           NEW v \in DOMAIN value, value[v].func # "none", qbrtcall_failed(f, v)
    PROVE  PInv'
<1>1. GoodShape(value[v])
  BY InvFacts DEF Shaped
<1>2. value[v].argc \in Nat
  BY <1>1, RegTotal DEF GoodShape, Loadable
<1>3. BadArguments(v) \in SUBSET Nat /\ BadArguments(v) # {}
  BY <1>2 DEF BadArguments, Arguments, qbrtcall_failed
<1>4. PICK r : r = First(BadArguments(v))
  OBVIOUS
<1>5. r \in BadArguments(v) /\ r \in 0 .. value[v].argc - 1
  <2>1. r \in BadArguments(v)
    BY <1>3, <1>4, FirstIn
  <2>2. QED
    BY <2>1 DEF BadArguments, Arguments
<1>6. CASE Argument(value, v, r).stop # "none"
  <2>1. Breaks(f, "dangling")
    BY <1>4, <1>6 DEF qbrtcall_failed
  <2>2. QED
    BY <2>1, BreaksOnward
<1>7. CASE Argument(value, v, r).stop = "none"
  <2>1. PICK x, place : x = Argued(value, v, r) /\ place = Argument(value, v, r).place
    OBVIOUS
  <2>2. HasPlace(value, place) /\ x = At(place)
    BY <1>5, <2>1, ArgumentFound DEF Inv, GoodLink, Argued, At
  <2>3. x # Promise
    BY <1>5, <1>7, <2>1 DEF BadArguments, Promise
  <2>4. Free(x, Sealed(process))
    BY <2>2, <2>3, FreeValue
  <2>5. Fail(f, x) /\ UNCHANGED io /\ frame' = [Next_pc(f) EXCEPT ![f].cfstate = "FAILED"]
    BY <1>4, <1>7, <2>1 DEF qbrtcall_failed
  <2>6. Stay(frame, frame')
    BY <2>5, StayState
  <2>7. QED
    BY <2>4, <2>5, <2>6, FailOnward
<1>8. QED
  BY <1>6, <1>7

(* What a C function writes to the register for its result.                *)
LEMMA KeepsOutput ==
    ASSUME NEW h, GoodHeap(h), NEW S, Len(h) + 1 \notin S, NEW out
    PROVE  /\ \A x : Free(x, S) => Keeps(h, Outputs(h, out, x), S)
           /\ \A text : Keeps(h, OutputsText(h, out, text), S)
<1>1. PICK a, b : a = out[1] /\ b = out[2] + 1
  OBVIOUS
<1>2. \A x : Outputs(h, out, x) = Set(h, a, b, x)
  BY <1>1 DEF Outputs, Set
<1>3. \A text : OutputsText(h, out, text) = PutString(h, a, b, text)
  BY <1>2 DEF OutputsText, PutString
<1>4. Shaped(h)
  BY DEF GoodHeap
<1>5. ASSUME NEW x, Free(x, S) PROVE Keeps(h, Outputs(h, out, x), S)
  BY <1>2, <1>4, <1>5, KeepsSet
<1>6. ASSUME NEW text PROVE Keeps(h, OutputsText(h, out, text), S)
  BY <1>3, <1>4, KeepsString
<1>7. QED
  BY <1>5, <1>6

LEMMA CallOnward ==
    ASSUME Inv, PInv, NEW f \in DOMAIN frame, NEW i, NEW v, NEW heap, Called(f, i, v, heap),
           NEW k, Keeps(heap, k, Sealed(process)), value' = k, Stay(frame, frame'), UNCHANGED <<process, io>>
    PROVE  PInv'
<1>1. Keeps(value, heap, Sealed(process))
  BY KeepsBecame
<1>2. Keeps(value, value', Sealed(process))
  BY <1>1, KeepsTransitive
<1>3. QED
  BY <1>2, InstructionOnward

LEMMA PromiseCallQuick ==
    ASSUME Inv, PInv, NEW f \in DOMAIN frame, NEW i, NEW v, NEW heap, Called(f, i, v, heap), NEW out,
           \/ qbrtcall_abstract(f, v, heap) \/ core_dangling(f, v, heap, out)
           \/ core_str(f, v, heap, out) \/ core_print(f, v, heap, out) \/ core_pid(f, v, heap, out)
           \/ core_open(f, v, heap, out) \/ qbrtcall_mismatch(f, v, heap)
    PROVE  PInv'
<1>1. PICK S : S = Sealed(process)
  OBVIOUS
<1>2. GoodHeap(heap) /\ Len(heap) + 1 \notin S
  BY <1>1, CalledIs, SentObjects
<1>3. ASSUME NEW k, Keeps(heap, k, S), Becomes(f, k) PROVE PInv'
  BY <1>1, <1>3, StayGoto, CallOnward DEF Becomes, Executed
<1>4. CASE qbrtcall_abstract(f, v, heap)
  <2>1. /\ value' = heap /\ UNCHANGED <<process, io>>
        /\ frame' = [Next_pc(f) EXCEPT ![f].cfstate = "FAILED"]
    BY <1>4 DEF qbrtcall_abstract, Executed
  <2>2. Stay(frame, frame')
    BY <2>1, StayState
  <2>3. QED
    BY <2>1, <2>2, KeepsReflexive, CallOnward
<1>5. CASE core_dangling(f, v, heap, out) \/ qbrtcall_mismatch(f, v, heap)
  BY <1>5, BreaksOnward DEF core_dangling, qbrtcall_mismatch
<1>6. CASE core_str(f, v, heap, out)
  <2>1. PICK text : Becomes(f, OutputsText(heap, out, text))
    BY <1>6 DEF core_str
  <2>2. PICK k : k = OutputsText(heap, out, text)
    OBVIOUS
  <2>3. Keeps(heap, k, S)
    BY <1>2, <2>2, KeepsOutput
  <2>4. QED
    BY <1>3, <2>1, <2>2, <2>3
<1>7. CASE core_print(f, v, heap, out)
  BY <1>3, <1>7, KeepsReflexive DEF core_print
<1>8. CASE core_pid(f, v, heap, out)
  <2>1. PICK id : Becomes(f, Outputs(heap, out, Num(id)))
    BY <1>8 DEF core_pid
  <2>2. PICK k : k = Outputs(heap, out, Num(id))
    OBVIOUS
  <2>3. Keeps(heap, k, S)
    BY <1>2, <2>2, FreePlain, KeepsOutput
  <2>4. QED
    BY <1>3, <2>1, <2>2, <2>3
<1>9. CASE core_open(f, v, heap, out)
  <2>1. Breaks(f, "exit") \/ Breaks(f, "null") \/ Becomes(f, Outputs(heap, out, Stream(2)))
    BY <1>9 DEF core_open
  <2>2. PICK k : k = Outputs(heap, out, Stream(2))
    OBVIOUS
  <2>3. Keeps(heap, k, S)
    BY <1>2, <2>2, FreePlain, KeepsOutput
  <2>4. QED
    BY <1>3, <2>1, <2>2, <2>3, BreaksOnward
<1>10. QED
  BY <1>4, <1>5, <1>6, <1>7, <1>8, <1>9

(* A line is to be written where nothing is sealed.                        *)
LEMMA PromisePush ==
    ASSUME Inv, PInv, NEW f \in DOMAIN frame, NEW i, NEW v, NEW heap, Called(f, i, v, heap),
           NEW fd, NEW place, place # NoPlace => place[1] \notin Sealed(process), iopush(f, heap, fd, place)
    PROVE  PInv'
<1>1. PICK S : S = Sealed(process)
  OBVIOUS
<1>2. value' = heap /\ UNCHANGED process /\ frame' = [Next_pc(f) EXCEPT ![f].cfstate = "IOWAIT"]
  BY DEF iopush, Executed
<1>3. Hidden(value, frame, io, S) /\ Made(value, frame)
  BY <1>1 DEF PInv, SealedHidden, PromisesMade
<1>4. Stays(frame, frame', S)
  <2>1. Stay(frame, frame')
    BY <1>2, StayState
  <2>2. QED
    BY <1>3, <2>1, StayClear DEF Hidden
<1>5. \A g \in DOMAIN io' : io'[g].place # NoPlace => io'[g].place[1] \notin S
  <2>1. PICK watched : io' = With(io, f, [fd |-> fd, place |-> place, registered |-> ~watched])
    BY DEF iopush
  <2>2. PICK x : x = [fd |-> fd, place |-> place, registered |-> ~watched]
    OBVIOUS
  <2>3. \A g \in DOMAIN io' : io'[g] = x \/ (g \in DOMAIN io /\ io'[g] = io[g])
    BY <2>1, <2>2 DEF With
  <2>4. x.place = place
    BY <2>2
  <2>5. QED
    BY <1>1, <1>3, <2>3, <2>4 DEF Hidden
<1>6. Keeps(value, value', S)
  BY <1>2, KeepsBecame
<1>7. Hidden(value', frame', io', S) /\ Made(value', frame')
  BY <1>3, <1>4, <1>5, <1>6, Onward
<1>8. Sealed(process') = S
  BY <1>1, <1>2
<1>9. QED
  BY <1>7, <1>8 DEF PInv, SealedHidden, PromisesMade

LEMMA PromiseCallStream ==
    ASSUME Inv, PInv, NEW f \in DOMAIN frame, NEW i, NEW v, NEW heap, Called(f, i, v, heap),
           NEW out, out[1] \notin Sealed(process), core_getline(f, v, heap, out) \/ core_write(f, v, heap, out)
    PROVE  PInv'
<1>1. PICK stream : stream = Argued(heap, v, 0)
  OBVIOUS
<1>2. CASE Breaks(f, "exit")
  BY <1>2, BreaksOnward
<1>3. CASE iopush(f, heap, stream[2], out) \/ iopush(f, heap, stream[2], NoPlace)
  BY <1>3, PromisePush
<1>4. CASE handle(f, OutputsText(heap, out, <<"line">>)) \/ handle(f, heap)
  <2>1. PICK k \in {heap, OutputsText(heap, out, <<"line">>)} : handle(f, k)
    BY <1>4
  <2>2. GoodHeap(heap) /\ Len(heap) + 1 \notin Sealed(process)
    BY CalledIs, SentObjects
  <2>3. Keeps(heap, k, Sealed(process))
    BY <2>2, KeepsOutput, KeepsReflexive
  <2>4. /\ value' = k /\ UNCHANGED <<process, io>>
        /\ frame' = [Next_pc(f) EXCEPT ![f].cfstate = "IOWAIT"]
    BY <2>1 DEF handle, Executed
  <2>5. Stay(frame, frame')
    BY <2>4, StayState
  <2>6. QED
    BY <2>3, <2>4, <2>5, CallOnward
<1>5. QED
  BY <1>1, <1>2, <1>3, <1>4 DEF core_getline, core_write

(* A new call runs on a function value and writes to a register that are   *)
(* not sealed.                                                             *)
LEMMA PromiseCallFrame ==
    ASSUME Inv, PInv, NEW f \in DOMAIN frame, NEW i, NEW v, NEW heap, Called(f, i, v, heap), v \notin Sealed(process),
           NEW out, out[1] \notin Sealed(process), qbrtcall(f, v, heap, out)
    PROVE  PInv'
<1>1. PICK S : S = Sealed(process)
  OBVIOUS
<1>2. value' = heap /\ UNCHANGED <<process, io>>
  BY DEF qbrtcall, Executed
<1>3. Keeps(value, value', S)
  BY <1>2, KeepsBecame
<1>4. Hidden(value, frame, io, S) /\ Made(value, frame)
  BY <1>1 DEF PInv, SealedHidden, PromisesMade
<1>5. Stays(frame, frame', S)
  <2>1. \A g \in DOMAIN frame : Clear(frame[g], S)
    BY <1>4 DEF Hidden
  <2>2. PICK mid, c : mid = Next_pc(f) /\ c = NewCall(f, frame[f].proc, out, v, heap[v].func)
    OBVIOUS
  <2>3. frame' = Append(mid, c)
    BY <2>2 DEF qbrtcall
  <2>4. c.type = "call" /\ c.value = v /\ c.result = out /\ c.context = EmptyContext
    BY <2>2 DEF NewCall, NewFrame
  <2>5. Clear(c, S)
    BY <1>1, <2>4 DEF Clear, EmptyContext
  <2>6. IsSequence(mid) /\ Stay(frame, mid)
    BY <2>2, NextMoved, StayGoto DEF Moved, Called, Step
  <2>7. QED
    BY <2>1, <2>3, <2>5, <2>6, StaysAppend
<1>6. Hidden(value', frame', io', S) /\ Made(value', frame')
  <2>1. \A g \in DOMAIN io' : io'[g].place # NoPlace => io'[g].place[1] \notin S
    BY <1>2, <1>4 DEF Hidden
  <2>2. QED
    BY <1>3, <1>4, <1>5, <2>1, Onward
<1>7. Sealed(process') = S
  BY <1>1, <1>2
<1>8. QED
  BY <1>6, <1>7 DEF PInv, SealedHidden, PromisesMade

(* Nothing leads to an object that is not there yet.                       *)
LEMMA HiddenMore ==
    ASSUME Inv, NEW S, Hidden(value, frame, io, S), NEW n, n = Len(value) + 1
    PROVE  Hidden(value, frame, io, S \cup {n})
<1>1. n \notin DOMAIN value /\ 1 \in DOMAIN value
  BY InvFacts DEF Inv, GoodHeap
<1>2. ASSUME NEW v \in DOMAIN value, NEW r \in DOMAIN value[v].regs PROVE Off(value[v].regs[r], n)
  <2>1. GoodValue(value, value[v].regs[r])
    BY DEF Inv, GoodHeap
  <2>2. QED
    BY <1>1, <2>1 DEF GoodValue, HasPlace, Off
<1>3. ASSUME NEW f \in DOMAIN frame PROVE Clear(frame[f], S \cup {n})
  <2>1. Clear(frame[f], S)
    BY DEF Hidden
  <2>2. GoodFrame(value, frame, Len(process), f)
    BY DEF Inv, GoodFrames
  <2>3. frame[f].type = "call" =>
           frame[f].value \in DOMAIN value /\ (frame[f].result # NoPlace => frame[f].result[1] \in DOMAIN value)
    BY <2>2 DEF GoodFrame, GoodCall, HasPlace
  <2>4. frame[f].type = "path" => frame[f].promised[1] \in DOMAIN value
    BY <2>2 DEF GoodFrame, HasPlace
  <2>5. \A name \in DOMAIN frame[f].context : frame[f].context[name] \in DOMAIN value
    BY <2>2 DEF GoodFrame, HasPlace
  <2>6. QED
    BY <1>1, <2>1, <2>3, <2>4, <2>5 DEF Clear
<1>4. \A f \in DOMAIN io : io[f].place # NoPlace => io[f].place[1] \in DOMAIN value
  BY DEF Inv, GoodIo, HasPlace
<1>5. QED
  BY <1>1, <1>2, <1>3, <1>4 DEF Hidden

(* What is sent is a copy in an object that is new.                        *)
LEMMA PromiseSend ==
    ASSUME Inv, PInv, NEW f \in DOMAIN frame, NEW i, NEW v, NEW heap, Called(f, i, v, heap),
           NEW out, core_send(f, v, heap, out)
    PROVE  PInv'
<1>1. PICK S : S = Sealed(process)
  OBVIOUS
<1>2. Shaped(heap) /\ Len(heap) = Len(value) /\ IsSequence(heap)
  BY CalledIs
<1>3. frame' = Next_pc(f) /\ UNCHANGED io
  BY DEF core_send
<1>4. Stay(frame, frame')
  BY <1>3, StayGoto
<1>5. PICK n, o, pid, x : n = Len(value) + 1 /\ o = NewIndex(1) /\ pid = Argued(heap, v, 0)[2] /\ x = Argued(heap, v, 1)
  OBVIOUS
<1>6. PICK mail : mail = Append(heap, o)
  OBVIOUS
<1>7. Len(mail) = n
  BY <1>2, <1>5, <1>6, AppendSequence
<1>8. CASE value' = heap /\ process' = process
  BY <1>3, <1>4, <1>8, KeepsReflexive, CallOnward
<1>9. CASE /\ pid \in DOMAIN process /\ value' = Copied(mail, <<n, 0, 0>>, x)
           /\ process' = [process EXCEPT ![pid].recv = Append(process[pid].recv, n)]
  <2>1. PICK T : T = S \cup {n}
    OBVIOUS
  <2>2. Hidden(value, frame, io, T) /\ Made(value, frame)
    BY <1>1, <1>5, <2>1, HiddenMore DEF PInv, SealedHidden, PromisesMade
  <2>3. Keeps(value, heap, T)
    BY KeepsBecame
  <2>4. Apart(heap, T)
    BY <2>2, <2>3 DEF Hidden, Keeps, Free, Apart
  <2>5. \A s \in T : Off(x, s)
    <3>1. PICK place : place = Argument(heap, v, 1).place
      OBVIOUS
    <3>2. HasPlace(heap, place)
      BY <3>1, SendArgument DEF core_send
    <3>3. x = In(heap, place)
      BY <1>5, <3>1 DEF Argued
    <3>4. QED
      BY <2>4, <3>2, <3>3 DEF Apart, HasPlace, In
  <2>6. Keeps(value, value', T)
    <3>1. Blank(o)
      BY <1>5, BlankIndex
    <3>2. Keeps(heap, mail, T)
      BY <1>2, <1>6, <3>1, KeepsAppend
    <3>3. Shaped(mail)
      <4>1. DOMAIN mail = DOMAIN heap \cup {Len(heap) + 1} /\ mail[Len(heap) + 1] = o
        BY <1>2, <1>6, AppendSequence
      <4>2. IsSequence(mail) /\ \A u \in DOMAIN heap : mail[u] = heap[u]
        BY <1>2, <1>6, AppendSequence
      <4>3. QED
        BY <1>2, <3>1, <4>1, <4>2 DEF Shaped, Blank
    <3>4. n + 1 \notin T
      <4>1. n \in Nat /\ n + 1 \notin DOMAIN value /\ n + 1 # n
        BY <1>5, InvFacts
      <4>2. QED
        BY <1>1, <2>1, <4>1, SentObjects
    <3>5. PICK place : place = <<n, 0, 0>>
      OBVIOUS
    <3>6. Keeps(mail, value', T)
      BY <1>7, <1>9, <2>5, <3>3, <3>4, <3>5, KeepsCopied
    <3>7. QED
      BY <2>3, <3>2, <3>6, KeepsTransitive
  <2>7. Stays(frame, frame', T)
    BY <1>4, <2>2, StayClear DEF Hidden
  <2>8. Hidden(value', frame', io', T) /\ Made(value', frame')
    <3>1. \A g \in DOMAIN io' : io'[g].place # NoPlace => io'[g].place[1] \notin T
      BY <1>3, <2>2 DEF Hidden
    <3>2. QED
      BY <2>2, <2>6, <2>7, <3>1, Onward
  <2>9. Sent(process') \subseteq Sent(process) \cup {n}
    <3>1. PICK s, t : s = process[pid].recv /\ t = Append(s, n)
      OBVIOUS
    <3>2. IsSequence(s) /\ DOMAIN process[pid] = {"worker", "call", "recv"}
      BY <1>9, <3>1 DEF Inv, GoodProcesses, GoodProcess
    <3>3. process' = [process EXCEPT ![pid].recv = t]
      BY <1>9, <3>1
    <3>4. process'[pid].recv = t /\ DOMAIN process' = DOMAIN process
      BY <1>9, <3>2, <3>3
    <3>5. \A q \in DOMAIN process : q # pid => process'[q] = process[q]
      BY <3>3
    <3>6. Range(t) \subseteq Range(s) \cup {n}
      BY <3>1, <3>2, AppendSequence DEF Range
    <3>7. \A q \in DOMAIN process' : Range(process'[q].recv) \subseteq Range(process[q].recv) \cup {n}
      BY <3>1, <3>4, <3>5, <3>6
    <3>8. QED
      BY <3>4, <3>7 DEF Sent
  <2>10. Sealed(process') \subseteq T
    BY <1>1, <2>1, <2>9 DEF Sealed
  <2>11. Hidden(value', frame', io', Sealed(process'))
    BY <2>8, <2>10, HiddenLess
  <2>12. QED
    BY <2>8, <2>11 DEF PInv, SealedHidden, PromisesMade
<1>10. QED
  <2>1. PICK big : big = Append(heap, NewIndex(1))
    OBVIOUS
  <2>2. \/ value' = heap /\ process' = process
        \/ /\ pid \in DOMAIN process /\ value' = Copied(big, <<Len(big), 0, 0>>, x)
           /\ process' = [process EXCEPT ![pid].recv = Append(process[pid].recv, Len(big))]
    BY <1>5, <2>1 DEF core_send
  <2>3. big = mail /\ Len(big) = n
    BY <1>5, <1>6, <1>7, <2>1
  <2>4. QED
    BY <1>8, <1>9, <2>2, <2>3

LEMMA PromiseCall ==
    ASSUME Inv, PInv, NEW f \in DOMAIN frame, NEW i, Step(f, i), execute_call(f, i)
    PROVE  PInv'
<1>1. i.op = "call"
  BY DEF execute_call
<1>2. PICK callee, out : callee = Value(f, i, "src") /\ out = Target(f, i, "dst")
  OBVIOUS
<1>3. GoodValue(value, callee) /\ out[1] \notin Sealed(process)
  BY <1>1, <1>2, FoundSrc, DstAway DEF Sources, Quiet
<1>4. CASE call_other(f, callee, out)
  BY <1>1, <1>2, <1>4, PromiseCallOther
<1>5. CASE callee[1] = "Function" /\ ~call_other(f, callee, out)
  <2>1. PICK v : v = callee[2]
    OBVIOUS
  <2>2. v \in DOMAIN value /\ value[v].func # "none"
    BY <1>3, <1>5, <2>1 DEF GoodValue, IsIndex
  <2>3. v \notin Sealed(process)
    <3>1. HasPlace(value, Target(f, i, "src")) /\ callee = At(Target(f, i, "src"))
      BY <1>1, <1>2, FoundSrc DEF Sources, Value
    <3>2. \A s \in Sealed(process) : Off(callee, s)
      BY <3>1, OffValue
    <3>3. QED
      BY <1>5, <2>1, <3>2 DEF Off, IsIndex
  <2>4. CASE qbrtcall_failed(f, v)
    BY <2>2, <2>4, PromiseCallFailed
  <2>5. CASE ~qbrtcall_failed(f, v)
    <3>1. PICK moves \in BOOLEAN :
             \E heap \in {[value EXCEPT ![v] = override_function(on(f), value[v], moves)]} : Performs(f, v, heap, out)
      <4>1. PICK c \in {Value(f, i, "src")}, o \in {Target(f, i, "dst")} :
              \/ call_other(f, c, o)
              \/ /\ c[1] = "Function"
                 /\ \/ qbrtcall_failed(f, c[2])
                    \/ \E moves \in BOOLEAN :
                       \E heap \in {[value EXCEPT ![c[2]] = override_function(on(f), @, moves)]} :
                          Performs(f, c[2], heap, o)
        BY DEF execute_call, Performs
      <4>2. c = callee /\ o = out
        BY <1>2, <4>1
      <4>3. QED
        BY <1>5, <2>1, <2>5, <4>1, <4>2
    <3>2. PICK heap : heap = [value EXCEPT ![v] = override_function(on(f), value[v], moves)]
      OBVIOUS
    <3>3. Performs(f, v, heap, out)
      BY <3>1, <3>2
    <3>4. Called(f, i, v, heap)
      BY <1>1, <2>2, <3>2 DEF Called
    <3>5. QED
      BY <1>3, <2>3, <3>3, <3>4, PromiseCallQuick, PromiseSend, PromiseCallStream, PromiseCallFrame DEF Performs
  <2>6. QED
    BY <2>4, <2>5
<1>6. QED
  BY <1>2, <1>4, <1>5 DEF execute_call

-----------------------------------------------------------------------------
(***************************************************************************)
(* The workers, and the main thread.                                       *)
(***************************************************************************)
LEMMA PromiseWork ==
    ASSUME Inv, PInv, NEW w \in Worker, gotowork(w)
    PROVE  PInv'
<1>1. CASE finish_frame(w)
  <2>1. UNCHANGED <<process, io>>
    BY <1>1 DEF finish_frame
  <2>2. PICK f : f = current[w]
    OBVIOUS
  <2>3. \/ UNCHANGED <<value, frame>>
        \/ value' = Freed(f) /\ frame' = [frame EXCEPT ![f].live = FALSE]
    BY <1>1, <2>2 DEF finish_frame
  <2>4. CASE UNCHANGED <<value, frame>>
    BY <2>1, <2>4, StayReflexive, SilentOnward
  <2>5. CASE value' = Freed(f) /\ frame' = [frame EXCEPT ![f].live = FALSE]
    <3>1. PICK C : C = Range(frame[f].context)
      OBVIOUS
    <3>2. value' = [v \in DOMAIN value |-> IF v \in C THEN Gone(value[v]) ELSE value[v]]
      BY <2>5, <3>1 DEF Freed, Gone
    <3>3. Keeps(value, value', Sealed(process))
      BY <3>2, InvFacts, KeepsFreed
    <3>4. Stay(frame, frame')
      BY <2>5, FrameFields, StayChanged
    <3>5. QED
      BY <2>1, <3>3, <3>4, InstructionOnward
  <2>6. QED
    BY <2>3, <2>4, <2>5
<1>2. CASE ~finish_frame(w)
  <2>1. UNCHANGED <<value, frame, process, io>>
    BY <1>2 DEF gotowork, idle, iowork_done, switch_ready, switch_wait
  <2>2. QED
    BY <2>1, StayReflexive, SilentOnward
<1>3. QED
  BY <1>1, <1>2

LEMMA PromiseIopop ==
    ASSUME Inv, PInv, NEW f \in DOMAIN io, iopop(f)
    PROVE  PInv'
<1>1. PICK n, o, S : n = Len(value) + 1 /\ o = NewString(<<"line">>) /\ S = Sealed(process)
  OBVIOUS
<1>2. PICK place : place = io[f].place
  OBVIOUS
<1>3. /\ value' = value \/ value' = Append(Put(place, String(n)), o)
      /\ UNCHANGED process
      /\ io' = [g \in DOMAIN io \ {f} |-> io[g]] /\ frame' = [frame EXCEPT ![f].cfstate = "READY"]
  BY <1>1, <1>2 DEF iopop
<1>4. Hidden(value, frame, io, S) /\ Made(value, frame)
  BY <1>1 DEF PInv, SealedHidden, PromisesMade
<1>5. Keeps(value, value', S)
  <2>1. Free(String(n), S)
    BY <1>1, SentObjects, FreePointer
  <2>2. \A k : k = Append(Put(place, String(n)), o) => Keeps(value, k, S)
    BY <1>1, <2>1, BlankString, KeepsPutAppend
  <2>3. QED
    BY <1>3, <2>2, KeepsReflexive
<1>6. Stays(frame, frame', S)
  BY <1>3, <1>4, StayState, StayClear DEF Hidden
<1>7. \A g \in DOMAIN io' : io'[g].place # NoPlace => io'[g].place[1] \notin S
  BY <1>3, <1>4 DEF Hidden
<1>8. Hidden(value', frame', io', S) /\ Made(value', frame')
  BY <1>4, <1>5, <1>6, <1>7, Onward
<1>9. Sealed(process') = S
  BY <1>1, <1>3
<1>10. QED
  BY <1>8, <1>9 DEF PInv, SealedHidden, PromisesMade

LEMMA PromiseDistribute == ASSUME Inv, PInv, distribute_work PROVE PInv'
<1>1. PICK p \in DOMAIN process : process' = [process EXCEPT ![p].worker = distributor]
  BY DEF distribute_work
<1>2. UNCHANGED <<value, frame, io>>
  BY DEF distribute_work
<1>3. DOMAIN process[p] = {"worker", "call", "recv"}
  BY DEF Inv, GoodProcesses, GoodProcess
<1>4. DOMAIN process' = DOMAIN process /\ \A q \in DOMAIN process : process'[q].recv = process[q].recv
  BY <1>1, <1>3
<1>5. Sealed(process') = Sealed(process)
  BY <1>4 DEF Sent, Sealed
<1>6. QED
  BY <1>2, <1>5 DEF PInv, SealedHidden, PromisesMade

-----------------------------------------------------------------------------
(***************************************************************************)
(* The invariant.                                                          *)
(***************************************************************************)
LEMMA PromiseInstruction == ASSUME Inv, PInv, NEW f \in DOMAIN frame, execute_instruction(f) PROVE PInv'
<1>1. PICK i : i = Instruction(f)
  OBVIOUS
<1>2. CASE \/ read_promise(f, i) \/ read_failure(f, i) \/ register404(f, i)
           \/ patternvar_null(f, i) \/ follow_null(f, i)
  BY <1>1, <1>2, PromiseStopped DEF execute_instruction
<1>3. CASE ~(\/ read_promise(f, i) \/ read_failure(f, i) \/ register404(f, i)
             \/ patternvar_null(f, i) \/ follow_null(f, i))
  <2>1. Step(f, i)
    BY <1>1, <1>3, ExecutedIs
  <2>2. CASE execute_consti(f, i) \/ execute_consthash(f, i) \/ execute_cfailure(f, i) \/ execute_patternvar(f, i)
    BY <2>1, <2>2, PromiseConst
  <2>3. CASE execute_consts(f, i) \/ execute_ctuple(f, i) \/ execute_lconstruct(f, i) \/ execute_loadfunc(f, i)
    BY <1>1, <2>1, <2>3, PromiseNew
  <2>4. CASE execute_copy(f, i) \/ execute_move(f, i)
    BY <2>1, <2>4, PromiseCopy
  <2>5. CASE execute_ref(f, i) \/ execute_lcontext(f, i)
    BY <2>1, <2>5, PromiseRef, PromiseContext
  <2>6. CASE execute_binaryop(f, i) \/ execute_divide(f, i) \/ execute_cmp(f, i)
    BY <2>1, <2>6, PromiseBinary
  <2>7. CASE \/ execute_iffail(f, i) \/ execute_if(f, i) \/ execute_goto(f, i) \/ execute_return(f, i)
             \/ execute_loadobj(f, i)
    BY <2>1, <2>7, PromiseBranch
  <2>8. CASE execute_match(f, i) \/ execute_matchargs(f, i) \/ execute_stracc(f, i)
    BY <2>1, <2>8, PromiseMatch, PromiseMatchargs, PromiseStracc
  <2>9. CASE invalid_opcode(f, i) \/ execute_fieldget(f, i)
    BY <2>1, <2>9, PromiseInvalid
  <2>10. CASE execute_fork(f, i) \/ execute_newproc(f, i) \/ execute_recv(f, i) \/ execute_call(f, i)
    BY <2>1, <2>10, PromiseFork, PromiseNewproc, PromiseRecv, PromiseCall
  <2>11. QED
    BY <1>1, <1>3, <2>2, <2>3, <2>4, <2>5, <2>6, <2>7, <2>8, <2>9, <2>10, ExecutedIs
<1>4. QED
  BY <1>2, <1>3

LEMMA InitPInv == ASSUME Init PROVE PInv
<1>1. PICK a, b, c, d, e, r :
         /\ a = Starting(NumWorkers + 1, Num(0)) /\ b = NewValue(program)
         /\ c = NewVariable(Stream(0)) /\ d = NewVariable(Stream(1)) /\ e = NewIndex(1)
         /\ r = [NewCall(0, 1, <<1, 0, 0>>, 2, program) EXCEPT !.context = [stdin |-> stdin, stdout |-> stdout]]
  OBVIOUS
<1>2. value = <<a, b, c, d, e>> /\ frame = <<r>> /\ process = <<NewProcess(1)>> /\ io = [f \in {} |-> 0]
  BY <1>1 DEF Init, Starting
<1>3. Sealed(process) = {CONST_REGISTER}
  <2>1. DOMAIN process = {1} /\ process[1].recv = <<>>
    BY <1>2 DEF NewProcess
  <2>2. Range(<<>>) = {}
    BY EmptySequence, SequenceDomain DEF Range
  <2>3. Sent(process) = {}
    BY <2>1, <2>2 DEF Sent
  <2>4. QED
    BY <2>3 DEF Sealed
<1> DEFINE P == {Void, Num(0), Stream(0), Stream(1)}
<1>4. \A v \in DOMAIN value : \A n \in DOMAIN value[v].regs : value[v].regs[n] \in P
  <2>1. NumWorkers + 1 \in Nat \ {0}
    BY BoundsAssumption
  <2>2. \A n \in DOMAIN a.regs : a.regs[n] \in P
    BY <1>1, <2>1, FirstObject
  <2>3. \A n \in DOMAIN b.regs : b.regs[n] \in P
    <3>1. Loadable(program)
      BY MainAssumption DEF Init
    <3>2. QED
      BY <1>1, <3>1, BlankValue DEF Blank
  <2>4. (\A n \in DOMAIN c.regs : c.regs[n] \in P) /\ (\A n \in DOMAIN d.regs : d.regs[n] \in P)
    BY <1>1, VariableObject
  <2>5. \A n \in DOMAIN e.regs : e.regs[n] \in P
    BY <1>1, BlankIndex DEF Blank
  <2>6. DOMAIN value = 1 .. 5 /\ value[1] = a /\ value[2] = b /\ value[3] = c /\ value[4] = d /\ value[5] = e
    BY <1>2
  <2>7. QED
    BY <2>2, <2>3, <2>4, <2>5, <2>6
<1>5. \A x \in P : Free(x, Sealed(process))
  BY FreePlain
<1>6. Clear(r, {CONST_REGISTER})
  <2>1. PICK q, k : q = NewCall(0, 1, <<1, 0, 0>>, 2, program) /\ k = [stdin |-> stdin, stdout |-> stdout]
    OBVIOUS
  <2>2. q.type = "call" /\ q.value = 2 /\ q.result = <<1, 0, 0>> /\ DOMAIN q = Fields
    BY <2>1 DEF NewCall, NewFrame, Fields
  <2>3. r.type = "call" /\ r.value = 2 /\ r.result = <<1, 0, 0>> /\ r.context = k
    BY <1>1, <2>1, <2>2 DEF Fields
  <2>4. \A name \in DOMAIN k : k[name] \in {3, 4}
    BY <2>1 DEF stdin, stdout
  <2>5. QED
    BY <2>3, <2>4 DEF Clear, CONST_REGISTER
<1>7. Hidden(value, frame, io, {CONST_REGISTER})
  <2>1. \A v \in DOMAIN value : \A n \in DOMAIN value[v].regs : \A s \in {CONST_REGISTER} : Off(value[v].regs[n], s)
    BY <1>3, <1>4, <1>5 DEF Free
  <2>2. 1 \notin {CONST_REGISTER}
    BY DEF CONST_REGISTER
  <2>3. DOMAIN frame = {1} /\ frame[1] = r /\ DOMAIN io = {}
    BY <1>2
  <2>4. QED
    BY <1>6, <2>1, <2>2, <2>3 DEF Hidden
<1>8. Made(value, frame)
  BY <1>4, <1>5 DEF Made, Free
<1>9. QED
  BY <1>3, <1>7, <1>8 DEF PInv, SealedHidden, PromisesMade

LEMMA NextPInv == Inv /\ PInv /\ [Next]_vars => PInv'
<1>1. SUFFICES ASSUME Inv, PInv, [Next]_vars PROVE PInv'
  OBVIOUS
<1>2. CASE \E w \in Worker : gotowork(w)
  BY <1>1, <1>2, PromiseWork
<1>3. CASE \E f \in DOMAIN frame : execute_instruction(f)
  BY <1>1, <1>3, PromiseInstruction
<1>4. CASE \E f \in DOMAIN io : iopop(f)
  BY <1>1, <1>4, PromiseIopop
<1>5. CASE distribute_work
  BY <1>1, <1>5, PromiseDistribute
<1>6. CASE UNCHANGED vars
  BY <1>1, <1>6 DEF vars, PInv, SealedHidden, PromisesMade
<1>7. QED
  BY <1>1, <1>2, <1>3, <1>4, <1>5, <1>6 DEF Next

(* A message that has not been received is its mailbox's alone: no         *)
(* register refers to it, no call runs on it or writes its result to it,   *)
(* no path is to keep a promise in it and no stream will be read into it.  *)
(* What the sender goes on to do can therefore not change what is sent.    *)
THEOREM Messages == Spec => []MessagesHidden
<1>1. Init => PInv
  BY InitPInv
<1>2. PInv => MessagesHidden
  BY SealedLess DEF PInv, SealedHidden, MessagesHidden
<1>3. QED
  BY <1>1, <1>2, Invariance, NextPInv, PTL DEF Spec

(* Whatever a program copies, matches, sends, calls and returns, a promise *)
(* is in no register but the one that a fork has left to a path of its     *)
(* own.                                                                    *)
THEOREM Promises == Spec => []PromisesMade
<1>1. Init => PInv
  BY InitPInv
<1>2. PInv => PromisesMade
  BY DEF PInv
<1>3. QED
  BY <1>1, <1>2, Invariance, NextPInv, PTL DEF Spec

(* A path that ends has kept its promise, or its register was promised to  *)
(* another path since.  Whether it has is up to the program.               *)
KeptByTheEnd ==
    \A p \in DOMAIN frame \ Live :
        frame[p].type = "path" /\ At(frame[p].promised) = Promise =>
            \E q \in Live : /\ frame[q].type = "path"
                            /\ frame[q].promised[1] = frame[p].promised[1]
                            /\ frame[q].promised[2] = frame[p].promised[2]

(* Nothing but such a path leaves a promise that nobody will keep:         *)
(* PromisesKept holds whatever else the program, the workers and the order *)
(* of their steps do.                                                      *)
THEOREM Kept == Spec => []((program \notin Stuck => KeptByTheEnd) => PromisesKept)
<1>1. Inv /\ PromisesMade => ((program \notin Stuck => KeptByTheEnd) => PromisesKept)
  <2>1. SUFFICES ASSUME Inv, PromisesMade, KeptByTheEnd,
                        NEW v \in DOMAIN value, NEW r \in DOMAIN value[v].regs, value[v].regs[r] = Promise
                 PROVE  \E p \in Live : /\ frame[p].type = "path"
                                        /\ frame[p].promised[1] = v /\ frame[p].promised[2] = r - 1
    BY DEF PromisesKept
  <2>2. PICK g \in DOMAIN frame :
            frame[g].type = "path" /\ frame[g].promised[1] = v /\ frame[g].promised[2] = r - 1
    BY <2>1 DEF PromisesMade, Made, Forked
  <2>3. r \in Nat
    <3>1. IsSequence(value[v].regs)
      BY <2>1 DEF Inv, GoodHeap, Shaped, GoodShape
    <3>2. QED
      BY <3>1, SequenceDomain
  <2>4. At(frame[g].promised) = Promise
    <3>1. r - 1 + 1 = r
      BY <2>3
    <3>2. QED
      BY <2>1, <2>2, <3>1 DEF At, In
  <2>5. CASE g \in Live
    BY <2>2, <2>5
  <2>6. CASE g \notin Live
    BY <2>1, <2>2, <2>4, <2>6 DEF KeptByTheEnd
  <2>7. QED
    BY <2>5, <2>6
<1>2. QED
  BY <1>1, Invariance, Promises, PTL
=============================================================================
