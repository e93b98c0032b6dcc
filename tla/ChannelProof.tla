---------------------------- MODULE ChannelProof ----------------------------
(***************************************************************************)
(* Proofs about Channel when one worker runs every process, for any        *)
(* processes and messages.                                                 *)
(***************************************************************************)
EXTENDS Channel, Queues, FiniteSetTheorems, TLAPS

-----------------------------------------------------------------------------
(***************************************************************************)
(* Lists of nodes, for any links nx and pv.                                *)
(***************************************************************************)

(* The links nx lead from p through s and back.                            *)
Chain(nx, p, s) == \A i \in 0 .. Len(s) : nx[Nth(p, s, i)] = Nth(p, s, i + 1)

(* The links pv lead the other way, except from the nodes in gap.          *)
Back(pv, gap, p, s) ==
    \A i \in 0 .. Len(s) : Nth(p, s, i + 1) \in gap \/ pv[Nth(p, s, i + 1)] = Nth(p, s, i)

(* No node is in two lists or twice in one.                                *)
Apart(box) ==
    \A p, q \in Process : \A i \in 1 .. Len(box[p]), j \in 1 .. Len(box[q]) :
        box[p][i] = box[q][j] => p = q /\ i = j

Lists(nx, pv, gap, box) ==
    /\ Apart(box)
    /\ \A p \in Process : Chain(nx, p, box[p]) /\ Back(pv, gap, p, box[p])

Boxes == [Process -> Seq(Msg)]

In(box, m) == \E p \in Process : \E i \in 1 .. Len(box[p]) : box[p][i] = m

-----------------------------------------------------------------------------
(* The nodes of a list: the sentinel at both ends, messages between.       *)
LEMMA NthOf ==
    ASSUME NEW p, NEW s \in Seq(Msg)
    PROVE  /\ Len(s) \in Nat
           /\ Nth(p, s, 0) = p /\ Nth(p, s, Len(s) + 1) = p
           /\ \A i \in 1 .. Len(s) : Nth(p, s, i) = s[i] /\ s[i] \in Msg /\ Nth(p, s, i) \in Msg
<1>1. Len(s) \in Nat /\ DOMAIN s = 1 .. Len(s)
  OBVIOUS
<1>2. 0 \notin DOMAIN s /\ Len(s) + 1 \notin DOMAIN s
  BY <1>1
<1>3. \A i \in 1 .. Len(s) : i \in DOMAIN s /\ s[i] \in Msg
  BY <1>1
<1>4. QED
  BY <1>1, <1>2, <1>3 DEF Nth

LEMMA NthType ==
    ASSUME NEW p \in Process, NEW s \in Seq(Msg), NEW i \in Int
    PROVE  Nth(p, s, i) \in Node
BY DEF Nth, Node

(* push_back() moves no node but adds one at the end.                      *)
LEMMA NthAppend ==
    ASSUME NEW p, NEW s \in Seq(Msg), NEW m \in Msg
    PROVE  /\ Append(s, m) \in Seq(Msg) /\ Len(Append(s, m)) = Len(s) + 1
           /\ \A i \in 0 .. Len(s) : Nth(p, Append(s, m), i) = Nth(p, s, i)
           /\ Nth(p, Append(s, m), Len(s) + 1) = m
           /\ Nth(p, Append(s, m), Len(s) + 2) = p
<1> DEFINE t == Append(s, m)
<1>1. t \in Seq(Msg) /\ Len(t) = Len(s) + 1 /\ Len(s) \in Nat
  OBVIOUS
<1>2. (\A i \in 1 .. Len(s) : t[i] = s[i]) /\ t[Len(s) + 1] = m
  OBVIOUS
<1>3. \A i \in 1 .. Len(s) : Nth(p, t, i) = t[i] /\ Nth(p, s, i) = s[i]
  <2>1. (\A i \in 1 .. Len(t) : Nth(p, t, i) = t[i]) /\ \A i \in 1 .. Len(s) : Nth(p, s, i) = s[i]
    BY <1>1, NthOf
  <2>2. \A i \in 1 .. Len(s) : i \in 1 .. Len(t)
    BY <1>1
  <2>3. QED
    BY <2>1, <2>2
<1>4. Nth(p, t, Len(s) + 1) = t[Len(s) + 1]
  <2>1. Len(s) + 1 \in 1 .. Len(t)
    BY <1>1
  <2>2. QED
    BY <1>1, <2>1, NthOf
<1>5. Nth(p, t, 0) = p /\ Nth(p, s, 0) = p /\ Nth(p, t, Len(t) + 1) = p
  BY <1>1, NthOf
<1>6. Len(t) + 1 = Len(s) + 2 /\ \A i \in 0 .. Len(s) : i = 0 \/ i \in 1 .. Len(s)
  BY <1>1
<1>7. QED
  BY <1>1, <1>2, <1>3, <1>4, <1>5, <1>6

(* pop_front() moves every node one place.                                 *)
LEMMA NthTail ==
    ASSUME NEW p, NEW s \in Seq(Msg), Len(s) > 0
    PROVE  /\ Tail(s) \in Seq(Msg) /\ Len(Tail(s)) = Len(s) - 1
           /\ Nth(p, Tail(s), 0) = p
           /\ \A i \in 1 .. Len(s) : Nth(p, Tail(s), i) = Nth(p, s, i + 1)
<1> DEFINE t == Tail(s)
<1>1. s # <<>> /\ Len(s) \in Nat
  OBVIOUS
<1>2. t \in Seq(Msg) /\ Len(t) = Len(s) - 1
  BY <1>1
<1>3. \A i \in 1 .. Len(t) : t[i] = s[i + 1]
  BY <1>1, <1>2
<1>4. \A i \in 1 .. Len(t) : Nth(p, t, i) = t[i]
  BY <1>2, NthOf
<1>5. \A i \in 1 .. Len(t) : Nth(p, s, i + 1) = s[i + 1]
  <2>1. \A i \in 1 .. Len(t) : i + 1 \in 1 .. Len(s)
    BY <1>1, <1>2
  <2>2. QED
    BY <2>1, NthOf
<1>6. Nth(p, t, 0) = p /\ Nth(p, t, Len(t) + 1) = p /\ Nth(p, s, Len(s) + 1) = p
  BY <1>2, NthOf
<1> HIDE DEF t
<1>7. ASSUME NEW i \in 1 .. Len(s) PROVE Nth(p, t, i) = Nth(p, s, i + 1)
  <2>1. CASE i \in 1 .. Len(t)
    BY <2>1, <1>3, <1>4, <1>5
  <2>2. CASE i = Len(s)
    <3>1. i = Len(t) + 1 /\ i + 1 = Len(s) + 1
      BY <2>2, <1>1, <1>2
    <3>2. QED
      BY <3>1, <1>6
  <2>3. i \in 1 .. Len(t) \/ i = Len(s)
    BY <1>1, <1>2
  <2>4. QED
    BY <2>1, <2>2, <2>3
<1>8. QED
  BY <1>2, <1>6, <1>7 DEF t
-----------------------------------------------------------------------------
(* Two lists that the same links lead through begin alike.                 *)
LEMMA ChainPrefix ==
    ASSUME NEW nx, NEW p \in Process, NEW s \in Seq(Msg), NEW t \in Seq(Msg),
           Chain(nx, p, s), Chain(nx, p, t)
    PROVE  Len(s) <= Len(t) /\ \A i \in 1 .. Len(s) : s[i] = t[i]
<1> DEFINE differ == {i \in 0 .. Len(s) : Nth(p, s, i) # Nth(p, t, i)}
<1>1. Len(s) \in Nat /\ Len(t) \in Nat /\ p \notin Msg
  BY NodesAssumption
<1>2. differ = {}
  <2>1. SUFFICES ASSUME differ # {} PROVE FALSE
    OBVIOUS
  <2>2. differ \in SUBSET Nat
    BY <1>1
  <2>3. PICK n \in differ : \A k \in differ : n <= k
    BY <2>1, <2>2, Least
  <2>4. n \in 0 .. Len(s) /\ Nth(p, s, n) # Nth(p, t, n)
    BY <2>3
  <2>5. n # 0
    BY <2>4, NthOf
  <2>6. n - 1 \in 0 .. Len(s) /\ n - 1 \notin differ
    BY <2>3, <2>4, <2>5, <1>1
  <2>7. Nth(p, s, n - 1) = Nth(p, t, n - 1)
    BY <2>6
  <2>8. n - 1 \in 0 .. Len(t)
    <3>1. SUFFICES ASSUME n - 1 > Len(t) PROVE FALSE
      BY <2>6, <1>1
    <3>2. Nth(p, t, n - 1) = p
      BY <3>1, <1>1, <2>6 DEF Nth
    <3>3. n - 1 \in 1 .. Len(s)
      BY <3>1, <2>6, <1>1
    <3>4. \A i \in 1 .. Len(s) : Nth(p, s, i) \in Msg
      BY NthOf
    <3>5. QED
      BY <3>2, <3>3, <3>4, <2>7, <1>1
  <2>9. nx[Nth(p, s, n - 1)] = Nth(p, s, n - 1 + 1) /\ nx[Nth(p, t, n - 1)] = Nth(p, t, n - 1 + 1)
    BY <2>6, <2>8 DEF Chain
  <2>10. n - 1 + 1 = n
    BY <2>4
  <2>11. QED
    BY <2>4, <2>7, <2>9, <2>10
<1>3. \A i \in 1 .. Len(s) : Nth(p, t, i) = s[i] /\ s[i] \in Msg
  <2>1. \A i \in 1 .. Len(s) : i \in 0 .. Len(s)
    BY <1>1
  <2>2. \A i \in 1 .. Len(s) : Nth(p, t, i) = Nth(p, s, i)
    BY <1>2, <2>1
  <2>3. QED
    BY <2>2, NthOf
<1>4. \A i \in 1 .. Len(s) : i \in DOMAIN t /\ s[i] = t[i]
  BY <1>1, <1>3 DEF Nth
<1>5. Len(s) <= Len(t)
  <2>1. CASE Len(s) = 0
    BY <2>1, <1>1
  <2>2. CASE Len(s) # 0
    <3>1. Len(s) \in 1 .. Len(s)
      BY <2>2, <1>1
    <3>2. Len(s) \in DOMAIN t
      BY <3>1, <1>4
    <3>3. QED
      BY <3>2, <1>1
  <2>3. QED
    BY <2>1, <2>2
<1>6. QED
  BY <1>4, <1>5

(* The links determine the list.                                           *)
LEMMA ChainUnique ==
    ASSUME NEW nx, NEW p \in Process, NEW s \in Seq(Msg), NEW t \in Seq(Msg),
           Chain(nx, p, s), Chain(nx, p, t)
    PROVE  s = t
<1>1. Len(s) <= Len(t) /\ Len(t) <= Len(s) /\ \A i \in 1 .. Len(s) : s[i] = t[i]
  BY ChainPrefix
<1>2. Len(s) = Len(t)
  BY <1>1
<1>3. QED
  BY <1>1, <1>2

(* A list that holds no message twice is no longer than there are messages. *)
LEMMA ListShort ==
    ASSUME NEW s \in Seq(Msg), \A i, j \in 1 .. Len(s) : s[i] = s[j] => i = j
    PROVE  s \in BoundedSeq(Msg, Cardinality(Msg))
<1>1. Len(s) \in Nat /\ s \in [1 .. Len(s) -> Msg]
  OBVIOUS
<1>2. s \in Injection(1 .. Len(s), Msg)
  BY <1>1 DEF Injection, IsInjective
<1>3. Cardinality(1 .. Len(s)) <= Cardinality(Msg)
  BY <1>2, NodesAssumption, FS_Injection
<1>4. Cardinality(1 .. Len(s)) = Len(s)
  BY <1>1, FS_Interval
<1>5. Cardinality(Msg) \in Nat
  BY NodesAssumption, FS_CardinalityType
<1>6. Len(s) \in 0 .. Cardinality(Msg)
  BY <1>1, <1>3, <1>4, <1>5
<1>7. QED
  BY <1>1, <1>6 DEF BoundedSeq, SeqOf

(* What Contents() finds, for any links.                                   *)
QueueOf(nx, p) ==
    LET lists == {s \in BoundedSeq(Msg, Cardinality(Msg)) : Chain(nx, p, s)}
    IN  IF lists = {} THEN <<p>> ELSE CHOOSE s \in lists : TRUE

LEMMA QueueIs ==
    ASSUME NEW nx, NEW box \in Boxes, Apart(box), NEW p \in Process, Chain(nx, p, box[p])
    PROVE  QueueOf(nx, p) = box[p]
<1> DEFINE lists == {s \in BoundedSeq(Msg, Cardinality(Msg)) : Chain(nx, p, s)}
<1>1. box[p] \in Seq(Msg)
  BY DEF Boxes
<1>2. box[p] \in lists
  BY <1>1, ListShort DEF Apart
<1>3. ASSUME NEW s \in lists PROVE s = box[p]
  <2>1. s \in Seq(Msg)
    <3>1. PICK k \in 0 .. Cardinality(Msg) : s \in [1 .. k -> Msg]
      BY DEF BoundedSeq, SeqOf
    <3>2. k \in Nat
      BY NodesAssumption, FS_CardinalityType
    <3>3. QED
      BY <3>1, <3>2
  <2>2. Chain(nx, p, s)
    OBVIOUS
  <2>3. QED
    BY <2>1, <2>2, <1>1, ChainUnique
<1>4. lists # {} /\ (CHOOSE s \in lists : TRUE) = box[p]
  BY <1>2, <1>3
<1>5. QED
  BY <1>4 DEF QueueOf
-----------------------------------------------------------------------------
(***************************************************************************)
(* What a store to a link does to the lists.                               *)
(***************************************************************************)

(* A node has one place, counted from the sentinel at either end.          *)
LEMMA NthApart ==
    ASSUME NEW box \in Boxes, Apart(box), NEW p \in Process, NEW q \in Process,
           NEW i \in Nat, NEW j \in Nat, Nth(p, box[p], i) = Nth(q, box[q], j),
           \/ i \in 0 .. Len(box[p]) /\ j \in 0 .. Len(box[q])
           \/ i \in 1 .. Len(box[p]) + 1 /\ j \in 1 .. Len(box[q]) + 1
    PROVE  p = q /\ i = j
<1>1. box[p] \in Seq(Msg) /\ box[q] \in Seq(Msg) /\ p \notin Msg /\ q \notin Msg
  BY NodesAssumption DEF Boxes
<1>2. Len(box[p]) \in Nat /\ Len(box[q]) \in Nat
  BY <1>1
<1>3. CASE i \in 1 .. Len(box[p]) /\ j \in 1 .. Len(box[q])
  <2>1. Nth(p, box[p], i) = box[p][i] /\ Nth(q, box[q], j) = box[q][j]
    BY <1>1, <1>3, NthOf
  <2>2. QED
    BY <2>1, <1>3 DEF Apart
<1>4. CASE i \in 1 .. Len(box[p]) /\ j \notin 1 .. Len(box[q])
  <2>1. Nth(p, box[p], i) \in Msg
    BY <1>1, <1>4, NthOf
  <2>2. Nth(q, box[q], j) = q
    BY <1>1, <1>4 DEF Nth
  <2>3. QED
    BY <2>1, <2>2, <1>1
<1>5. CASE i \notin 1 .. Len(box[p]) /\ j \in 1 .. Len(box[q])
  <2>1. Nth(q, box[q], j) \in Msg
    BY <1>1, <1>5, NthOf
  <2>2. Nth(p, box[p], i) = p
    BY <1>1, <1>5 DEF Nth
  <2>3. QED
    BY <2>1, <2>2, <1>1
<1>6. CASE i \notin 1 .. Len(box[p]) /\ j \notin 1 .. Len(box[q])
  <2>1. Nth(q, box[q], j) = q /\ Nth(p, box[p], i) = p
    BY <1>1, <1>6 DEF Nth
  <2>2. p = q
    BY <2>1
  <2>3. i = j
    BY <2>2, <1>6, <1>2
  <2>4. QED
    BY <2>2, <2>3
<1>7. QED
  BY <1>3, <1>4, <1>5, <1>6

(* Every place of a list is a sentinel or a message of the list.           *)
LEMMA NthIn ==
    ASSUME NEW box \in Boxes, NEW p \in Process, NEW i \in Nat
    PROVE  Nth(p, box[p], i) \in Node /\ (Nth(p, box[p], i) = p \/ In(box, Nth(p, box[p], i)))
<1>1. box[p] \in Seq(Msg)
  BY DEF Boxes
<1>2. CASE i \in 1 .. Len(box[p])
  <2>1. Nth(p, box[p], i) = box[p][i] /\ box[p][i] \in Msg
    BY <1>1, <1>2, NthOf
  <2>2. QED
    BY <2>1, <1>2 DEF In, Node
<1>3. CASE i \notin 1 .. Len(box[p])
  BY <1>1, <1>3 DEF Nth, Node
<1>4. QED
  BY <1>2, <1>3

(* The links of a node outside the lists may change.                       *)
LEMMA StoreOutside ==
    ASSUME NEW nx \in [Node -> Node], NEW pv \in [Node -> Node], NEW gap,
           NEW box \in Boxes, Lists(nx, pv, gap, box),
           NEW m \in Msg, ~In(box, m), NEW x, NEW y
    PROVE  Lists([nx EXCEPT ![m] = x], [pv EXCEPT ![m] = y], gap, box)
<1>1. \A p \in Process : \A i \in Nat : Nth(p, box[p], i) # m
  <2>1. \A p \in Process : p # m
    BY NodesAssumption
  <2>2. QED
    BY <2>1, NthIn
<1>2. \A p \in Process : Len(box[p]) \in Nat
  BY DEF Boxes
<1>3. ASSUME NEW p \in Process
      PROVE  Chain([nx EXCEPT ![m] = x], p, box[p]) /\ Back([pv EXCEPT ![m] = y], gap, p, box[p])
  <2>1. SUFFICES ASSUME NEW i \in 0 .. Len(box[p])
                 PROVE  /\ [nx EXCEPT ![m] = x][Nth(p, box[p], i)] = Nth(p, box[p], i + 1)
                        /\ \/ Nth(p, box[p], i + 1) \in gap
                           \/ [pv EXCEPT ![m] = y][Nth(p, box[p], i + 1)] = Nth(p, box[p], i)
    BY DEF Chain, Back
  <2>2. PICK a : a = Nth(p, box[p], i)
    OBVIOUS
  <2>3. PICK b : b = Nth(p, box[p], i + 1)
    OBVIOUS
  <2>4. i \in Nat /\ i + 1 \in Nat
    BY <1>2
  <2>5. a \in Node /\ b \in Node /\ a # m /\ b # m
    BY <2>2, <2>3, <2>4, <1>1, NthIn
  <2>6. nx[a] = b /\ (b \in gap \/ pv[b] = a)
    BY <2>2, <2>3 DEF Lists, Chain, Back
  <2>7. [nx EXCEPT ![m] = x][a] = nx[a] /\ [pv EXCEPT ![m] = y][b] = pv[b]
    BY <2>5
  <2>8. QED
    BY <2>2, <2>3, <2>6, <2>7
<1>4. QED
  BY <1>3 DEF Lists
(* The end of pop_front() and of push_back(): one link back was missing.   *)
LEMMA StoreBack ==
    ASSUME NEW nx, NEW pv \in [Node -> Node], NEW box \in Boxes,
           NEW p \in Process, NEW i \in 0 .. Len(box[p]),
           Lists(nx, pv, {Nth(p, box[p], i + 1)}, box)
    PROVE  Lists(nx, [pv EXCEPT ![Nth(p, box[p], i + 1)] = Nth(p, box[p], i)], {}, box)
<1>1. \A q \in Process : Len(box[q]) \in Nat
  BY DEF Boxes
<1>2. PICK x : x = Nth(p, box[p], i + 1)
  OBVIOUS
<1>3. PICK y : y = Nth(p, box[p], i)
  OBVIOUS
<1>4. ASSUME NEW q \in Process, NEW j \in 0 .. Len(box[q])
      PROVE  [pv EXCEPT ![x] = y][Nth(q, box[q], j + 1)] = Nth(q, box[q], j)
  <2>1. PICK b : b = Nth(q, box[q], j + 1)
    OBVIOUS
  <2>2. PICK a : a = Nth(q, box[q], j)
    OBVIOUS
  <2>3. j + 1 \in Nat /\ i + 1 \in Nat /\ j + 1 \in 1 .. Len(box[q]) + 1 /\ i + 1 \in 1 .. Len(box[p]) + 1
    BY <1>1
  <2>4. b \in Node
    BY <2>1, <2>3, NthIn
  <2>5. b = x \/ pv[b] = a
    BY <1>2, <2>1, <2>2 DEF Lists, Back
  <2>6. CASE b = x
    <3>1. q = p /\ j + 1 = i + 1
      BY <2>6, <1>2, <2>1, <2>3, NthApart DEF Lists
    <3>2. a = y
      BY <3>1, <1>1, <1>3, <2>2
    <3>3. QED
      BY <2>4, <2>6, <3>2, <2>1, <2>2
  <2>7. CASE b # x
    BY <2>7, <2>4, <2>5, <2>1, <2>2
  <2>8. QED
    BY <2>6, <2>7
<1>5. \A q \in Process : Back([pv EXCEPT ![x] = y], {}, q, box[q])
  BY <1>4 DEF Back
<1>6. QED
  BY <1>2, <1>3, <1>5 DEF Lists

(* The store with which push_back() makes the last node lead to the new    *)
(* one, m.                                                                 *)
LEMMA StoreHook ==
    ASSUME NEW nx \in [Node -> Node], NEW pv \in [Node -> Node], NEW box \in Boxes,
           Lists(nx, pv, {}, box),
           NEW p \in Process, NEW m \in Msg, ~In(box, m),
           nx[m] = p, pv[m] = Nth(p, box[p], Len(box[p]))
    PROVE  /\ [box EXCEPT ![p] = Append(box[p], m)] \in Boxes
           /\ Lists([nx EXCEPT ![Nth(p, box[p], Len(box[p]))] = m], pv, {p},
                    [box EXCEPT ![p] = Append(box[p], m)])
<1>1. PICK s \in Seq(Msg) : s = box[p]
  BY DEF Boxes
<1>2. PICK t \in Seq(Msg) : t = Append(s, m)
  BY NthAppend
<1>3. PICK n \in Nat : n = Len(s)
  OBVIOUS
<1>4. PICK e : e = Nth(p, s, n)
  OBVIOUS
<1>5. PICK nx2 : nx2 = [nx EXCEPT ![e] = m]
  OBVIOUS
<1>6. PICK box2 \in Boxes : box2 = [box EXCEPT ![p] = t]
  BY DEF Boxes
<1>7. \A q \in Process : Len(box[q]) \in Nat
  BY DEF Boxes
<1>8. box2[p] = t /\ \A q \in Process : q # p => box2[q] = box[q]
  BY <1>6 DEF Boxes
<1>9. e \in Node /\ e # m
  <2>1. m \notin Process
    BY NodesAssumption
  <2>2. QED
    BY <2>1, <1>1, <1>3, <1>4, NthIn
<1>10. nx2[e] = m /\ \A x \in Node : x # e => nx2[x] = nx[x]
  BY <1>5, <1>9
<1>11. /\ Len(t) = n + 1
       /\ \A i \in 0 .. n : Nth(p, t, i) = Nth(p, s, i)
       /\ Nth(p, t, n + 1) = m /\ Nth(p, t, n + 2) = p
  BY <1>2, <1>3, NthAppend
<1>12. \A i \in 0 .. n + 1 : i \in 0 .. n - 1 \/ i = n \/ i = n + 1
  OBVIOUS
<1>13. Chain(nx2, p, t)
  <2>1. ASSUME NEW i \in 0 .. n - 1 PROVE nx2[Nth(p, t, i)] = Nth(p, t, i + 1)
    <3>1. i \in 0 .. n /\ i + 1 \in 0 .. n /\ i # n /\ i \in Nat
      OBVIOUS
    <3>2. PICK a : a = Nth(p, s, i)
      OBVIOUS
    <3>3. a \in Node
      BY <3>1, <3>2, <1>1, NthIn
    <3>4. a # e
      BY <3>1, <3>2, <1>1, <1>3, <1>4, NthApart DEF Lists
    <3>5. nx[a] = Nth(p, s, i + 1)
      BY <3>1, <3>2, <1>1, <1>3 DEF Lists, Chain
    <3>6. QED
      BY <3>1, <3>2, <3>3, <3>4, <3>5, <1>10, <1>11
  <2>2. nx2[Nth(p, t, n)] = Nth(p, t, n + 1)
    BY <1>4, <1>10, <1>11
  <2>3. nx2[Nth(p, t, n + 1)] = Nth(p, t, n + 1 + 1)
    <3>1. m \in Node /\ n + 1 + 1 = n + 2
      BY DEF Node
    <3>2. QED
      BY <3>1, <1>9, <1>10, <1>11
  <2>4. QED
    BY <2>1, <2>2, <2>3, <1>11, <1>12 DEF Chain
<1>14. Back(pv, {p}, p, t)
  <2>1. ASSUME NEW i \in 0 .. n - 1 PROVE pv[Nth(p, t, i + 1)] = Nth(p, t, i)
    <3>1. i \in 0 .. n /\ i + 1 \in 0 .. n
      OBVIOUS
    <3>2. pv[Nth(p, s, i + 1)] = Nth(p, s, i)
      BY <3>1, <1>1, <1>3 DEF Lists, Back
    <3>3. QED
      BY <3>1, <3>2, <1>11
  <2>2. pv[Nth(p, t, n + 1)] = Nth(p, t, n)
    BY <1>1, <1>3, <1>11
  <2>3. Nth(p, t, n + 1 + 1) = p
    <3>1. n + 1 + 1 = n + 2
      OBVIOUS
    <3>2. QED
      BY <3>1, <1>11
  <2>4. QED
    BY <2>1, <2>2, <2>3, <1>11, <1>12 DEF Back
<1>15. ASSUME NEW q \in Process, q # p PROVE Chain(nx2, q, box[q]) /\ Back(pv, {p}, q, box[q])
  <2>1. ASSUME NEW i \in 0 .. Len(box[q]) PROVE nx2[Nth(q, box[q], i)] = Nth(q, box[q], i + 1)
    <3>1. PICK a : a = Nth(q, box[q], i)
      OBVIOUS
    <3>2. i \in Nat
      BY <1>7
    <3>3. a \in Node
      BY <3>1, <3>2, NthIn
    <3>4. n \in 0 .. Len(box[p])
      BY <1>1, <1>3
    <3>5. a # e
      BY <3>1, <3>2, <3>4, <1>1, <1>4, <1>15, NthApart DEF Lists
    <3>6. nx[a] = Nth(q, box[q], i + 1)
      BY <3>1 DEF Lists, Chain
    <3>7. QED
      BY <3>1, <3>3, <3>5, <3>6, <1>10
  <2>2. Chain(nx2, q, box[q])
    BY <2>1 DEF Chain
  <2>3. Back(pv, {p}, q, box[q])
    BY DEF Lists, Back
  <2>4. QED
    BY <2>2, <2>3
<1>16. Apart(box2)
  <2>1. ASSUME NEW q \in Process, NEW i \in 1 .. Len(box2[q])
        PROVE  \/ q = p /\ i = n + 1 /\ box2[q][i] = m
               \/ i \in 1 .. Len(box[q]) /\ box2[q][i] = box[q][i] /\ box[q][i] # m
    <3>1. CASE q = p
      <4>1. i \in 1 .. n \/ i = n + 1
        BY <3>1, <1>8, <1>11
      <4>2. t[n + 1] = m /\ \A k \in 1 .. n : t[k] = s[k]
        BY <1>2, <1>3
      <4>3. QED
        BY <3>1, <4>1, <4>2, <1>1, <1>3, <1>8 DEF In
    <3>2. CASE q # p
      BY <3>2, <1>8 DEF In
    <3>3. QED
      BY <3>1, <3>2
  <2>2. SUFFICES ASSUME NEW q \in Process, NEW r \in Process,
                        NEW i \in 1 .. Len(box2[q]), NEW j \in 1 .. Len(box2[r]),
                        box2[q][i] = box2[r][j]
                 PROVE  q = r /\ i = j
    BY DEF Apart
  <2>3. \/ q = p /\ i = n + 1 /\ box2[q][i] = m
        \/ i \in 1 .. Len(box[q]) /\ box2[q][i] = box[q][i] /\ box[q][i] # m
    BY <2>1
  <2>4. \/ r = p /\ j = n + 1 /\ box2[r][j] = m
        \/ j \in 1 .. Len(box[r]) /\ box2[r][j] = box[r][j] /\ box[r][j] # m
    BY <2>1
  <2>5. QED
    BY <2>2, <2>3, <2>4 DEF Lists, Apart
<1>17. Lists(nx2, pv, {p}, box2)
  BY <1>8, <1>13, <1>14, <1>15, <1>16 DEF Lists
<1>18. QED
  BY <1>1, <1>2, <1>3, <1>4, <1>5, <1>6, <1>17
(* The store with which pop_front() makes the sentinel lead to the second  *)
(* node.                                                                   *)
LEMMA StoreUnhook ==
    ASSUME NEW nx \in [Node -> Node], NEW pv \in [Node -> Node], NEW box \in Boxes,
           Lists(nx, pv, {}, box),
           NEW p \in Process, Len(box[p]) > 0
    PROVE  /\ [box EXCEPT ![p] = Tail(box[p])] \in Boxes
           /\ Lists([nx EXCEPT ![p] = Nth(p, box[p], 2)], pv, {Nth(p, box[p], 2)},
                    [box EXCEPT ![p] = Tail(box[p])])
           /\ Nth(p, Tail(box[p]), 1) = Nth(p, box[p], 2)
           /\ ~In([box EXCEPT ![p] = Tail(box[p])], box[p][1])
<1>1. PICK s \in Seq(Msg) : s = box[p]
  BY DEF Boxes
<1>2. PICK t \in Seq(Msg) : t = Tail(s)
  BY <1>1, NthTail
<1>3. PICK n \in Nat : n = Len(s)
  OBVIOUS
<1>4. PICK e : e = Nth(p, s, 2)
  OBVIOUS
<1>5. PICK nx2 : nx2 = [nx EXCEPT ![p] = e]
  OBVIOUS
<1>6. PICK box2 \in Boxes : box2 = [box EXCEPT ![p] = t]
  BY DEF Boxes
<1>7. \A q \in Process : Len(box[q]) \in Nat
  BY DEF Boxes
<1>8. box2[p] = t /\ \A q \in Process : q # p => box2[q] = box[q]
  BY <1>6 DEF Boxes
<1>9. p \in Node /\ n > 0
  BY <1>1, <1>3 DEF Node
<1>10. nx2[p] = e /\ \A x \in Node : x # p => nx2[x] = nx[x]
  BY <1>5, <1>9
<1>11. /\ Len(t) = n - 1
       /\ Nth(p, t, 0) = p
       /\ \A i \in 1 .. n : Nth(p, t, i) = Nth(p, s, i + 1)
  BY <1>1, <1>2, <1>3, NthTail
<1>12. Nth(p, t, 1) = e
  <2>1. 1 \in 1 .. n /\ 1 + 1 = 2
    BY <1>9
  <2>2. QED
    BY <2>1, <1>4, <1>11
<1>13. \A i \in 0 .. n - 1 : i = 0 \/ i \in 1 .. n - 1
  OBVIOUS
<1>14. \A i \in 1 .. n - 1 : /\ Nth(p, t, i) = Nth(p, s, i + 1)
                             /\ Nth(p, t, i + 1) = Nth(p, s, i + 2)
  <2>1. SUFFICES ASSUME NEW i \in 1 .. n - 1
                 PROVE  Nth(p, t, i) = Nth(p, s, i + 1) /\ Nth(p, t, i + 1) = Nth(p, s, i + 2)
    OBVIOUS
  <2>2. i \in 1 .. n /\ i + 1 \in 1 .. n /\ i + 1 + 1 = i + 2
    OBVIOUS
  <2>3. QED
    BY <2>2, <1>11
<1>15. \A i \in 1 .. n - 1 : nx[Nth(p, s, i + 1)] = Nth(p, s, i + 2) /\ pv[Nth(p, s, i + 2)] = Nth(p, s, i + 1)
  <2>1. SUFFICES ASSUME NEW i \in 1 .. n - 1
                 PROVE  nx[Nth(p, s, i + 1)] = Nth(p, s, i + 2) /\ pv[Nth(p, s, i + 2)] = Nth(p, s, i + 1)
    OBVIOUS
  <2>2. i + 1 \in 0 .. n /\ i + 1 + 1 = i + 2
    OBVIOUS
  <2>3. nx[Nth(p, s, i + 1)] = Nth(p, s, i + 1 + 1) /\ pv[Nth(p, s, i + 1 + 1)] = Nth(p, s, i + 1)
    BY <2>2, <1>1, <1>3 DEF Lists, Chain, Back
  <2>4. QED
    BY <2>2, <2>3
<1>16. Chain(nx2, p, t)
  <2>1. ASSUME NEW i \in 1 .. n - 1 PROVE nx2[Nth(p, t, i)] = Nth(p, t, i + 1)
    <3>1. i + 1 \in Nat /\ i + 1 \in 0 .. Len(box[p]) /\ 0 \in 0 .. Len(box[p]) /\ i + 1 # 0
      BY <1>1, <1>3
    <3>2. PICK a : a = Nth(p, s, i + 1)
      OBVIOUS
    <3>3. a \in Node
      BY <3>1, <3>2, <1>1, NthIn
    <3>4. Nth(p, s, 0) = p
      BY NthOf
    <3>5. a # p
      BY <3>1, <3>2, <3>4, <1>1, NthApart DEF Lists
    <3>6. QED
      BY <3>2, <3>3, <3>5, <1>10, <1>14, <1>15
  <2>2. nx2[Nth(p, t, 0)] = Nth(p, t, 0 + 1)
    BY <1>10, <1>11, <1>12
  <2>3. QED
    BY <2>1, <2>2, <1>11, <1>13 DEF Chain
<1>17. Back(pv, {e}, p, t)
  <2>1. \A i \in 1 .. n - 1 : pv[Nth(p, t, i + 1)] = Nth(p, t, i)
    BY <1>14, <1>15
  <2>2. Nth(p, t, 0 + 1) \in {e}
    BY <1>12
  <2>3. QED
    BY <2>1, <2>2, <1>11, <1>13 DEF Back
<1>18. ASSUME NEW q \in Process, q # p PROVE Chain(nx2, q, box[q]) /\ Back(pv, {e}, q, box[q])
  <2>1. ASSUME NEW i \in 0 .. Len(box[q]) PROVE nx2[Nth(q, box[q], i)] = Nth(q, box[q], i + 1)
    <3>1. PICK a : a = Nth(q, box[q], i)
      OBVIOUS
    <3>2. i \in Nat
      BY <1>7
    <3>3. a \in Node
      BY <3>1, <3>2, NthIn
    <3>4. 0 \in 0 .. Len(box[p]) /\ Nth(p, box[p], 0) = p
      BY <1>1, <1>7, NthOf
    <3>5. a # p
      BY <3>1, <3>2, <3>4, <1>18, NthApart DEF Lists
    <3>6. nx[a] = Nth(q, box[q], i + 1)
      BY <3>1 DEF Lists, Chain
    <3>7. QED
      BY <3>1, <3>3, <3>5, <3>6, <1>10
  <2>2. Chain(nx2, q, box[q])
    BY <2>1 DEF Chain
  <2>3. Back(pv, {e}, q, box[q])
    BY DEF Lists, Back
  <2>4. QED
    BY <2>2, <2>3
<1>19. ASSUME NEW q \in Process, NEW i \in 1 .. Len(box2[q])
       PROVE  \E k \in 1 .. Len(box[q]) : /\ box2[q][i] = box[q][k]
                                         /\ k = i + (IF q = p THEN 1 ELSE 0)
  <2>1. CASE q = p
    <3>1. i \in 1 .. n - 1
      BY <2>1, <1>8, <1>11
    <3>2. i + 1 \in 1 .. n
      BY <3>1
    <3>3. t[i] = s[i + 1]
      BY <3>1, <1>2, <1>3, <1>9
    <3>4. QED
      BY <2>1, <3>2, <3>3, <1>1, <1>3, <1>8
  <2>2. CASE q # p
    BY <2>2, <1>8
  <2>3. QED
    BY <2>1, <2>2
<1>20. Apart(box2)
  <2>1. SUFFICES ASSUME NEW q \in Process, NEW r \in Process,
                        NEW i \in 1 .. Len(box2[q]), NEW j \in 1 .. Len(box2[r]),
                        box2[q][i] = box2[r][j]
                 PROVE  q = r /\ i = j
    BY DEF Apart
  <2>2. PICK k \in 1 .. Len(box[q]) : box2[q][i] = box[q][k] /\ k = i + (IF q = p THEN 1 ELSE 0)
    BY <1>19
  <2>3. PICK l \in 1 .. Len(box[r]) : box2[r][j] = box[r][l] /\ l = j + (IF r = p THEN 1 ELSE 0)
    BY <1>19
  <2>4. box[q][k] = box[r][l] /\ Apart(box)
    BY <2>1, <2>2, <2>3 DEF Lists
  <2>5. q = r /\ k = l
    BY <2>4 DEF Apart
  <2>6. QED
    BY <2>2, <2>3, <2>5
<1>21. ~In(box2, box[p][1])
  <2>1. SUFFICES ASSUME NEW q \in Process, NEW i \in 1 .. Len(box2[q]), box2[q][i] = box[p][1]
                 PROVE  FALSE
    BY DEF In
  <2>2. PICK k \in 1 .. Len(box[q]) : box2[q][i] = box[q][k] /\ k = i + (IF q = p THEN 1 ELSE 0)
    BY <1>19
  <2>3. 1 \in 1 .. Len(box[p])
    BY <1>1, <1>3, <1>9
  <2>4. box[q][k] = box[p][1] /\ Apart(box)
    BY <2>1, <2>2 DEF Lists
  <2>5. q = p /\ k = 1
    BY <2>3, <2>4 DEF Apart
  <2>6. QED
    BY <2>2, <2>5
<1>22. Lists(nx2, pv, {e}, box2)
  BY <1>8, <1>16, <1>17, <1>18, <1>20 DEF Lists
<1>23. QED
  BY <1>1, <1>2, <1>4, <1>5, <1>6, <1>12, <1>21, <1>22
(* What the lists hold after push_back() and after pop_front().            *)
LEMMA InAppend ==
    ASSUME NEW box \in Boxes, NEW p \in Process, NEW m \in Msg, NEW x
    PROVE  In([box EXCEPT ![p] = Append(box[p], m)], x) <=> In(box, x) \/ x = m
<1>1. PICK s \in Seq(Msg) : s = box[p]
  BY DEF Boxes
<1>2. PICK t : t = Append(s, m)
  OBVIOUS
<1>3. PICK box2 : box2 = [box EXCEPT ![p] = t]
  OBVIOUS
<1>4. box2[p] = t /\ \A q \in Process : q # p => box2[q] = box[q]
  BY <1>3 DEF Boxes
<1>5. Len(t) = Len(s) + 1 /\ Len(s) \in Nat /\ t[Len(s) + 1] = m /\ \A i \in 1 .. Len(s) : t[i] = s[i]
  BY <1>2
<1>6. ASSUME In(box2, x) PROVE In(box, x) \/ x = m
  <2>0. PICK q \in Process : \E k \in 1 .. Len(box2[q]) : box2[q][k] = x
    BY <1>6 DEF In
  <2>1. PICK i \in 1 .. Len(box2[q]) : box2[q][i] = x
    BY <2>0
  <2>2. CASE q = p
    <3>1. i \in 1 .. Len(s) \/ i = Len(s) + 1
      BY <2>2, <1>4, <1>5
    <3>2. QED
      BY <3>1, <2>1, <2>2, <1>1, <1>4, <1>5 DEF In
  <2>3. CASE q # p
    BY <2>1, <2>3, <1>4 DEF In
  <2>4. QED
    BY <2>2, <2>3
<1>7. ASSUME In(box, x) PROVE In(box2, x)
  <2>0. PICK q \in Process : \E k \in 1 .. Len(box[q]) : box[q][k] = x
    BY <1>7 DEF In
  <2>1. PICK i \in 1 .. Len(box[q]) : box[q][i] = x
    BY <2>0
  <2>2. CASE q = p
    <3>1. i \in 1 .. Len(t) /\ t[i] = x
      BY <2>1, <2>2, <1>1, <1>5
    <3>2. QED
      BY <3>1, <2>2, <1>4 DEF In
  <2>3. CASE q # p
    BY <2>1, <2>3, <1>4 DEF In
  <2>4. QED
    BY <2>2, <2>3
<1>8. In(box2, m)
  <2>1. Len(s) + 1 \in 1 .. Len(t)
    BY <1>5
  <2>2. QED
    BY <2>1, <1>4, <1>5 DEF In
<1>9. QED
  BY <1>1, <1>2, <1>3, <1>6, <1>7, <1>8

LEMMA InTail ==
    ASSUME NEW box \in Boxes, NEW p \in Process, Len(box[p]) > 0, NEW x
    PROVE  /\ In([box EXCEPT ![p] = Tail(box[p])], x) => In(box, x)
           /\ In(box, x) => In([box EXCEPT ![p] = Tail(box[p])], x) \/ x = box[p][1]
<1>1. PICK s \in Seq(Msg) : s = box[p]
  BY DEF Boxes
<1>2. PICK t : t = Tail(s)
  OBVIOUS
<1>3. PICK box2 : box2 = [box EXCEPT ![p] = t]
  OBVIOUS
<1>4. box2[p] = t /\ \A q \in Process : q # p => box2[q] = box[q]
  BY <1>3 DEF Boxes
<1>5. Len(t) = Len(s) - 1 /\ Len(s) \in Nat
  BY <1>1, <1>2, NthTail
<1>6. \A i \in 1 .. Len(s) - 1 : t[i] = s[i + 1]
  BY <1>1, <1>2
<1>7. ASSUME In(box2, x) PROVE In(box, x)
  <2>0. PICK q \in Process : \E k \in 1 .. Len(box2[q]) : box2[q][k] = x
    BY <1>7 DEF In
  <2>1. PICK i \in 1 .. Len(box2[q]) : box2[q][i] = x
    BY <2>0
  <2>2. CASE q = p
    <3>1. i \in 1 .. Len(s) - 1 /\ i + 1 \in 1 .. Len(s)
      BY <2>2, <1>4, <1>5
    <3>2. s[i + 1] = x
      BY <3>1, <2>1, <2>2, <1>4, <1>6
    <3>3. QED
      BY <3>1, <3>2, <1>1 DEF In
  <2>3. CASE q # p
    BY <2>1, <2>3, <1>4 DEF In
  <2>4. QED
    BY <2>2, <2>3
<1>8. ASSUME In(box, x), x # box[p][1] PROVE In(box2, x)
  <2>0. PICK q \in Process : \E k \in 1 .. Len(box[q]) : box[q][k] = x
    BY <1>8 DEF In
  <2>1. PICK i \in 1 .. Len(box[q]) : box[q][i] = x
    BY <2>0
  <2>2. CASE q = p
    <3>1. i # 1
      BY <2>1, <2>2, <1>8
    <3>2. i - 1 \in 1 .. Len(s) - 1 /\ i - 1 + 1 = i
      BY <3>1, <2>1, <2>2, <1>1, <1>5
    <3>3. t[i - 1] = s[i - 1 + 1]
      BY <3>2, <1>6
    <3>4. QED
      BY <3>2, <3>3, <2>1, <2>2, <1>1, <1>4, <1>5 DEF In
  <2>3. CASE q # p
    BY <2>1, <2>3, <1>4 DEF In
  <2>4. QED
    BY <2>2, <2>3
<1>9. QED
  BY <1>1, <1>2, <1>3, <1>7, <1>8

-----------------------------------------------------------------------------
(***************************************************************************)
(* The inductive invariant: there are lists that the links agree with,     *)
(* up to what the operation under way has left to do.                      *)
(***************************************************************************)

(* The link back that is not stored yet.                                   *)
Gap(a, o) == IF a \in {"close", "erase"} THEN {o.after} ELSE {}

(* A node that is about to be hooked is at the end of the list but for     *)
(* one link, and one that was unhooked is in no list.                      *)
Pending(nx, pv, us, a, o, box) ==
    /\ a = "hook" =>
         /\ o.node \in Msg \ us /\ ~In(box, o.node)
         /\ nx[o.node] = o.channel /\ pv[o.node] = o.before
         /\ o.before = Nth(o.channel, box[o.channel], Len(box[o.channel]))
         /\ o.after = o.channel
    /\ a = "close" =>
         /\ o.node = Nth(o.channel, box[o.channel], Len(box[o.channel]))
         /\ o.after = o.channel
    /\ a = "unhook" =>
         /\ Len(box[o.channel]) > 0
         /\ o.node = box[o.channel][1]
         /\ o.before = o.channel
         /\ o.after = Nth(o.channel, box[o.channel], 2)
    /\ a = "erase" =>
         /\ o.node \in Msg \ us
         /\ o.before = o.channel
         /\ o.after = Nth(o.channel, box[o.channel], 1)

(* The lists, and that they hold messages that were sent.                  *)
Good(nx, pv, us, a, o, box) ==
    /\ Lists(nx, pv, Gap(a, o), box)
    /\ \A m \in us : ~In(box, m)
    /\ Pending(nx, pv, us, a, o, box)

(* A message that was sent is in a list, received or in hand.              *)
Kept(us, gt, a, o, box) ==
    \A m \in Msg \ us :
        \/ In(box, m)
        \/ \E p \in Process : \E i \in DOMAIN gt[p] : gt[p][i] = m
        \/ a \in {"hook", "erase"} /\ m = o.node

Inv(w) ==
    /\ TypeOK
    /\ \E box \in Boxes : /\ Good(next, prev, unsent, at[w], op[w], box)
                          /\ Kept(unsent, got, at[w], op[w], box)
-----------------------------------------------------------------------------
(***************************************************************************)
(* Every step keeps the invariant and is, for the mailbox, a step or none. *)
(***************************************************************************)

(* What the mailbox sees of unsent and got during an operation.            *)
Sent(us, a, o) == IF a = "hook" THEN us \cup {o.node} ELSE us

Taken(gt, a, o) ==
    IF a = "erase" THEN [gt EXCEPT ![o.channel] = Append(gt[o.channel], o.node)] ELSE gt

(* Steps of Mailbox from unsent u, box b and got g to u2, b2 and g2.       *)
SendStep(u, b, g, u2, b2, g2) ==
    \E p \in Process : \E m \in u :
        u2 = u \ {m} /\ b2 = [b EXCEPT ![p] = Append(b[p], m)] /\ g2 = g

ReceiveStep(u, b, g, u2, b2, g2) ==
    \E p \in Process :
        /\ b[p] # <<>>
        /\ g2 = [g EXCEPT ![p] = Append(g[p], Head(b[p]))]
        /\ b2 = [b EXCEPT ![p] = Tail(b[p])]
        /\ u2 = u

MailStep(u, b, g, u2, b2, g2) ==
    \/ u2 = u /\ b2 = b /\ g2 = g
    \/ SendStep(u, b, g, u2, b2, g2)
    \/ ReceiveStep(u, b, g, u2, b2, g2)

(* The lists box belong to the state, and the worker w is alone.           *)
Now(w, box) ==
    /\ Worker = {w} /\ TypeOK /\ box \in Boxes
    /\ Good(next, prev, unsent, at[w], op[w], box)
    /\ Kept(unsent, got, at[w], op[w], box)

(* A step from lists box to lists box2.                                    *)
Moves(w, box, box2) ==
    /\ box2 \in Boxes
    /\ Good(next', prev', unsent', at'[w], op'[w], box2)
    /\ Kept(unsent', got', at'[w], op'[w], box2)
    /\ MailStep(Sent(unsent, at[w], op[w]), box, Taken(got, at[w], op[w]),
                Sent(unsent', at'[w], op'[w]), box2, Taken(got', at'[w], op'[w]))

LEMMA SendMoves ==
    ASSUME NEW w, NEW box, Now(w, box), NEW p \in Process, NEW m \in Msg, core_send(w, p, m)
    PROVE  Moves(w, box, box)
<1> DEFINE o == [channel |-> p, node |-> m, before |-> prev[p], after |-> p]
<1>1. w \in Worker /\ TypeOK /\ box \in Boxes /\ p \in Node /\ p # m
  BY NodesAssumption DEF Now, Node
<1>2. at[w] = "run" /\ at'[w] = "hook" /\ op'[w] = o
  BY <1>1 DEF core_send, Does, TypeOK
<1>3. /\ m \in unsent /\ unsent' = unsent \ {m} /\ got' = got
      /\ prev' = [prev EXCEPT ![m] = prev[p]] /\ next' = [next EXCEPT ![m] = p]
  BY DEF core_send
<1>4. Lists(next, prev, {}, box) /\ ~In(box, m) /\ \A x \in unsent : ~In(box, x)
  BY <1>2, <1>3 DEF Now, Good, Gap
<1>5. Lists(next', prev', {}, box)
  BY <1>1, <1>3, <1>4, StoreOutside DEF TypeOK
<1>6. next'[m] = p /\ prev'[m] = prev[p]
  BY <1>1, <1>3 DEF TypeOK, Node
<1>7. prev[p] = Nth(p, box[p], Len(box[p]))
  <2>1. box[p] \in Seq(Msg)
    BY <1>1 DEF Boxes
  <2>2. Nth(p, box[p], Len(box[p]) + 1) = p /\ Len(box[p]) \in Nat
    BY <2>1, NthOf
  <2>3. Len(box[p]) \in 0 .. Len(box[p])
    BY <2>2
  <2>4. QED
    BY <2>2, <2>3, <1>4 DEF Lists, Back
<1>8. Good(next', prev', unsent', "hook", o, box)
  BY <1>3, <1>4, <1>5, <1>6, <1>7 DEF Good, Gap, Pending
<1>9. Kept(unsent', got', "hook", o, box)
  BY <1>2, <1>3 DEF Now, Kept
<1>10. Sent(unsent', "hook", o) = Sent(unsent, at[w], op[w])
  BY <1>2, <1>3 DEF Sent
<1>11. Taken(got', "hook", o) = Taken(got, at[w], op[w])
  BY <1>2, <1>3 DEF Taken
<1>12. QED
  BY <1>1, <1>2, <1>8, <1>9, <1>10, <1>11 DEF Moves, MailStep

LEMMA HookMoves ==
    ASSUME NEW w, NEW box, Now(w, box), hook(w)
    PROVE  \E box2 : Moves(w, box, box2)
<1>1. w \in Worker /\ TypeOK /\ box \in Boxes /\ op[w] \in Operands
  BY DEF Now, TypeOK, hook, Does
<1>2. PICK o \in Operands : o = op[w]
  BY <1>1
<1>3. PICK p \in Process : p = o.channel
  BY DEF Operands
<1>4. PICK m : m = o.node
  OBVIOUS
<1>5. at[w] = "hook" /\ at'[w] = "close" /\ op'[w] = o
  BY <1>1, <1>2 DEF hook, Does, TypeOK
<1>6. next' = [next EXCEPT ![o.before] = m] /\ prev' = prev /\ unsent' = unsent /\ got' = got
  BY <1>2, <1>4 DEF hook
<1>7. Lists(next, prev, {}, box) /\ \A x \in unsent : ~In(box, x)
  BY <1>5 DEF Now, Good, Gap
<1>8. /\ m \in Msg /\ m \notin unsent /\ ~In(box, m) /\ next[m] = p /\ prev[m] = o.before
      /\ o.before = Nth(p, box[p], Len(box[p])) /\ o.after = p
  BY <1>2, <1>3, <1>4, <1>5 DEF Now, Good, Pending
<1>9. PICK box2 : box2 = [box EXCEPT ![p] = Append(box[p], m)]
  OBVIOUS
<1>10. box2 \in Boxes /\ Lists(next', prev', {p}, box2)
  BY <1>1, <1>6, <1>7, <1>8, <1>9, StoreHook DEF TypeOK
<1>11. \A x : In(box2, x) <=> In(box, x) \/ x = m
  BY <1>1, <1>8, <1>9, InAppend
<1>12. m = Nth(p, box2[p], Len(box2[p]))
  <2>1. box[p] \in Seq(Msg) /\ box2[p] = Append(box[p], m)
    BY <1>1, <1>9 DEF Boxes
  <2>2. QED
    BY <2>1, <1>8, NthAppend
<1>13. Good(next', prev', unsent', "close", o, box2)
  BY <1>3, <1>4, <1>6, <1>7, <1>8, <1>10, <1>11, <1>12 DEF Good, Gap, Pending
<1>14. Kept(unsent', got', "close", o, box2)
  BY <1>2, <1>4, <1>5, <1>6, <1>11 DEF Now, Kept
<1>15. /\ Sent(unsent, at[w], op[w]) = unsent \cup {m}
       /\ Sent(unsent', "close", o) = (unsent \cup {m}) \ {m}
  BY <1>2, <1>4, <1>5, <1>6, <1>8 DEF Sent
<1>16. Taken(got', "close", o) = Taken(got, at[w], op[w])
  BY <1>5, <1>6 DEF Taken
<1>17. MailStep(Sent(unsent, at[w], op[w]), box, Taken(got, at[w], op[w]),
                Sent(unsent', "close", o), box2, Taken(got', "close", o))
  BY <1>9, <1>15, <1>16 DEF MailStep, SendStep
<1>18. QED
  BY <1>5, <1>10, <1>13, <1>14, <1>17 DEF Moves

LEMMA CloseMoves ==
    ASSUME NEW w, NEW box, Now(w, box), close(w)
    PROVE  Moves(w, box, box)
<1>1. w \in Worker /\ TypeOK /\ box \in Boxes /\ op[w] \in Operands
  BY DEF Now, TypeOK, close, Does
<1>2. PICK o \in Operands : o = op[w]
  BY <1>1
<1>3. PICK p \in Process : p = o.channel
  BY DEF Operands
<1>4. at[w] = "close" /\ at'[w] = "run" /\ op'[w] = o
  BY <1>1, <1>2 DEF close, Does, TypeOK
<1>5. prev' = [prev EXCEPT ![o.after] = o.node] /\ next' = next /\ unsent' = unsent /\ got' = got
  BY <1>2 DEF close
<1>6. o.node = Nth(p, box[p], Len(box[p])) /\ o.after = p
  BY <1>2, <1>3, <1>4 DEF Now, Good, Pending
<1>7. Lists(next, prev, {p}, box) /\ \A x \in unsent : ~In(box, x)
  BY <1>2, <1>4, <1>6 DEF Now, Good, Gap
<1>8. Nth(p, box[p], Len(box[p]) + 1) = p /\ Len(box[p]) \in 0 .. Len(box[p])
  <2>1. box[p] \in Seq(Msg)
    BY <1>1 DEF Boxes
  <2>2. QED
    BY <2>1, NthOf
<1>9. Lists(next', prev', {}, box)
  <2>1. PICK n \in 0 .. Len(box[p]) : n = Len(box[p])
    BY <1>8
  <2>2. Nth(p, box[p], n + 1) = p /\ Nth(p, box[p], n) = o.node
    BY <2>1, <1>6, <1>8
  <2>3. prev \in [Node -> Node] /\ Lists(next, prev, {Nth(p, box[p], n + 1)}, box)
    BY <2>2, <1>1, <1>7 DEF TypeOK
  <2>4. Lists(next, [prev EXCEPT ![Nth(p, box[p], n + 1)] = Nth(p, box[p], n)], {}, box)
    BY <2>3, <1>1, StoreBack
  <2>5. QED
    BY <2>2, <2>4, <1>5, <1>6
<1>10. Good(next', prev', unsent', "run", o, box)
  BY <1>5, <1>7, <1>9 DEF Good, Gap, Pending
<1>11. Kept(unsent', got', "run", o, box)
  BY <1>4, <1>5 DEF Now, Kept
<1>12. Sent(unsent', "run", o) = Sent(unsent, at[w], op[w]) /\ Taken(got', "run", o) = Taken(got, at[w], op[w])
  BY <1>4, <1>5 DEF Sent, Taken
<1>13. QED
  BY <1>1, <1>4, <1>10, <1>11, <1>12 DEF Moves, MailStep
LEMMA RecvMoves ==
    ASSUME NEW w, NEW box, Now(w, box), NEW p \in Process, execute_recv(w, p)
    PROVE  Moves(w, box, box)
<1>1. w \in Worker /\ TypeOK /\ box \in Boxes /\ p \in Node
  BY DEF Now, Node
<1>2. PICK o : o = [channel |-> p, node |-> next[p], before |-> prev[next[p]], after |-> next[next[p]]]
  OBVIOUS
<1>3. at[w] = "run" /\ at'[w] = "unhook" /\ op'[w] = o
  BY <1>1, <1>2 DEF execute_recv, Does, TypeOK
<1>4. next[p] # p /\ next' = next /\ prev' = prev /\ unsent' = unsent /\ got' = got
  BY DEF execute_recv
<1>5. Lists(next, prev, {}, box) /\ \A x \in unsent : ~In(box, x)
  BY <1>3 DEF Now, Good, Gap
<1>6. PICK s \in Seq(Msg) : s = box[p]
  BY <1>1 DEF Boxes
<1>7. PICK n \in Nat : n = Len(s)
  OBVIOUS
<1>8. /\ \A i \in 0 .. n : next[Nth(p, s, i)] = Nth(p, s, i + 1)
      /\ \A i \in 0 .. n : prev[Nth(p, s, i + 1)] = Nth(p, s, i)
  BY <1>5, <1>6, <1>7 DEF Lists, Chain, Back
<1>9. Nth(p, s, 0) = p /\ Nth(p, s, n + 1) = p
  BY <1>7, NthOf
<1>10. next[p] = Nth(p, s, 1) /\ prev[next[p]] = p
  <2>1. 0 \in 0 .. n /\ 0 + 1 = 1
    OBVIOUS
  <2>2. QED
    BY <2>1, <1>8, <1>9
<1>11. n > 0
  <2>1. SUFFICES ASSUME n = 0 PROVE FALSE
    OBVIOUS
  <2>2. n + 1 = 1
    BY <2>1
  <2>3. QED
    BY <2>2, <1>4, <1>9, <1>10
<1>12. next[p] = s[1]
  <2>1. 1 \in 1 .. Len(s)
    BY <1>7, <1>11
  <2>2. QED
    BY <2>1, <1>10, NthOf
<1>13. next[next[p]] = Nth(p, s, 2)
  <2>1. 1 \in 0 .. n /\ 1 + 1 = 2
    BY <1>11
  <2>2. QED
    BY <2>1, <1>8, <1>10
<1>14. Good(next', prev', unsent', "unhook", o, box)
  BY <1>2, <1>4, <1>5, <1>6, <1>7, <1>10, <1>11, <1>12, <1>13 DEF Good, Gap, Pending
<1>15. Kept(unsent', got', "unhook", o, box)
  BY <1>3, <1>4 DEF Now, Kept
<1>16. Sent(unsent', "unhook", o) = Sent(unsent, at[w], op[w]) /\ Taken(got', "unhook", o) = Taken(got, at[w], op[w])
  BY <1>3, <1>4 DEF Sent, Taken
<1>17. QED
  BY <1>1, <1>3, <1>14, <1>15, <1>16 DEF Moves, MailStep

LEMMA UnhookMoves ==
    ASSUME NEW w, NEW box, Now(w, box), unhook(w)
    PROVE  \E box2 : Moves(w, box, box2)
<1>1. w \in Worker /\ TypeOK /\ box \in Boxes /\ op[w] \in Operands
  BY DEF Now, TypeOK, unhook, Does
<1>2. PICK o \in Operands : o = op[w]
  BY <1>1
<1>3. PICK p \in Process : p = o.channel
  BY DEF Operands
<1>4. at[w] = "unhook" /\ at'[w] = "erase" /\ op'[w] = o
  BY <1>1, <1>2 DEF unhook, Does, TypeOK
<1>5. next' = [next EXCEPT ![o.before] = o.after] /\ prev' = prev /\ unsent' = unsent /\ got' = got
  BY <1>2 DEF unhook
<1>6. Lists(next, prev, {}, box) /\ \A x \in unsent : ~In(box, x)
  BY <1>4 DEF Now, Good, Gap
<1>7. Len(box[p]) > 0 /\ o.node = box[p][1] /\ o.before = p /\ o.after = Nth(p, box[p], 2)
  BY <1>2, <1>3, <1>4 DEF Now, Good, Pending
<1>8. box[p] \in Seq(Msg) /\ got[p] \in Seq(Msg)
  BY <1>1 DEF Boxes, TypeOK
<1>9. box[p] # <<>> /\ Head(box[p]) = o.node /\ o.node \in Msg /\ In(box, o.node)
  <2>1. 1 \in 1 .. Len(box[p]) /\ box[p] # <<>>
    BY <1>7, <1>8
  <2>2. QED
    BY <2>1, <1>7, <1>8 DEF In
<1>10. PICK box2 : box2 = [box EXCEPT ![p] = Tail(box[p])]
  OBVIOUS
<1>11. box2 \in Boxes /\ Lists(next', prev', {o.after}, box2) /\ box2[p] = Tail(box[p])
       /\ Nth(p, Tail(box[p]), 1) = o.after
  <2>1. next \in [Node -> Node] /\ prev \in [Node -> Node] /\ box2[p] = Tail(box[p])
    BY <1>1, <1>10 DEF TypeOK, Boxes
  <2>2. /\ box2 \in Boxes
        /\ Lists([next EXCEPT ![p] = Nth(p, box[p], 2)], prev, {Nth(p, box[p], 2)}, box2)
        /\ Nth(p, Tail(box[p]), 1) = Nth(p, box[p], 2)
    <3>1. /\ [box EXCEPT ![p] = Tail(box[p])] \in Boxes
          /\ Lists([next EXCEPT ![p] = Nth(p, box[p], 2)], prev, {Nth(p, box[p], 2)},
                   [box EXCEPT ![p] = Tail(box[p])])
          /\ Nth(p, Tail(box[p]), 1) = Nth(p, box[p], 2)
      <4>1. box \in Boxes /\ Lists(next, prev, {}, box) /\ Len(box[p]) > 0
        BY <1>1, <1>6, <1>7
      <4>2. next \in [Node -> Node] /\ prev \in [Node -> Node]
        BY <2>1
      <4>3. QED
        BY <4>1, <4>2, StoreUnhook
    <3>2. QED
      BY <3>1, <1>10
  <2>3. QED
    BY <2>1, <2>2, <1>5, <1>7
<1>12. \A x : (In(box2, x) => In(box, x)) /\ (In(box, x) => In(box2, x) \/ x = o.node)
  BY <1>1, <1>7, <1>10, InTail
<1>13. Good(next', prev', unsent', "erase", o, box2)
  BY <1>3, <1>5, <1>6, <1>7, <1>9, <1>11, <1>12 DEF Good, Gap, Pending
<1>14. Kept(unsent', got', "erase", o, box2)
  BY <1>4, <1>5, <1>12 DEF Now, Kept
<1>15. Sent(unsent', "erase", o) = Sent(unsent, at[w], op[w])
  BY <1>4, <1>5 DEF Sent
<1>16. Taken(got', "erase", o) = [Taken(got, at[w], op[w]) EXCEPT ![p] = Append(Taken(got, at[w], op[w])[p], Head(box[p]))]
  BY <1>3, <1>4, <1>5, <1>9 DEF Taken
<1>17. MailStep(Sent(unsent, at[w], op[w]), box, Taken(got, at[w], op[w]),
                Sent(unsent', "erase", o), box2, Taken(got', "erase", o))
  BY <1>9, <1>10, <1>15, <1>16 DEF MailStep, ReceiveStep
<1>18. QED
  BY <1>4, <1>11, <1>13, <1>14, <1>17 DEF Moves

LEMMA EraseMoves ==
    ASSUME NEW w, NEW box, Now(w, box), erase(w)
    PROVE  Moves(w, box, box)
<1>1. w \in Worker /\ TypeOK /\ box \in Boxes /\ op[w] \in Operands
  BY DEF Now, TypeOK, erase, Does
<1>2. PICK o \in Operands : o = op[w]
  BY <1>1
<1>3. PICK p \in Process : p = o.channel
  BY DEF Operands
<1>4. at[w] = "erase" /\ at'[w] = "run" /\ op'[w] = o
  BY <1>1, <1>2 DEF erase, Does, TypeOK
<1>5. /\ prev' = [prev EXCEPT ![o.after] = o.before] /\ next' = next /\ unsent' = unsent
      /\ got' = [got EXCEPT ![p] = Append(got[p], o.node)]
  BY <1>2, <1>3 DEF erase
<1>6. o.before = p /\ o.after = Nth(p, box[p], 1) /\ o.node \in Msg
  BY <1>2, <1>3, <1>4 DEF Now, Good, Pending
<1>7. Lists(next, prev, {o.after}, box) /\ \A x \in unsent : ~In(box, x)
  BY <1>2, <1>4 DEF Now, Good, Gap
<1>8. Lists(next', prev', {}, box)
  <2>1. box[p] \in Seq(Msg)
    BY <1>1 DEF Boxes
  <2>2. Nth(p, box[p], 0) = p /\ Len(box[p]) \in Nat
    BY <2>1, NthOf
  <2>3. PICK n \in 0 .. Len(box[p]) : n = 0
    BY <2>2
  <2>4. Nth(p, box[p], n + 1) = o.after /\ Nth(p, box[p], n) = o.before
    BY <2>2, <2>3, <1>6
  <2>5. prev \in [Node -> Node] /\ Lists(next, prev, {Nth(p, box[p], n + 1)}, box)
    BY <2>4, <1>1, <1>7 DEF TypeOK
  <2>6. Lists(next, [prev EXCEPT ![Nth(p, box[p], n + 1)] = Nth(p, box[p], n)], {}, box)
    BY <2>5, <1>1, StoreBack
  <2>7. QED
    BY <2>4, <2>6, <1>5
<1>9. Good(next', prev', unsent', "run", o, box)
  BY <1>5, <1>7, <1>8 DEF Good, Gap, Pending
<1>10. Kept(unsent', got', "run", o, box)
  <2>1. SUFFICES ASSUME NEW m \in Msg \ unsent
                 PROVE  In(box, m) \/ \E q \in Process : \E i \in DOMAIN got'[q] : got'[q][i] = m
    BY <1>5 DEF Kept
  <2>2. PICK g \in Seq(Msg) : g = got[p]
    BY <1>1 DEF TypeOK
  <2>3. got'[p] = Append(g, o.node) /\ \A q \in Process : q # p => got'[q] = got[q]
    BY <2>2, <1>1, <1>5 DEF TypeOK
  <2>4. /\ Len(g) + 1 \in DOMAIN Append(g, o.node) /\ Append(g, o.node)[Len(g) + 1] = o.node
        /\ \A i \in DOMAIN g : i \in DOMAIN Append(g, o.node) /\ Append(g, o.node)[i] = g[i]
    <3>1. /\ Len(Append(g, o.node)) = Len(g) + 1 /\ Append(g, o.node)[Len(g) + 1] = o.node
          /\ \A i \in 1 .. Len(g) : Append(g, o.node)[i] = g[i]
      OBVIOUS
    <3>2. DOMAIN g = 1 .. Len(g) /\ DOMAIN Append(g, o.node) = 1 .. Len(Append(g, o.node)) /\ Len(g) \in Nat
      BY <1>6
    <3>3. QED
      BY <3>1, <3>2
  <2>5. \/ In(box, m)
        \/ \E q \in Process : \E i \in DOMAIN got[q] : got[q][i] = m
        \/ m = o.node
    BY <1>2, <1>4 DEF Now, Kept
  <2>6. QED
    BY <2>2, <2>3, <2>4, <2>5
<1>11. Sent(unsent', "run", o) = Sent(unsent, at[w], op[w]) /\ Taken(got', "run", o) = Taken(got, at[w], op[w])
  BY <1>2, <1>3, <1>4, <1>5 DEF Sent, Taken
<1>12. QED
  BY <1>1, <1>4, <1>9, <1>10, <1>11 DEF Moves, MailStep
LEMMA StutterMoves ==
    ASSUME NEW w, NEW box, Now(w, box), UNCHANGED vars
    PROVE  Moves(w, box, box)
<1>1. /\ next' = next /\ prev' = prev /\ unsent' = unsent /\ got' = got
      /\ at'[w] = at[w] /\ op'[w] = op[w]
  BY DEF vars
<1>2. QED
  BY <1>1 DEF Now, Moves, MailStep

LEMMA StepMoves ==
    ASSUME NEW w, NEW box, Now(w, box), [Next]_vars
    PROVE  \E box2 : Moves(w, box, box2)
<1>1. Worker = {w}
  BY DEF Now
<1>2. \/ hook(w) \/ close(w) \/ unhook(w) \/ erase(w)
      \/ \E p \in Process : execute_recv(w, p) \/ \E m \in Msg : core_send(w, p, m)
      \/ UNCHANGED vars
  BY <1>1 DEF Next, finish
<1>3. QED
  BY <1>2, SendMoves, HookMoves, CloseMoves, RecvMoves, UnhookMoves, EraseMoves, StutterMoves

(* Types need the invariant only where a node joins what was received.     *)
LEMMA StepTypes ==
    ASSUME NEW w, NEW box, Now(w, box), [Next]_vars
    PROVE  TypeOK'
<1>1. w \in Worker /\ TypeOK /\ Worker = {w} /\ Msg \subseteq Node /\ Process \subseteq Node
  BY DEF Now, Node
<1>2. ASSUME NEW p \in Process, NEW m \in Msg, core_send(w, p, m) PROVE TypeOK'
  <2>1. prev[p] \in Node /\ [channel |-> p, node |-> m, before |-> prev[p], after |-> p] \in Operands
    BY <1>1 DEF TypeOK, Operands
  <2>2. QED
    BY <1>1, <1>2, <2>1 DEF core_send, Does, TypeOK
<1>3. ASSUME hook(w) \/ close(w) \/ unhook(w) PROVE TypeOK'
  <2>1. op[w] \in Operands
    BY <1>1, <1>3 DEF hook, close, unhook, Does, TypeOK
  <2>2. op[w].before \in Node /\ op[w].after \in Node /\ op[w].node \in Node
    BY <1>1, <2>1 DEF Operands
  <2>3. QED
    BY <1>1, <1>3, <2>1, <2>2 DEF hook, close, unhook, Does, TypeOK
<1>4. ASSUME NEW p \in Process, execute_recv(w, p) PROVE TypeOK'
  <2>1. next[p] \in Node
    BY <1>1 DEF TypeOK
  <2>2. prev[next[p]] \in Node /\ next[next[p]] \in Node
    BY <1>1, <2>1 DEF TypeOK
  <2>3. at[w] = "run"
    BY <1>4 DEF execute_recv, Does
  <2>4. next[p] \in Msg
    <3>1. box \in Boxes /\ Lists(next, prev, {}, box)
      BY <2>3 DEF Now, Good, Gap
    <3>2. box[p] \in Seq(Msg) /\ Chain(next, p, box[p])
      BY <3>1 DEF Boxes, Lists
    <3>3. Nth(p, box[p], 0) = p /\ 0 \in 0 .. Len(box[p])
      BY <3>2, NthOf
    <3>4. next[p] = Nth(p, box[p], 1) /\ next[p] # p
      BY <3>2, <3>3, <1>4 DEF Chain, execute_recv
    <3>5. 1 \in DOMAIN box[p]
      BY <3>4 DEF Nth
    <3>6. QED
      BY <3>2, <3>4, <3>5 DEF Nth
  <2>5. [channel |-> p, node |-> next[p], before |-> prev[next[p]], after |-> next[next[p]]] \in Operands
    BY <2>2, <2>4 DEF Operands
  <2>6. QED
    BY <1>1, <1>4, <2>5 DEF execute_recv, Does, TypeOK
<1>5. ASSUME erase(w) PROVE TypeOK'
  <2>1. at[w] = "erase" /\ op[w] \in Operands
    BY <1>1, <1>5 DEF erase, Does, TypeOK
  <2>2. op[w].before \in Node /\ op[w].after \in Node /\ op[w].channel \in Process
    BY <2>1 DEF Operands
  <2>3. op[w].node \in Msg
    BY <2>1 DEF Now, Good, Pending
  <2>4. got' \in [Process -> Seq(Msg)]
    <3>1. Append(got[op[w].channel], op[w].node) \in Seq(Msg)
      BY <1>1, <2>2, <2>3 DEF TypeOK
    <3>2. QED
      BY <3>1, <1>1, <1>5 DEF erase, TypeOK
  <2>5. QED
    BY <1>1, <1>5, <2>1, <2>2, <2>4 DEF erase, Does, TypeOK
<1>6. CASE UNCHANGED vars
  BY <1>1, <1>6 DEF vars, TypeOK
<1>7. QED
  BY <1>1, <1>2, <1>3, <1>4, <1>5, <1>6 DEF Next, finish

-----------------------------------------------------------------------------
LEMMA InitNow ==
    ASSUME NEW w, Worker = {w}, Init
    PROVE  Now(w, [p \in Process |-> <<>>])
<1> DEFINE box == [p \in Process |-> <<>>]
<1>1. box \in Boxes /\ w \in Worker /\ at[w] = "run"
  BY DEF Boxes, Init
<1>2. TypeOK
  BY DEF Init, TypeOK
<1>3. \A p \in Process : box[p] = <<>> /\ Len(box[p]) = 0
  OBVIOUS
<1>4. \A p \in Process : \A i \in Int : Nth(p, box[p], i) = p
  BY <1>3 DEF Nth
<1>5. \A p \in Process : p \in Node /\ next[p] = p /\ prev[p] = p
  BY DEF Init, Node
<1>6. \A p \in Process : Chain(next, p, box[p]) /\ Back(prev, {}, p, box[p])
  BY <1>3, <1>4, <1>5 DEF Chain, Back
<1>7. Apart(box) /\ \A x : ~In(box, x)
  BY <1>3 DEF Apart, In
<1>8. Good(next, prev, unsent, at[w], op[w], box)
  BY <1>1, <1>6, <1>7 DEF Good, Lists, Gap, Pending
<1>9. Kept(unsent, got, at[w], op[w], box)
  BY DEF Kept, Init
<1>10. QED
  BY <1>1, <1>2, <1>8, <1>9 DEF Now

LEMMA NowInv == ASSUME NEW w, Worker = {w} PROVE Inv(w) <=> \E box : Now(w, box)
BY DEF Inv, Now

THEOREM Invariance == ASSUME NEW w, Worker = {w} PROVE Spec => []Inv(w)
<1>1. Init => Inv(w)
  BY InitNow, NowInv
<1>2. Inv(w) /\ [Next]_vars => Inv(w)'
  <2>1. SUFFICES ASSUME Inv(w), [Next]_vars PROVE Inv(w)'
    OBVIOUS
  <2>2. PICK box : Now(w, box)
    BY <2>1, NowInv
  <2>3. PICK box2 : Moves(w, box, box2)
    BY <2>1, <2>2, StepMoves
  <2>4. TypeOK'
    BY <2>1, <2>2, StepTypes
  <2>5. QED
    BY <2>3, <2>4 DEF Moves, Inv
<1>3. QED
  BY <1>1, <1>2, PTL DEF Spec
-----------------------------------------------------------------------------
(***************************************************************************)
(* The mailbox that Channel's definitions show is the one of the lists.    *)
(***************************************************************************)
LEMMA View ==
    ASSUME NEW w, NEW box, Now(w, box)
    PROVE  /\ unsent \cup Pushing = Sent(unsent, at[w], op[w])
           /\ [p \in Process |-> Contents(p)] = box
           /\ [p \in Process |-> Received(p)] = Taken(got, at[w], op[w])
<1>1. Worker = {w} /\ TypeOK /\ box \in Boxes
  BY DEF Now
<1>2. unsent \cup Pushing = Sent(unsent, at[w], op[w])
  <2>1. Pushing = IF at[w] = "hook" THEN {op[w].node} ELSE {}
    BY <1>1 DEF Pushing
  <2>2. QED
    BY <2>1 DEF Sent
<1>3. \A p \in Process : Contents(p) = box[p]
  <2>1. SUFFICES ASSUME NEW p \in Process PROVE Contents(p) = box[p]
    OBVIOUS
  <2>2. Apart(box) /\ Chain(next, p, box[p])
    BY DEF Now, Good, Lists
  <2>3. Contents(p) = QueueOf(next, p)
    BY DEF Contents, QueueOf, Leads, Chain
  <2>4. QED
    BY <2>2, <2>3, <1>1, QueueIs
<1>4. \A p \in Process : Received(p) = Taken(got, at[w], op[w])[p]
  <2>1. SUFFICES ASSUME NEW p \in Process PROVE Received(p) = Taken(got, at[w], op[w])[p]
    OBVIOUS
  <2>2. CASE at[w] = "erase" /\ op[w].channel = p
    <3>1. {op[v].node : v \in {v \in Worker : at[v] = "erase" /\ op[v].channel = p}} = {op[w].node}
      BY <1>1, <2>2
    <3>2. Received(p) = Append(got[p], op[w].node)
      BY <3>1 DEF Received
    <3>3. QED
      BY <3>2, <2>2, <1>1 DEF Taken, TypeOK
  <2>3. CASE ~(at[w] = "erase" /\ op[w].channel = p)
    <3>1. {op[v].node : v \in {v \in Worker : at[v] = "erase" /\ op[v].channel = p}} = {}
      BY <1>1, <2>3
    <3>2. Received(p) = got[p]
      BY <3>1 DEF Received
    <3>3. QED
      BY <3>2, <2>3, <1>1 DEF Taken, TypeOK
  <2>4. QED
    BY <2>2, <2>3
<1>5. Taken(got, at[w], op[w]) = [p \in Process |-> Taken(got, at[w], op[w])[p]]
  BY <1>1 DEF Taken, TypeOK
<1>6. [p \in Process |-> Contents(p)] = box
  BY <1>1, <1>3 DEF Boxes
<1>7. [p \in Process |-> Received(p)] = Taken(got, at[w], op[w])
  BY <1>4, <1>5
<1>8. QED
  BY <1>2, <1>6, <1>7

(* The same of the state a step leads to.                                  *)
LEMMA ViewNext ==
    ASSUME NEW w, Worker = {w}, NEW box \in Boxes, TypeOK',
           Good(next', prev', unsent', at'[w], op'[w], box)
    PROVE  /\ (unsent \cup Pushing)' = Sent(unsent', at'[w], op'[w])
           /\ [p \in Process |-> Contents(p)]' = box
           /\ [p \in Process |-> Received(p)]' = Taken(got', at'[w], op'[w])
<1>2. (unsent \cup Pushing)' = Sent(unsent', at'[w], op'[w])
  <2>1. Pushing' = IF at'[w] = "hook" THEN {op'[w].node} ELSE {}
    BY DEF Pushing
  <2>2. QED
    BY <2>1 DEF Sent
<1>3. \A p \in Process : Contents(p)' = box[p]
  <2>1. SUFFICES ASSUME NEW p \in Process PROVE Contents(p)' = box[p]
    OBVIOUS
  <2>2. Apart(box) /\ Chain(next', p, box[p])
    BY DEF Good, Lists
  <2>3. Contents(p)' = QueueOf(next', p)
    BY DEF Contents, QueueOf, Leads, Chain
  <2>4. QED
    BY <2>2, <2>3, QueueIs
<1>4. \A p \in Process : Received(p)' = Taken(got', at'[w], op'[w])[p]
  <2>1. SUFFICES ASSUME NEW p \in Process PROVE Received(p)' = Taken(got', at'[w], op'[w])[p]
    OBVIOUS
  <2>2. CASE at'[w] = "erase" /\ op'[w].channel = p
    <3>1. {op[v].node : v \in {v \in Worker : at[v] = "erase" /\ op[v].channel = p}}' = {op'[w].node}
      BY <2>2
    <3>2. Received(p)' = Append(got'[p], op'[w].node)
      BY <3>1 DEF Received
    <3>3. QED
      BY <3>2, <2>2 DEF Taken, TypeOK
  <2>3. CASE ~(at'[w] = "erase" /\ op'[w].channel = p)
    <3>1. {op[v].node : v \in {v \in Worker : at[v] = "erase" /\ op[v].channel = p}}' = {}
      BY <2>3
    <3>2. Received(p)' = got'[p]
      BY <3>1 DEF Received
    <3>3. QED
      BY <3>2, <2>3 DEF Taken, TypeOK
  <2>4. QED
    BY <2>2, <2>3
<1>5. Taken(got', at'[w], op'[w]) = [p \in Process |-> Taken(got', at'[w], op'[w])[p]]
  BY DEF Taken, TypeOK
<1>6. [p \in Process |-> Contents(p)]' = box
  BY <1>3 DEF Boxes
<1>7. [p \in Process |-> Received(p)]' = Taken(got', at'[w], op'[w])
  BY <1>4, <1>5
<1>8. QED
  BY <1>2, <1>6, <1>7

(* Every step is one of the mailbox or none.                               *)
LEMMA Simulates ==
    ASSUME NEW w, Worker = {w}, Inv(w), [Next]_vars
    PROVE  [Promise!Next]_(Promise!vars)
<1>1. PICK box : Now(w, box)
  BY NowInv
<1>2. PICK box2 : Moves(w, box, box2)
  BY <1>1, StepMoves
<1>3. TypeOK'
  BY <1>1, StepTypes
<1>4. PICK u, b, g : u = unsent \cup Pushing /\ b = [p \in Process |-> Contents(p)]
                     /\ g = [p \in Process |-> Received(p)]
  OBVIOUS
<1>5. PICK u2, b2, g2 : /\ u2 = (unsent \cup Pushing)'
                        /\ b2 = [p \in Process |-> Contents(p)]'
                        /\ g2 = [p \in Process |-> Received(p)]'
  OBVIOUS
<1>6. u = Sent(unsent, at[w], op[w]) /\ b = box /\ g = Taken(got, at[w], op[w])
  BY <1>1, <1>4, View
<1>7. u2 = Sent(unsent', at'[w], op'[w]) /\ b2 = box2 /\ g2 = Taken(got', at'[w], op'[w])
  BY <1>2, <1>3, <1>5, ViewNext DEF Moves
<1>8. MailStep(u, b, g, u2, b2, g2)
  BY <1>2, <1>6, <1>7 DEF Moves
<1>9. CASE u2 = u /\ b2 = b /\ g2 = g
  BY <1>4, <1>5, <1>9 DEF Promise!vars
<1>10. CASE SendStep(u, b, g, u2, b2, g2)
  <2>1. PICK p \in Process, m \in Msg : /\ m \in u /\ u2 = u \ {m}
                                         /\ b2 = [b EXCEPT ![p] = Append(b[p], m)] /\ g2 = g
    <3>1. u \subseteq Msg
      BY <1>1, <1>6 DEF Now, TypeOK, Good, Pending, Sent
    <3>2. QED
      BY <3>1, <1>10 DEF SendStep
  <2>2. Promise!Send(p, m)
    BY <2>1, <1>4, <1>5 DEF Promise!Send
  <2>3. QED
    BY <2>1, <2>2 DEF Promise!Next
<1>11. CASE ReceiveStep(u, b, g, u2, b2, g2)
  <2>1. PICK p \in Process : /\ b[p] # <<>> /\ g2 = [g EXCEPT ![p] = Append(g[p], Head(b[p]))]
                             /\ b2 = [b EXCEPT ![p] = Tail(b[p])] /\ u2 = u
    BY <1>11 DEF ReceiveStep
  <2>2. Promise!Receive(p)
    BY <2>1, <1>4, <1>5 DEF Promise!Receive
  <2>3. QED
    BY <2>1, <2>2 DEF Promise!Next
<1>12. QED
  BY <1>8, <1>9, <1>10, <1>11 DEF MailStep
-----------------------------------------------------------------------------
(* Lists that are not being changed hold exactly what Linked() finds.      *)
LEMMA LinkedIs ==
    ASSUME NEW box \in Boxes, NEW p \in Process, Chain(next, p, box[p]), NEW n
    PROVE  n \in Linked(p) <=> \E i \in 0 .. Len(box[p]) : n = Nth(p, box[p], i)
<1> DEFINE on == {Nth(p, box[p], i) : i \in 0 .. Len(box[p])}
<1>1. box[p] \in Seq(Msg) /\ Len(box[p]) \in Nat
  BY DEF Boxes
<1>2. Nth(p, box[p], 0) = p /\ Nth(p, box[p], Len(box[p]) + 1) = p
  BY <1>1, NthOf
<1>3. ASSUME n \in Linked(p) PROVE n \in on
  <2>1. on \in SUBSET Node
    BY <1>1, NthType
  <2>2. p \in on
    <3>1. 0 \in 0 .. Len(box[p])
      BY <1>1
    <3>2. QED
      BY <3>1, <1>2
  <2>3. ASSUME NEW x \in on PROVE next[x] \in on
    <3>1. PICK i \in 0 .. Len(box[p]) : x = Nth(p, box[p], i)
      OBVIOUS
    <3>2. next[x] = Nth(p, box[p], i + 1)
      BY <3>1 DEF Chain
    <3>3. i + 1 \in 0 .. Len(box[p]) \/ i + 1 = Len(box[p]) + 1
      BY <1>1
    <3>4. CASE i + 1 \in 0 .. Len(box[p])
      BY <3>2, <3>4
    <3>5. CASE i + 1 = Len(box[p]) + 1
      BY <3>2, <3>5, <1>2, <2>2
    <3>6. QED
      BY <3>3, <3>4, <3>5
  <2>4. QED
    BY <2>1, <2>2, <2>3, <1>3 DEF Linked
<1>4. ASSUME NEW k \in 0 .. Len(box[p]) PROVE Nth(p, box[p], k) \in Linked(p)
  <2>1. SUFFICES ASSUME NEW S \in SUBSET Node, p \in S, \A x \in S : next[x] \in S
                 PROVE  Nth(p, box[p], k) \in S
    <3>1. Nth(p, box[p], k) \in Node
      BY <1>1, NthType
    <3>2. QED
      BY <3>1 DEF Linked
  <2> DEFINE out == {i \in 0 .. Len(box[p]) : Nth(p, box[p], i) \notin S}
  <2>2. SUFFICES ASSUME out # {} PROVE FALSE
    OBVIOUS
  <2>3. out \in SUBSET Nat
    BY <1>1
  <2>4. PICK i \in out : \A j \in out : i <= j
    BY <2>2, <2>3, Least
  <2>5. i \in 0 .. Len(box[p]) /\ Nth(p, box[p], i) \notin S
    BY <2>4
  <2>6. i # 0
    BY <2>1, <2>5, <1>2
  <2>7. i - 1 \in 0 .. Len(box[p]) /\ i - 1 \notin out /\ i - 1 + 1 = i
    BY <2>4, <2>5, <2>6, <1>1
  <2>8. Nth(p, box[p], i - 1) \in S
    BY <2>7
  <2>9. next[Nth(p, box[p], i - 1)] = Nth(p, box[p], i - 1 + 1)
    BY <2>7 DEF Chain
  <2>10. QED
    BY <2>1, <2>5, <2>7, <2>8, <2>9
<1>5. QED
  BY <1>3, <1>4

-----------------------------------------------------------------------------
(***************************************************************************)
(* The theorems.                                                           *)
(***************************************************************************)

(* The nodes of the lists link to nodes, and only messages are received,   *)
(* when one worker runs every process.                                     *)
THEOREM ChannelTypes == ASSUME NEW w, Worker = {w} PROVE Spec => []TypeOK
<1>1. Inv(w) => TypeOK
  BY DEF Inv
<1>2. QED
  BY <1>1, Invariance, PTL

(* Between operations of the only worker the links of every list agree in  *)
(* both directions, so that push_back() appends to what pop_front() reads. *)
THEOREM RingsWhole == ASSUME NEW w, Worker = {w} PROVE Spec => []RingWhole
<1>1. Inv(w) => RingWhole
  <2>1. SUFFICES ASSUME Inv(w), AllRun, NEW p \in Process, NEW n \in Linked(p)
                 PROVE  prev[next[n]] = n
    BY DEF RingWhole
  <2>2. PICK box : Now(w, box)
    BY <2>1, NowInv
  <2>3. box \in Boxes /\ Lists(next, prev, {}, box)
    BY <2>1, <2>2 DEF Now, AllRun, Good, Gap
  <2>4. Chain(next, p, box[p]) /\ Back(prev, {}, p, box[p])
    BY <2>3 DEF Lists
  <2>5. PICK i \in 0 .. Len(box[p]) : n = Nth(p, box[p], i)
    BY <2>1, <2>3, <2>4, LinkedIs
  <2>6. QED
    BY <2>4, <2>5 DEF Chain, Back
<1>2. QED
  BY <1>1, Invariance, PTL

(* With one worker no message is lost: between its operations each that    *)
(* was sent is in a list or was received.  Two workers lose some.          *)
THEOREM NothingLost == ASSUME NEW w, Worker = {w} PROVE Spec => []NoMessageLost
<1>1. Inv(w) => NoMessageLost
  <2>1. SUFFICES ASSUME Inv(w), AllRun, NEW m \in Msg \ unsent
                 PROVE  \E p \in Process :
                          m \in Linked(p) \/ \E i \in DOMAIN got[p] : got[p][i] = m
    BY DEF NoMessageLost
  <2>2. PICK box : Now(w, box)
    BY <2>1, NowInv
  <2>3. box \in Boxes /\ Lists(next, prev, {}, box) /\ at[w] = "run"
    BY <2>1, <2>2 DEF Now, AllRun, Good, Gap
  <2>4. In(box, m) \/ \E p \in Process : \E i \in DOMAIN got[p] : got[p][i] = m
    BY <2>2, <2>3 DEF Now, Kept
  <2>5. CASE In(box, m)
    <3>1. PICK p \in Process : \E k \in 1 .. Len(box[p]) : box[p][k] = m
      BY <2>5 DEF In
    <3>2. PICK i \in 1 .. Len(box[p]) : box[p][i] = m
      BY <3>1
    <3>3. box[p] \in Seq(Msg)
      BY <2>3 DEF Boxes
    <3>4. Nth(p, box[p], i) = m /\ i \in 0 .. Len(box[p])
      <4>1. \A k \in 1 .. Len(box[p]) : Nth(p, box[p], k) = box[p][k]
        BY <3>3, NthOf
      <4>2. QED
        BY <4>1, <3>2
    <3>5. Chain(next, p, box[p])
      BY <2>3 DEF Lists
    <3>6. m \in Linked(p)
      BY <2>3, <3>4, <3>5, LinkedIs
    <3>7. QED
      BY <3>6
  <2>6. QED
    BY <2>4, <2>5
<1>2. QED
  BY <1>1, Invariance, PTL

(* With one worker the links and their stores implement the mailbox:       *)
(* messages are received once, by the process they were sent to, in the    *)
(* order of sending.                                                       *)
THEOREM ImplementsMailbox ==
    ASSUME NEW w, Worker = {w}
    PROVE  Spec => Promise!Init /\ [][Promise!Next]_(Promise!vars)
<1>1. Init => Promise!Init
  <2>1. SUFFICES ASSUME Init PROVE Promise!Init
    OBVIOUS
  <2>2. PICK box : box = [p \in Process |-> <<>>]
    OBVIOUS
  <2>3. Now(w, box)
    BY <2>1, <2>2, InitNow
  <2>4. at[w] = "run" /\ unsent = Msg /\ got = [p \in Process |-> <<>>]
    BY <2>1 DEF Init
  <2>5. unsent \cup Pushing = Msg /\ [p \in Process |-> Received(p)] = got
    BY <2>3, <2>4, View DEF Sent, Taken
  <2>6. [p \in Process |-> Contents(p)] = box
    BY <2>3, View
  <2>7. QED
    BY <2>2, <2>4, <2>5, <2>6 DEF Promise!Init
<1>2. Inv(w) /\ [Next]_vars => [Promise!Next]_(Promise!vars)
  BY Simulates
<1>3. QED
  BY <1>1, <1>2, Invariance, PTL DEF Spec
=============================================================================
