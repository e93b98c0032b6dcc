------------------------------- MODULE Queues -------------------------------
(***************************************************************************)
(* What push_back(), front() and pop_front() do to a std::list that is     *)
(* modelled as a sequence, facts about sequences whose elements are in no  *)
(* set that could be named, and induction: the lemmas the proofs share.    *)
(***************************************************************************)
EXTENDS Integers, Sequences, Functions, SequenceTheorems, WellFoundedInduction, TLAPS

(* An empty list holds nothing.                                            *)
LEMMA EmptyQueue == Range(<<>>) = {} /\ IsInjective(<<>>)
BY DEF Range, IsInjective

(* push_back() adds one frame, and a frame that was not queued is then     *)
(* queued once.                                                            *)
LEMMA PushBack ==
    ASSUME NEW S, NEW q \in Seq(S), NEW f \in S
    PROVE  /\ Append(q, f) \in Seq(S)
           /\ Range(Append(q, f)) = Range(q) \cup {f}
           /\ IsInjective(q) /\ f \notin Range(q) => IsInjective(Append(q, f))
<1>1. Append(q, f) \in Seq(S) /\ Len(Append(q, f)) = Len(q) + 1
  OBVIOUS
<1>2. \A i \in 1 .. Len(q) : Append(q, f)[i] = q[i]
  OBVIOUS
<1>3. Append(q, f)[Len(q) + 1] = f
  OBVIOUS
<1>4. DOMAIN Append(q, f) = 1 .. Len(q) + 1 /\ DOMAIN q = 1 .. Len(q)
  BY <1>1
<1>5. Len(q) \in Nat
  OBVIOUS
<1>6. Range(Append(q, f)) = Range(q) \cup {f}
  <2>1. ASSUME NEW x \in Range(Append(q, f)) PROVE x \in Range(q) \cup {f}
    <3>1. PICK i \in 1 .. Len(q) + 1 : x = Append(q, f)[i]
      BY <1>4 DEF Range
    <3>2. CASE i = Len(q) + 1
      BY <3>1, <3>2, <1>3
    <3>3. CASE i \in 1 .. Len(q)
      BY <3>1, <3>3, <1>2, <1>4 DEF Range
    <3>4. QED
      BY <3>2, <3>3, <1>5
  <2>2. f \in Range(Append(q, f))
    BY <1>3, <1>4, <1>5 DEF Range
  <2>3. ASSUME NEW x \in Range(q) PROVE x \in Range(Append(q, f))
    <3>1. PICK i \in 1 .. Len(q) : x = q[i]
      BY <1>4 DEF Range
    <3>2. i \in 1 .. Len(q) + 1 /\ x = Append(q, f)[i]
      BY <3>1, <1>2, <1>5
    <3>3. QED
      BY <3>2, <1>4 DEF Range
  <2>4. QED
    BY <2>1, <2>2, <2>3
<1>7. ASSUME IsInjective(q), f \notin Range(q) PROVE IsInjective(Append(q, f))
  <2>1. SUFFICES ASSUME NEW i \in 1 .. Len(q) + 1, NEW j \in 1 .. Len(q) + 1,
                        Append(q, f)[i] = Append(q, f)[j]
                 PROVE  i = j
    BY <1>4 DEF IsInjective
  <2>2. \A k \in 1 .. Len(q) : q[k] # f
    BY <1>7, <1>4 DEF Range
  <2>3. CASE i \in 1 .. Len(q) /\ j \in 1 .. Len(q)
    BY <2>1, <2>3, <1>2, <1>4, <1>7 DEF IsInjective
  <2>4. CASE i = Len(q) + 1 \/ j = Len(q) + 1
    BY <2>1, <2>2, <2>4, <1>2, <1>3, <1>5
  <2>5. QED
    BY <2>3, <2>4, <1>5
<1>8. QED
  BY <1>1, <1>6, <1>7

(* front() and pop_front() take one frame, which is then no longer queued. *)
LEMMA PopFront ==
    ASSUME NEW S, NEW q \in Seq(S), q # <<>>
    PROVE  /\ Head(q) \in S
           /\ Tail(q) \in Seq(S)
           /\ Range(q) = Range(Tail(q)) \cup {Head(q)}
           /\ IsInjective(q) => IsInjective(Tail(q)) /\ Head(q) \notin Range(Tail(q))
<1>1. Len(q) \in Nat /\ Len(q) > 0 /\ DOMAIN q = 1 .. Len(q)
  OBVIOUS
<1>2. Head(q) \in S /\ Head(q) = q[1] /\ Tail(q) \in Seq(S)
  BY <1>1
<1>3. DOMAIN Tail(q) = 1 .. Len(q) - 1
  BY <1>1
<1>4. \A i \in 1 .. Len(q) - 1 : Tail(q)[i] = q[i + 1]
  BY <1>1
<1>5. Range(q) = Range(Tail(q)) \cup {Head(q)}
  <2>1. ASSUME NEW x \in Range(q) PROVE x \in Range(Tail(q)) \cup {Head(q)}
    <3>1. PICK i \in 1 .. Len(q) : x = q[i]
      BY <1>1 DEF Range
    <3>2. CASE i = 1
      BY <3>1, <3>2, <1>2
    <3>3. CASE i # 1
      <4>1. i - 1 \in 1 .. Len(q) - 1 /\ Tail(q)[i - 1] = x
        BY <3>1, <3>3, <1>1, <1>4
      <4>2. QED
        BY <4>1, <1>3 DEF Range
    <3>4. QED
      BY <3>2, <3>3
  <2>2. Head(q) \in Range(q)
    BY <1>1, <1>2 DEF Range
  <2>3. ASSUME NEW x \in Range(Tail(q)) PROVE x \in Range(q)
    <3>1. PICK i \in 1 .. Len(q) - 1 : x = Tail(q)[i]
      BY <1>3 DEF Range
    <3>2. i + 1 \in 1 .. Len(q) /\ x = q[i + 1]
      BY <3>1, <1>1, <1>4
    <3>3. QED
      BY <3>2, <1>1 DEF Range
  <2>4. QED
    BY <2>1, <2>2, <2>3
<1>6. ASSUME IsInjective(q)
      PROVE  IsInjective(Tail(q)) /\ Head(q) \notin Range(Tail(q))
  <2>1. \A i, j \in 1 .. Len(q) : q[i] = q[j] => i = j
    BY <1>6, <1>1 DEF IsInjective
  <2>2. IsInjective(Tail(q))
    <3>1. SUFFICES ASSUME NEW i \in 1 .. Len(q) - 1, NEW j \in 1 .. Len(q) - 1,
                          Tail(q)[i] = Tail(q)[j]
                   PROVE  i = j
      BY <1>3 DEF IsInjective
    <3>2. i + 1 \in 1 .. Len(q) /\ j + 1 \in 1 .. Len(q) /\ q[i + 1] = q[j + 1]
      BY <3>1, <1>1, <1>4
    <3>3. i + 1 = j + 1
      BY <3>2, <2>1
    <3>4. QED
      BY <3>3
  <2>3. ASSUME NEW i \in 1 .. Len(q) - 1 PROVE Tail(q)[i] # Head(q)
    BY <2>1, <1>1, <1>2, <1>4
  <2>4. QED
    BY <2>2, <2>3, <1>3 DEF Range
<1>7. QED
  BY <1>2, <1>5, <1>6

-----------------------------------------------------------------------------
(* A sequence of anything.                                                 *)
IsSequence(s) == Len(s) \in Nat /\ s = [k \in 1 .. Len(s) |-> s[k]]

LEMMA SequenceLength ==
    ASSUME NEW s, NEW n \in Nat, s = [k \in 1 .. n |-> s[k]]
    PROVE  IsSequence(s) /\ Len(s) = n /\ DOMAIN s = 1 .. n
<1>1. DOMAIN s = 1 .. n
  OBVIOUS
<1>2. Len(s) = n
  BY <1>1
<1>3. QED
  BY <1>1, <1>2 DEF IsSequence

LEMMA SequenceDomain == ASSUME NEW s, IsSequence(s) PROVE Len(s) \in Nat /\ DOMAIN s = 1 .. Len(s)
BY DEF IsSequence

LEMMA SeqSequence == ASSUME NEW S, NEW s \in Seq(S) PROVE IsSequence(s)
<1>1. PICK n \in Nat : s \in [1 .. n -> S]
  BY SeqDef
<1>2. s = [k \in 1 .. n |-> s[k]]
  BY <1>1
<1>3. QED
  BY <1>2, SequenceLength

LEMMA EmptySequence == IsSequence(<<>>) /\ Len(<<>>) = 0
<1>1. Len(<<>>) = 0 /\ <<>> = [k \in 1 .. 0 |-> <<>>[k]]
  OBVIOUS
<1>2. QED
  BY <1>1 DEF IsSequence

LEMMA AppendSequence ==
    ASSUME NEW s, IsSequence(s), NEW x
    PROVE  /\ IsSequence(Append(s, x)) /\ Len(Append(s, x)) = Len(s) + 1
           /\ Append(s, x)[Len(s) + 1] = x
           /\ \A k \in DOMAIN s : k \in DOMAIN Append(s, x) /\ Append(s, x)[k] = s[k]
           /\ DOMAIN Append(s, x) = DOMAIN s \cup {Len(s) + 1}
<1> DEFINE S == {s[k] : k \in DOMAIN s} \cup {x}
<1>1. Len(s) \in Nat /\ DOMAIN s = 1 .. Len(s) /\ s = [k \in 1 .. Len(s) |-> s[k]]
  BY DEF IsSequence
<1>2. x \in S /\ \A k \in 1 .. Len(s) : s[k] \in S
  BY <1>1
<1> HIDE DEF S
<1>s. s \in Seq(S)
  BY <1>1, <1>2
<1>3. /\ Append(s, x) \in Seq(S) /\ Len(Append(s, x)) = Len(s) + 1
      /\ Append(s, x)[Len(s) + 1] = x
      /\ \A k \in 1 .. Len(s) : Append(s, x)[k] = s[k]
  BY <1>1, <1>2, <1>s
<1>4. DOMAIN Append(s, x) = 1 .. Len(s) + 1
  BY <1>1, <1>3
<1>5. IsSequence(Append(s, x))
  BY <1>3, SeqSequence
<1>6. QED
  BY <1>1, <1>3, <1>4, <1>5 DEF IsSequence

LEMMA ConcatSequence ==
    ASSUME NEW s, IsSequence(s), NEW t, IsSequence(t)
    PROVE  /\ IsSequence(s \o t) /\ Len(s \o t) = Len(s) + Len(t)
           /\ \A k \in DOMAIN s : (s \o t)[k] = s[k]
           /\ \A k \in DOMAIN t : (s \o t)[Len(s) + k] = t[k]
<1>1. /\ Len(s) \in Nat /\ DOMAIN s = 1 .. Len(s) /\ s = [k \in 1 .. Len(s) |-> s[k]]
      /\ Len(t) \in Nat /\ DOMAIN t = 1 .. Len(t) /\ t = [k \in 1 .. Len(t) |-> t[k]]
  BY DEF IsSequence
<1> DEFINE S == {s[k] : k \in DOMAIN s} \cup {t[k] : k \in DOMAIN t}
<1>2. (\A k \in 1 .. Len(s) : s[k] \in S) /\ \A k \in 1 .. Len(t) : t[k] \in S
  BY <1>1
<1> HIDE DEF S
<1>4. s \in Seq(S) /\ t \in Seq(S)
  BY <1>1, <1>2
<1>5. /\ s \o t \in Seq(S) /\ Len(s \o t) = Len(s) + Len(t)
      /\ \A k \in 1 .. Len(s) : (s \o t)[k] = s[k]
      /\ \A k \in 1 .. Len(t) : (s \o t)[Len(s) + k] = t[k]
  BY <1>1, <1>4
<1>6. IsSequence(s \o t)
  BY <1>5, SeqSequence
<1>7. QED
  BY <1>1, <1>5, <1>6 DEF IsSequence

LEMMA ExceptSequence ==
    ASSUME NEW s, IsSequence(s), NEW k, NEW x
    PROVE  IsSequence([s EXCEPT ![k] = x]) /\ Len([s EXCEPT ![k] = x]) = Len(s)
<1>1. Len(s) \in Nat /\ s = [j \in 1 .. Len(s) |-> s[j]]
  BY DEF IsSequence
<1>2. [s EXCEPT ![k] = x] = [j \in 1 .. Len(s) |-> [s EXCEPT ![k] = x][j]]
  BY <1>1
<1>3. QED
  BY <1>1, <1>2, SequenceLength

-----------------------------------------------------------------------------
(***************************************************************************)
(* Induction.                                                              *)
(***************************************************************************)
(* Below is well founded on the naturals, so a set of them has a least.    *)
Lower == {ss \in Nat \X Nat : ss[1] < ss[2]}

LEMMA Least ==
    ASSUME NEW S \in SUBSET Nat, S # {}
    PROVE  \E n \in S : \A m \in S : n <= m
<1>1. OpToRel(<, Nat) = Lower
  BY Zenon DEF OpToRel, Lower
<1>2. IsWellFoundedOn(Lower, Nat)
  BY <1>1, NatLessThanWellFounded, Zenon
<1>3. PICK n \in S : \A m \in S : ~(<<m, n>> \in Lower)
  BY <1>2, WFMin, Zenon
<1>4. \A m \in S : ~(m < n)
  BY <1>3 DEF Lower
<1>5. QED
  BY <1>4

(* Induction up to n, where S stands for what is proved.                   *)
LEMMA UpTo ==
    ASSUME NEW n \in Nat, NEW S, 0 \in S, \A k \in 0 .. n : k # n /\ k \in S => k + 1 \in S
    PROVE  \A k \in 0 .. n : k \in S
<1> DEFINE out == {k \in 0 .. n : k \notin S}
<1>1. SUFFICES ASSUME out # {} PROVE FALSE
  OBVIOUS
<1>2. out \in SUBSET Nat
  OBVIOUS
<1> HIDE DEF out
<1>3. PICK k \in out : \A m \in out : k <= m
  BY <1>1, <1>2, Least
<1>4. k \in 0 .. n /\ k \notin S /\ k # 0
  BY DEF out
<1>5. k - 1 \in 0 .. n /\ k - 1 \notin out /\ k - 1 # n /\ k - 1 + 1 = k
  BY <1>3, <1>4
<1>6. k - 1 \in S
  BY <1>5 DEF out
<1>7. QED
  BY <1>4, <1>5, <1>6
=============================================================================
