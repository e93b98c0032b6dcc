-------------------------- MODULE ApplicationProof --------------------------
(***************************************************************************)
(* Proofs about Application for every number of workers and processes.     *)
(***************************************************************************)
EXTENDS Application, Queues, FiniteSetTheorems, TLAPS

-----------------------------------------------------------------------------
(***************************************************************************)
(* The inductive invariant.                                                *)
(***************************************************************************)

(* The steps of new_process() under application_lock.                      *)
Critical == {"count", "store", "newproc", "recv", "unlock"}

(* Only the worker that holds the lock is past it, and what it makes is    *)
(* the next pid, then the last one.                                        *)
Locked ==
    \A w \in Worker :
        /\ step[w] \in Critical <=> lock = w
        /\ step[w] \in {"run", "lock", "count"} => making[w] = NULL
        /\ step[w] = "store" => making[w] = pid_count + 1
        /\ step[w] \in {"newproc", "recv", "unlock"} => making[w] = pid_count

(* The processes still to be counted fit the bound.                        *)
Preparing == {v \in Worker : step[v] \in {"lock", "count", "store"}}
RoomLeft == pid_count + Cardinality(Preparing) <= MaxPid

(* A process is nowhere before it is entered in newproc.                   *)
Unmade(p) == p \notin newproc /\ owner[p] = NULL
UnmadeOK ==
    /\ \A p \in Pid : p > pid_count => Unmade(p)
    /\ \A w \in Worker : step[w] = "newproc" => Unmade(making[w])

(* new_process() has entered the process in newproc, then in recv.         *)
EnteredOK ==
    \A w \in Worker :
        /\ step[w] \in {"recv", "unlock"} => making[w] \in newproc \/ owner[making[w]] # NULL
        /\ step[w] = "unlock" => making[w] \in recv

(* Only a process that was handed out has ended.                           *)
DoneOK == \A p \in done : owner[p] # NULL

(* The workers before the distributor have one process more.               *)
Dealt ==
    \E q \in Nat : \A w \in Worker : Share(w) = q + (IF w < distributor THEN 1 ELSE 0)

Making == Locked /\ RoomLeft /\ UnmadeOK /\ EnteredOK /\ PidsKnown
Owned  == OneOwner /\ QueuedOnce /\ DoneOK

Inv == TypeOK /\ Making /\ Owned /\ Dealt

-----------------------------------------------------------------------------
LEMMA Constants ==
    /\ NumWorkers \in Nat /\ 1 \in Worker /\ NumWorkers \in Worker
    /\ MaxPid \in Nat /\ 1 \in Pid
    /\ NULL \notin Pid /\ NULL \notin Worker
    /\ Worker \subseteq Nat /\ Pid \subseteq Nat
    /\ IsFiniteSet(Worker) /\ IsFiniteSet(Pid)
<1>1. NumWorkers \in Nat /\ NumWorkers > 0 /\ MaxPid \in Nat /\ MaxPid > 0
  BY NumWorkersAssumption, MaxPidAssumption
<1>2. IsFiniteSet(1 .. NumWorkers) /\ IsFiniteSet(1 .. MaxPid)
  BY <1>1, FS_Interval
<1>3. QED
  BY <1>1, <1>2 DEF Worker, Pid, NULL

LEMMA InitInv == Init => Inv
<1> SUFFICES ASSUME Init PROVE Inv
  OBVIOUS
<1> USE Constants DEF Init
<1>1. <<>> \in Seq(Pid)
  OBVIOUS
<1>2. TypeOK
  BY <1>1 DEF TypeOK
<1>3. Making
  <2>1. Locked
    BY DEF Locked, Critical
  <2>2. RoomLeft
    <3>1. Preparing = {}
      BY DEF Preparing
    <3>2. QED
      BY <3>1, FS_EmptySet, MaxPidAssumption DEF RoomLeft
  <2>3. UnmadeOK /\ EnteredOK
    BY DEF UnmadeOK, Unmade, EnteredOK
  <2>4. PidsKnown
    BY DEF PidsKnown
  <2>5. QED
    BY <2>1, <2>2, <2>3, <2>4 DEF Making
<1>4. Owned
  BY EmptyQueue DEF Owned, OneOwner, QueuedOnce, DoneOK, Held
<1>5. Dealt
  <2>1. ASSUME NEW w \in Worker PROVE Share(w) = 0 + (IF w < distributor THEN 1 ELSE 0)
    <3>1. {p \in Pid : owner[p] = w} = {}
      OBVIOUS
    <3>2. ~ w < distributor
      BY DEF Worker
    <3>3. Share(w) = 0
      BY <3>1, FS_EmptySet DEF Share
    <3>4. QED
      BY <3>2, <3>3
  <2>2. QED
    BY <2>1 DEF Dealt
<1>6. QED
  BY <1>2, <1>3, <1>4, <1>5 DEF Inv

-----------------------------------------------------------------------------
(***************************************************************************)
(* Parts of the invariant that most steps leave alone.                     *)
(***************************************************************************)

LEMMA MakingKept ==
    ASSUME Making, UNCHANGED <<making_vars, newproc, owner>>
    PROVE  Making'
BY DEF Making, Locked, RoomLeft, Preparing, UnmadeOK, Unmade, EnteredOK, PidsKnown, making_vars

LEMMA OwnedKept ==
    ASSUME Owned, UNCHANGED <<newproc, owner, worker_vars>>
    PROVE  Owned'
BY DEF Owned, OneOwner, QueuedOnce, DoneOK, Held, worker_vars

LEMMA DealtKept ==
    ASSUME Dealt, UNCHANGED <<owner, distributor>>
    PROVE  Dealt'
BY DEF Dealt, Share
-----------------------------------------------------------------------------
(***************************************************************************)
(* A worker runs, queues and ends processes.                               *)
(***************************************************************************)

(* The front of the round moves to current; what the worker holds stays.   *)
LEMMA FindtaskInv == ASSUME Inv, NEW w \in Worker, findtask(w) PROVE Inv'
<1> USE Constants
<1> DEFINE round == IF fresh[w] = <<>> THEN stale[w] ELSE fresh[w]
<1>1. /\ current[w] = NULL /\ round # <<>>
      /\ current' = [current EXCEPT ![w] = Head(round)]
      /\ fresh' = [fresh EXCEPT ![w] = Tail(round)]
      /\ stale' = [stale EXCEPT ![w] = IF fresh[w] = <<>> THEN <<>> ELSE stale[w]]
      /\ UNCHANGED <<making_vars, newproc, owner, done, loop_vars>>
  BY DEF findtask, Inv, TypeOK
<1>2. /\ current \in [Worker -> Pid \cup {NULL}]
      /\ fresh \in [Worker -> Seq(Pid)] /\ stale \in [Worker -> Seq(Pid)]
  BY DEF Inv, TypeOK
<1>3. fresh[w] \in Seq(Pid) /\ stale[w] \in Seq(Pid) /\ round \in Seq(Pid)
  BY <1>2
<1>4. /\ Head(round) \in Pid /\ Tail(round) \in Seq(Pid)
      /\ Range(round) = Range(Tail(round)) \cup {Head(round)}
      /\ IsInjective(round) =>
           IsInjective(Tail(round)) /\ Head(round) \notin Range(Tail(round))
  BY <1>1, <1>3, PopFront
<1>5. /\ IsInjective(fresh[w]) /\ IsInjective(stale[w])
      /\ Range(fresh[w]) \cap Range(stale[w]) = {}
  BY DEF Inv, Owned, QueuedOnce
<1>6. IsInjective(round)
  BY <1>5
<1>7. <<>> \in Seq(Pid)
  OBVIOUS
<1> HIDE DEF round
<1>8. /\ current'[w] = Head(round) /\ fresh'[w] = Tail(round)
      /\ stale'[w] = IF fresh[w] = <<>> THEN <<>> ELSE stale[w]
      /\ \A v \in Worker \ {w} :
            current'[v] = current[v] /\ fresh'[v] = fresh[v] /\ stale'[v] = stale[v]
  BY <1>1, <1>2
<1>9. /\ Range(fresh'[w]) \cup Range(stale'[w]) \cup {Head(round)} = Range(fresh[w]) \cup Range(stale[w])
      /\ IsInjective(fresh'[w]) /\ IsInjective(stale'[w])
      /\ Range(fresh'[w]) \cap Range(stale'[w]) = {}
      /\ Head(round) \notin Range(fresh'[w]) \cup Range(stale'[w])
  <2>1. CASE fresh[w] = <<>>
    BY <2>1, <1>4, <1>5, <1>6, <1>8, EmptyQueue DEF round
  <2>2. CASE fresh[w] # <<>>
    BY <2>2, <1>4, <1>5, <1>6, <1>8 DEF round
  <2>3. QED
    BY <2>1, <2>2
<1>10. TypeOK'
  BY <1>1, <1>2, <1>3, <1>4, <1>7 DEF Inv, TypeOK, making_vars, loop_vars
<1>11. Owned'
  <2>1. \A v \in Worker : Held(v)' = Held(v)
    BY <1>1, <1>4, <1>8, <1>9 DEF Held
  <2>2. OneOwner'
    BY <2>1, <1>1 DEF OneOwner, Inv, Owned
  <2>3. QueuedOnce'
    BY <1>8, <1>9 DEF QueuedOnce, Inv, Owned
  <2>4. QED
    BY <2>2, <2>3, <1>1 DEF Owned, DoneOK, Inv
<1>12. QED
  BY <1>1, <1>10, <1>11, MakingKept, DealtKept DEF Inv, loop_vars

LEMMA RunningProcess ==
    ASSUME Inv, NEW w \in Worker, Executes(w)
    PROVE  /\ current[w] \in Pid /\ current[w] \in Held(w)
           /\ owner[current[w]] = w /\ current[w] \notin done
           /\ current[w] \notin Range(fresh[w]) \cup Range(stale[w])
BY Constants DEF Executes, Inv, TypeOK, Owned, OneOwner, QueuedOnce, Held

LEMMA WaitInv == ASSUME Inv, NEW w \in Worker, wait(w) PROVE Inv'
<1> USE Constants
<1>1. /\ Executes(w)
      /\ stale' = [stale EXCEPT ![w] = Append(stale[w], current[w])]
      /\ current' = [current EXCEPT ![w] = NULL]
      /\ UNCHANGED <<making_vars, newproc, owner, fresh, done, loop_vars>>
  BY DEF wait
<1>2. /\ current \in [Worker -> Pid \cup {NULL}]
      /\ fresh \in [Worker -> Seq(Pid)] /\ stale \in [Worker -> Seq(Pid)]
  BY DEF Inv, TypeOK
<1>3. /\ current[w] \in Pid
      /\ current[w] \notin Range(fresh[w]) \cup Range(stale[w])
  BY <1>1, RunningProcess
<1>4. /\ Append(stale[w], current[w]) \in Seq(Pid)
      /\ Range(Append(stale[w], current[w])) = Range(stale[w]) \cup {current[w]}
      /\ IsInjective(stale[w]) => IsInjective(Append(stale[w], current[w]))
  BY <1>2, <1>3, PushBack
<1>5. /\ current'[w] = NULL /\ stale'[w] = Append(stale[w], current[w])
      /\ \A v \in Worker \ {w} : current'[v] = current[v] /\ stale'[v] = stale[v]
  BY <1>1, <1>2
<1>6. TypeOK'
  BY <1>1, <1>2, <1>4 DEF Inv, TypeOK, making_vars, loop_vars
<1>7. Owned'
  <2>1. \A v \in Worker : Held(v)' = Held(v)
    BY <1>1, <1>3, <1>4, <1>5 DEF Held
  <2>2. OneOwner'
    BY <2>1, <1>1 DEF OneOwner, Inv, Owned
  <2>3. QueuedOnce'
    <3>1. \A v \in Worker : NULL \notin Range(fresh[v]) \cup Range(stale[v])
      BY <1>2 DEF Range
    <3>2. QED
      BY <1>1, <1>3, <1>4, <1>5, <3>1 DEF QueuedOnce, Inv, Owned
  <2>4. QED
    BY <2>2, <2>3, <1>1 DEF Owned, DoneOK, Inv
<1>8. QED
  BY <1>1, <1>6, <1>7, MakingKept, DealtKept DEF Inv, loop_vars

LEMMA FinishInv == ASSUME Inv, NEW w \in Worker, finish(w) PROVE Inv'
<1> USE Constants
<1>1. /\ Executes(w)
      /\ done' = done \cup {current[w]}
      /\ current' = [current EXCEPT ![w] = NULL]
      /\ UNCHANGED <<making_vars, newproc, owner, fresh, stale, loop_vars>>
  BY DEF finish
<1>2. /\ current \in [Worker -> Pid \cup {NULL}]
      /\ fresh \in [Worker -> Seq(Pid)] /\ stale \in [Worker -> Seq(Pid)]
  BY DEF Inv, TypeOK
<1>3. /\ current[w] \in Pid /\ owner[current[w]] = w
      /\ current[w] \notin Range(fresh[w]) \cup Range(stale[w])
  BY <1>1, RunningProcess
<1>4. /\ current'[w] = NULL
      /\ \A v \in Worker \ {w} : current'[v] = current[v]
  BY <1>1, <1>2
<1>5. TypeOK'
  BY <1>1, <1>2, <1>3 DEF Inv, TypeOK, making_vars, loop_vars
<1>6. Owned'
  <2>1. /\ Held(w)' = Held(w) \ {current[w]}
        /\ \A v \in Worker \ {w} : Held(v)' = Held(v)
    BY <1>1, <1>3, <1>4 DEF Held
  <2>2. \A v \in Worker \ {w} : current[w] \notin Held(v)
    BY <1>3 DEF Inv, Owned, OneOwner
  <2>3. OneOwner'
    BY <2>1, <2>2, <1>1, <1>3 DEF OneOwner, Inv, Owned
  <2>4. QueuedOnce'
    <3>1. \A v \in Worker : NULL \notin Range(fresh[v]) \cup Range(stale[v])
      BY <1>2 DEF Range
    <3>2. QED
      BY <1>1, <1>4, <3>1 DEF QueuedOnce, Inv, Owned
  <2>5. DoneOK'
    BY <1>1, <1>3 DEF DoneOK, Inv, Owned
  <2>6. QED
    BY <2>3, <2>4, <2>5 DEF Owned
<1>7. QED
  BY <1>1, <1>5, <1>6, MakingKept, DealtKept DEF Inv, loop_vars

-----------------------------------------------------------------------------
(***************************************************************************)
(* new_process().                                                          *)
(***************************************************************************)

LEMMA PreparingFinite ==
    /\ IsFiniteSet(Preparing) /\ Cardinality(Preparing) \in Nat
    /\ \A w \in Preparing : Cardinality(Preparing) > 0
<1>1. IsFiniteSet(Preparing) /\ Cardinality(Preparing) \in Nat
  BY Constants, FS_Subset, FS_CardinalityType DEF Preparing
<1>2. ASSUME NEW w \in Preparing PROVE Cardinality(Preparing) > 0
  <2>1. /\ IsFiniteSet(Preparing \ {w})
        /\ Cardinality(Preparing \ {w}) = Cardinality(Preparing) - 1
    BY <1>1, <1>2, FS_RemoveElement
  <2>2. Cardinality(Preparing \ {w}) \in Nat
    BY <2>1, FS_CardinalityType
  <2>3. QED
    BY <1>1, <2>1, <2>2
<1>3. QED
  BY <1>1, <1>2

LEMMA ExecuteNewprocInv ==
    ASSUME Inv, NEW w \in Worker, execute_newproc(w) PROVE Inv'
<1> USE Constants
<1>1. /\ step[w] = "run" /\ pid_count + Cardinality(Preparing) < MaxPid
      /\ step' = [step EXCEPT ![w] = "lock"]
      /\ UNCHANGED <<pid_count, lock, newproc, recv, making, newproc_vars>>
  BY DEF execute_newproc, Executes, Preparing
<1>2. step \in [Worker -> {"run", "lock", "count", "store", "newproc", "recv", "unlock"}]
  BY DEF Inv, TypeOK
<1>3. step'[w] = "lock" /\ \A v \in Worker \ {w} : step'[v] = step[v]
  BY <1>1, <1>2
<1>4. TypeOK'
  BY <1>1, <1>2 DEF Inv, TypeOK, newproc_vars, worker_vars, loop_vars
<1>5. Locked' /\ UnmadeOK' /\ EnteredOK' /\ PidsKnown'
  BY <1>1, <1>3
     DEF Inv, Making, Locked, Critical, UnmadeOK, Unmade, EnteredOK, PidsKnown, newproc_vars
<1>6. RoomLeft'
  <2>1. Preparing' = Preparing \cup {w} /\ w \notin Preparing
    BY <1>1, <1>3 DEF Preparing
  <2>2. Cardinality(Preparing') = Cardinality(Preparing) + 1
    BY <2>1, PreparingFinite, FS_AddElement
  <2>3. pid_count \in Nat
    BY DEF Inv, TypeOK
  <2>4. QED
    BY <1>1, <2>2, <2>3, PreparingFinite DEF RoomLeft
<1>7. QED
  BY <1>1, <1>4, <1>5, <1>6, OwnedKept, DealtKept DEF Inv, Making, newproc_vars, loop_vars

LEMMA LockInv == ASSUME Inv, NEW w \in Worker, Lock(w) PROVE Inv'
<1> USE Constants
<1>1. /\ step[w] = "lock" /\ lock = NULL /\ lock' = w
      /\ step' = [step EXCEPT ![w] = "count"]
      /\ UNCHANGED <<pid_count, newproc, recv, making, newproc_vars>>
  BY DEF Lock
<1>2. step \in [Worker -> {"run", "lock", "count", "store", "newproc", "recv", "unlock"}]
  BY DEF Inv, TypeOK
<1>3. step'[w] = "count" /\ \A v \in Worker \ {w} : step'[v] = step[v]
  BY <1>1, <1>2
<1>4. TypeOK'
  BY <1>1, <1>2 DEF Inv, TypeOK, newproc_vars, worker_vars, loop_vars
<1>5. Locked'
  BY <1>1, <1>3 DEF Inv, Making, Locked, Critical
<1>6. UnmadeOK' /\ EnteredOK' /\ PidsKnown'
  BY <1>1, <1>3 DEF Inv, Making, UnmadeOK, Unmade, EnteredOK, PidsKnown, newproc_vars
<1>7. RoomLeft'
  <2>1. Preparing' = Preparing
    BY <1>1, <1>3 DEF Preparing
  <2>2. QED
    BY <1>1, <2>1 DEF RoomLeft, Inv, Making
<1>8. QED
  BY <1>1, <1>4, <1>5, <1>6, <1>7, OwnedKept, DealtKept
     DEF Inv, Making, newproc_vars, loop_vars

(* Nobody else has a process in the making: only Unlock may end that.      *)
LEMMA CountInv == ASSUME Inv, NEW w \in Worker, Count(w) PROVE Inv'
<1> USE Constants
<1>1. /\ step[w] = "count"
      /\ making' = [making EXCEPT ![w] = pid_count + 1]
      /\ step' = [step EXCEPT ![w] = "store"]
      /\ UNCHANGED <<pid_count, lock, newproc, recv, newproc_vars>>
  BY DEF Count
<1>2. /\ step \in [Worker -> {"run", "lock", "count", "store", "newproc", "recv", "unlock"}]
      /\ making \in [Worker -> Pid \cup {NULL}]
      /\ pid_count \in Pid
  BY DEF Inv, TypeOK
<1>3. /\ step'[w] = "store" /\ making'[w] = pid_count + 1
      /\ \A v \in Worker \ {w} : step'[v] = step[v] /\ making'[v] = making[v]
  BY <1>1, <1>2
<1>4. pid_count + 1 \in Pid
  <2>1. w \in Preparing
    BY <1>1 DEF Preparing
  <2>2. Cardinality(Preparing) \in Nat /\ Cardinality(Preparing) > 0
    BY <2>1, PreparingFinite
  <2>3. pid_count + Cardinality(Preparing) <= MaxPid
    BY DEF Inv, Making, RoomLeft
  <2>4. QED
    BY <1>2, <2>2, <2>3 DEF Pid
<1>5. TypeOK'
  BY <1>1, <1>2, <1>4 DEF Inv, TypeOK, newproc_vars, worker_vars, loop_vars
<1>6. Locked'
  BY <1>1, <1>3 DEF Inv, Making, Locked, Critical
<1>7. UnmadeOK' /\ EnteredOK'
  BY <1>1, <1>3 DEF Inv, Making, UnmadeOK, Unmade, EnteredOK, newproc_vars
<1>8. PidsKnown'
  <2>1. making[w] = NULL
    BY <1>1 DEF Inv, Making, Locked
  <2>2. Range(making) \subseteq Range(making') \cup {NULL}
    BY <1>2, <1>1, <1>3, <2>1 DEF Range
  <2>3. NULL \notin 1 .. pid_count
    BY DEF NULL
  <2>4. QED
    BY <1>1, <2>2, <2>3 DEF Inv, Making, PidsKnown, newproc_vars
<1>9. RoomLeft'
  <2>1. Preparing' = Preparing
    BY <1>1, <1>3 DEF Preparing
  <2>2. QED
    BY <1>1, <2>1 DEF RoomLeft, Inv, Making
<1>10. QED
  BY <1>1, <1>5, <1>6, <1>7, <1>8, <1>9, OwnedKept, DealtKept
     DEF Inv, Making, newproc_vars, loop_vars

(* The new pid_count is a pid nobody has seen.                             *)
LEMMA StoreInv == ASSUME Inv, NEW w \in Worker, Store(w) PROVE Inv'
<1> USE Constants
<1>1. /\ step[w] = "store" /\ pid_count' = making[w]
      /\ step' = [step EXCEPT ![w] = "newproc"]
      /\ UNCHANGED <<lock, newproc, recv, making, newproc_vars>>
  BY DEF Store
<1>2. /\ step \in [Worker -> {"run", "lock", "count", "store", "newproc", "recv", "unlock"}]
      /\ making \in [Worker -> Pid \cup {NULL}]
      /\ pid_count \in Nat
  BY DEF Inv, TypeOK
<1>3. step'[w] = "newproc" /\ \A v \in Worker \ {w} : step'[v] = step[v]
  BY <1>1, <1>2
<1>4. /\ making[w] = pid_count + 1 /\ pid_count' = pid_count + 1
      /\ \A v \in Worker : step[v] \in Critical => v = w
  BY <1>1 DEF Inv, Making, Locked, Critical
<1>5. pid_count' \in Pid
  <2>1. making[w] \in Pid \cup {NULL} /\ making[w] # NULL
    BY <1>2, <1>4 DEF NULL
  <2>2. QED
    BY <1>1, <2>1
<1>6. TypeOK'
  BY <1>1, <1>2, <1>5 DEF Inv, TypeOK, newproc_vars, worker_vars, loop_vars
<1>7. Locked'
  BY <1>1, <1>3, <1>4 DEF Inv, Making, Locked, Critical
<1>8. UnmadeOK'
  <2>1. \A p \in Pid : p > pid_count' => p > pid_count
    BY <1>2, <1>4
  <2>2. Unmade(making[w])
    BY <1>1, <1>2, <1>4, <1>5 DEF Inv, Making, UnmadeOK
  <2>3. \A v \in Worker \ {w} : step'[v] # "newproc"
    BY <1>3, <1>4 DEF Critical
  <2>4. QED
    BY <1>1, <2>1, <2>2, <2>3 DEF Inv, Making, UnmadeOK, Unmade, newproc_vars
<1>9. EnteredOK'
  BY <1>1, <1>3 DEF Inv, Making, EnteredOK, newproc_vars
<1>10. PidsKnown'
  <2>1. 1 .. pid_count' \subseteq 1 .. pid_count \cup {making[w]}
    BY <1>2, <1>4
  <2>2. making[w] \in Range(making)
    BY <1>2 DEF Range
  <2>3. QED
    BY <1>1, <2>1, <2>2 DEF Inv, Making, PidsKnown, newproc_vars
<1>11. RoomLeft'
  <2>1. Preparing' = Preparing \ {w} /\ w \in Preparing
    BY <1>1, <1>3 DEF Preparing
  <2>2. Cardinality(Preparing') = Cardinality(Preparing) - 1
    BY <2>1, PreparingFinite, FS_RemoveElement
  <2>3. QED
    BY <1>2, <1>4, <2>2, PreparingFinite DEF RoomLeft, Inv, Making
<1>12. QED
  BY <1>1, <1>6, <1>7, <1>8, <1>9, <1>10, <1>11, OwnedKept, DealtKept
     DEF Inv, Making, newproc_vars, loop_vars

LEMMA AddNewprocInv == ASSUME Inv, NEW w \in Worker, AddNewproc(w) PROVE Inv'
<1> USE Constants
<1>1. /\ step[w] = "newproc" /\ newproc' = newproc \cup {making[w]}
      /\ step' = [step EXCEPT ![w] = "recv"]
      /\ UNCHANGED <<pid_count, lock, recv, making, newproc_vars>>
  BY DEF AddNewproc
<1>2. /\ step \in [Worker -> {"run", "lock", "count", "store", "newproc", "recv", "unlock"}]
      /\ making \in [Worker -> Pid \cup {NULL}]
      /\ pid_count \in Pid
  BY DEF Inv, TypeOK
<1>3. step'[w] = "recv" /\ \A v \in Worker \ {w} : step'[v] = step[v]
  BY <1>1, <1>2
<1>4. /\ making[w] = pid_count /\ owner[making[w]] = NULL
      /\ \A v \in Worker : step[v] \in Critical => v = w
  BY <1>1 DEF Inv, Making, Locked, Critical, UnmadeOK, Unmade
<1>5. TypeOK'
  BY <1>1, <1>2, <1>4 DEF Inv, TypeOK, newproc_vars, worker_vars, loop_vars
<1>6. Locked'
  BY <1>1, <1>3 DEF Inv, Making, Locked, Critical
<1>7. UnmadeOK'
  <2>1. \A p \in Pid : p > pid_count => p # making[w]
    BY <1>2, <1>4
  <2>2. \A v \in Worker : step'[v] # "newproc"
    BY <1>3, <1>4 DEF Critical
  <2>3. QED
    BY <1>1, <2>1, <2>2 DEF Inv, Making, UnmadeOK, Unmade, newproc_vars
<1>8. EnteredOK' /\ PidsKnown'
  BY <1>1, <1>3 DEF Inv, Making, EnteredOK, PidsKnown, newproc_vars
<1>9. RoomLeft'
  <2>1. Preparing' = Preparing
    BY <1>1, <1>3 DEF Preparing
  <2>2. QED
    BY <1>1, <2>1 DEF RoomLeft, Inv, Making
<1>10. Owned'
  BY <1>1, <1>4
     DEF Inv, Owned, OneOwner, QueuedOnce, DoneOK, Held, newproc_vars, worker_vars
<1>11. QED
  BY <1>1, <1>5, <1>6, <1>7, <1>8, <1>9, <1>10, DealtKept
     DEF Inv, Making, newproc_vars, loop_vars

LEMMA AddRecvInv == ASSUME Inv, NEW w \in Worker, AddRecv(w) PROVE Inv'
<1> USE Constants
<1>1. /\ step[w] = "recv" /\ recv' = recv \cup {making[w]}
      /\ step' = [step EXCEPT ![w] = "unlock"]
      /\ UNCHANGED <<pid_count, lock, newproc, making, newproc_vars>>
  BY DEF AddRecv
<1>2. /\ step \in [Worker -> {"run", "lock", "count", "store", "newproc", "recv", "unlock"}]
      /\ pid_count \in Pid
  BY DEF Inv, TypeOK
<1>3. step'[w] = "unlock" /\ \A v \in Worker \ {w} : step'[v] = step[v]
  BY <1>1, <1>2
<1>4. making[w] = pid_count
  BY <1>1 DEF Inv, Making, Locked
<1>5. TypeOK'
  BY <1>1, <1>2, <1>4 DEF Inv, TypeOK, newproc_vars, worker_vars, loop_vars
<1>6. Locked'
  BY <1>1, <1>3 DEF Inv, Making, Locked, Critical
<1>7. UnmadeOK' /\ EnteredOK' /\ PidsKnown'
  BY <1>1, <1>3
     DEF Inv, Making, UnmadeOK, Unmade, EnteredOK, PidsKnown, newproc_vars
<1>8. RoomLeft'
  <2>1. Preparing' = Preparing
    BY <1>1, <1>3 DEF Preparing
  <2>2. QED
    BY <1>1, <2>1 DEF RoomLeft, Inv, Making
<1>9. QED
  BY <1>1, <1>5, <1>6, <1>7, <1>8, OwnedKept, DealtKept
     DEF Inv, Making, newproc_vars, loop_vars

(* The process is known by now, and nobody else is making one.             *)
LEMMA UnlockInv == ASSUME Inv, NEW w \in Worker, Unlock(w) PROVE Inv'
<1> USE Constants
<1>1. /\ step[w] = "unlock" /\ lock' = NULL
      /\ making' = [making EXCEPT ![w] = NULL]
      /\ step' = [step EXCEPT ![w] = "run"]
      /\ UNCHANGED <<pid_count, newproc, recv, newproc_vars>>
  BY DEF Unlock
<1>2. /\ step \in [Worker -> {"run", "lock", "count", "store", "newproc", "recv", "unlock"}]
      /\ making \in [Worker -> Pid \cup {NULL}]
  BY DEF Inv, TypeOK
<1>3. /\ step'[w] = "run" /\ making'[w] = NULL
      /\ \A v \in Worker \ {w} : step'[v] = step[v] /\ making'[v] = making[v]
  BY <1>1, <1>2
<1>4. /\ lock = w
      /\ making[w] \in recv
      /\ making[w] \in newproc \/ owner[making[w]] # NULL
  BY <1>1 DEF Inv, Making, Locked, Critical, EnteredOK
<1>5. TypeOK'
  BY <1>1, <1>2 DEF Inv, TypeOK, newproc_vars, worker_vars, loop_vars
<1>6. Locked'
  BY <1>1, <1>3, <1>4 DEF Inv, Making, Locked, Critical
<1>7. UnmadeOK' /\ EnteredOK'
  BY <1>1, <1>3 DEF Inv, Making, UnmadeOK, Unmade, EnteredOK, newproc_vars
<1>8. PidsKnown'
  <2>1. Range(making) \subseteq Range(making') \cup {making[w]}
    BY <1>2, <1>1, <1>3 DEF Range
  <2>2. QED
    BY <1>1, <1>4, <2>1 DEF Inv, Making, PidsKnown, newproc_vars
<1>9. RoomLeft'
  <2>1. Preparing' = Preparing
    BY <1>1, <1>3 DEF Preparing
  <2>2. QED
    BY <1>1, <2>1 DEF RoomLeft, Inv, Making
<1>10. QED
  BY <1>1, <1>5, <1>6, <1>7, <1>8, <1>9, OwnedKept, DealtKept
     DEF Inv, Making, newproc_vars, loop_vars

-----------------------------------------------------------------------------
(***************************************************************************)
(* The main thread.                                                        *)
(***************************************************************************)

(* The process was nobody's, and goes to the end of one queue.             *)
LEMMA DistributeWorkInv == ASSUME Inv, distribute_work PROVE Inv'
<1> USE Constants
<1>0. PICK d \in Worker : d = distributor
  BY DEF Inv, TypeOK
<1>1. PICK p \in newproc :
        /\ owner' = [owner EXCEPT ![p] = d]
        /\ stale' = [stale EXCEPT ![d] = Append(stale[d], p)]
        /\ newproc' = newproc \ {p}
  BY <1>0 DEF distribute_work
<1>2. /\ distributor' = cycle_distributor(d)
      /\ UNCHANGED <<making_vars, current, fresh, done, at, it>>
  BY <1>0 DEF distribute_work
<1>3. /\ newproc \subseteq Pid /\ p \in Pid /\ d \in Worker
      /\ owner \in [Pid -> Worker \cup {NULL}]
      /\ current \in [Worker -> Pid \cup {NULL}]
      /\ fresh \in [Worker -> Seq(Pid)] /\ stale \in [Worker -> Seq(Pid)]
  BY <1>1 DEF Inv, TypeOK
<1>4. /\ owner[p] = NULL /\ p \notin done
      /\ \A w \in Worker : p \notin Held(w)
  BY <1>1 DEF Inv, Owned, OneOwner, DoneOK
<1>5. /\ owner'[p] = d /\ \A q \in Pid \ {p} : owner'[q] = owner[q]
      /\ stale'[d] = Append(stale[d], p)
      /\ \A w \in Worker \ {d} : stale'[w] = stale[w]
  BY <1>1, <1>3
<1>6. /\ Append(stale[d], p) \in Seq(Pid)
      /\ Range(Append(stale[d], p)) = Range(stale[d]) \cup {p}
      /\ IsInjective(stale[d]) /\ p \notin Range(stale[d]) => IsInjective(Append(stale[d], p))
  BY <1>3, PushBack
<1>7. distributor' \in Worker /\ distributor' = IF d = NumWorkers THEN 1 ELSE d + 1
  BY <1>2, <1>3 DEF cycle_distributor, Worker
<1>8. TypeOK'
  BY <1>1, <1>2, <1>3, <1>6, <1>7 DEF Inv, TypeOK, making_vars
<1>9. Making'
  <2>1. UnmadeOK' /\ EnteredOK' /\ PidsKnown'
    <3>1. UNCHANGED <<pid_count, making, recv, step>>
      BY <1>2 DEF making_vars
    <3>2. \A q \in Pid : Unmade(q) => q # p /\ Unmade(q)'
      BY <1>1, <1>3, <1>5 DEF Unmade
    <3>3. \A q \in Pid : q \in newproc \/ owner[q] # NULL => q \in newproc' \/ owner'[q] # NULL
      BY <1>1, <1>3, <1>5
    <3>4. \A w \in Worker : step[w] \in {"newproc", "recv", "unlock"} => making[w] \in Pid
      BY DEF Inv, Making, Locked, TypeOK
    <3>5. 1 .. pid_count \subseteq Pid
      BY DEF Inv, TypeOK, Pid
    <3>6. UnmadeOK'
      BY <3>1, <3>2, <3>4 DEF Inv, Making, UnmadeOK
    <3>7. EnteredOK'
      BY <3>1, <3>3, <3>4 DEF Inv, Making, EnteredOK
    <3>8. PidsKnown'
      BY <3>1, <3>3, <3>5 DEF Inv, Making, PidsKnown
    <3>9. QED
      BY <3>6, <3>7, <3>8
  <2>2. Locked' /\ RoomLeft'
    BY <1>2 DEF Inv, Making, Locked, RoomLeft, Preparing, making_vars
  <2>3. QED
    BY <2>1, <2>2 DEF Making
<1>10. Owned'
  <2>1. /\ Held(d)' = Held(d) \cup {p}
        /\ \A w \in Worker \ {d} : Held(w)' = Held(w)
    BY <1>2, <1>3, <1>5, <1>6 DEF Held
  <2>2. OneOwner'
    BY <2>1, <1>1, <1>2, <1>3, <1>4, <1>5 DEF OneOwner, Inv, Owned
  <2>3. QueuedOnce'
    <3>1. p \notin Range(fresh[d]) \cup Range(stale[d]) /\ p # current[d]
      BY <1>3, <1>4 DEF Held
    <3>2. /\ \A w \in Worker : IsInjective(fresh[w]) /\ IsInjective(stale[w])
          /\ \A w \in Worker : Range(fresh[w]) \cap Range(stale[w]) = {}
          /\ \A w \in Worker : current[w] \notin Range(fresh[w]) \cup Range(stale[w])
      BY DEF QueuedOnce, Inv, Owned
    <3>3. IsInjective(stale'[d]) /\ Range(stale'[d]) = Range(stale[d]) \cup {p}
      BY <1>5, <1>6, <3>1, <3>2
    <3>4. \A w \in Worker :
             /\ IsInjective(stale'[w])
             /\ Range(fresh[w]) \cap Range(stale'[w]) = {}
             /\ current[w] \notin Range(fresh[w]) \cup Range(stale'[w])
      <4>1. ASSUME NEW w \in Worker \ {d} PROVE stale'[w] = stale[w]
        BY <1>5
      <4>2. /\ Range(fresh[d]) \cap Range(stale'[d]) = {}
            /\ current[d] \notin Range(fresh[d]) \cup Range(stale'[d])
        BY <3>1, <3>2, <3>3
      <4>3. QED
        BY <4>1, <4>2, <3>2, <3>3
    <3>5. fresh' = fresh /\ current' = current
      BY <1>2
    <3>6. QED
      BY <3>2, <3>4, <3>5, Zenon DEF QueuedOnce
  <2>4. DoneOK'
    BY <1>2, <1>3, <1>4, <1>5 DEF DoneOK, Inv, Owned, TypeOK
  <2>5. QED
    BY <2>2, <2>3, <2>4 DEF Owned
<1>11. Dealt'
  <2>1. PICK q \in Nat : \A w \in Worker : Share(w) = q + (IF w < d THEN 1 ELSE 0)
    BY <1>0 DEF Inv, Dealt
  <2>2. \A w \in Worker \ {d} : Share(w)' = Share(w)
    <3>1. SUFFICES ASSUME NEW w \in Worker \ {d} PROVE Share(w)' = Share(w)
      OBVIOUS
    <3>2. {x \in Pid : owner'[x] = w} = {x \in Pid : owner[x] = w}
      BY <1>3, <1>4, <1>5
    <3>3. QED
      BY <3>2 DEF Share
  <2>3. Share(d)' = Share(d) + 1
    <3>1. {x \in Pid : owner'[x] = d} = {x \in Pid : owner[x] = d} \cup {p}
      BY <1>3, <1>5
    <3>2. p \notin {x \in Pid : owner[x] = d}
      BY <1>3, <1>4
    <3>3. IsFiniteSet({x \in Pid : owner[x] = d})
      BY FS_Subset
    <3>4. QED
      BY <3>1, <3>2, <3>3, FS_AddElement DEF Share
  <2>4. CASE d = NumWorkers
    <3>1. \A w \in Worker : w # d => w < d
      BY <2>4 DEF Worker
    <3>2. \A w \in Worker : Share(w)' = q + 1 /\ ~ w < distributor'
      BY <2>1, <2>2, <2>3, <2>4, <3>1, <1>7 DEF Worker
    <3>3. QED
      BY <3>2 DEF Dealt
  <2>5. CASE d # NumWorkers
    <3>1. \A w \in Worker : w < distributor' <=> w < d \/ w = d
      BY <2>5, <1>3, <1>7
    <3>2. \A w \in Worker : Share(w)' = q + (IF w < distributor' THEN 1 ELSE 0)
      BY <2>1, <2>2, <2>3, <3>1
    <3>3. QED
      BY <3>2 DEF Dealt
  <2>6. QED
    BY <2>4, <2>5
<1>12. QED
  BY <1>8, <1>9, <1>10, <1>11 DEF Inv

(* Looking at the workers changes nothing but where the main thread looks. *)
LEMMA LookInv ==
    ASSUME Inv, distributed \/ look_current \/ look_fresh \/ look_stale
    PROVE  Inv'
<1> USE Constants
<1>1. /\ UNCHANGED <<making_vars, newproc, owner, worker_vars, distributor>>
      /\ at' \in {"distribute", "current", "fresh", "stale", "stopped"}
  BY DEF distributed, look_current, look_fresh, look_stale, Look
<1>2. it' \in Worker
  <2>1. it \in Worker
    BY DEF Inv, TypeOK
  <2>2. CASE look_stale
    BY <2>1, <2>2 DEF look_stale, Worker
  <2>3. CASE distributed \/ look_current \/ look_fresh
    BY <2>1, <2>3 DEF distributed, look_current, look_fresh
  <2>4. QED
    BY <2>2, <2>3
<1>3. TypeOK'
  BY <1>1, <1>2 DEF Inv, TypeOK, making_vars, worker_vars
<1>4. QED
  BY <1>1, <1>3, MakingKept, OwnedKept, DealtKept DEF Inv

-----------------------------------------------------------------------------
LEMMA NextInv == Inv /\ [Next]_vars => Inv'
<1> SUFFICES ASSUME Inv, [Next]_vars PROVE Inv'
  OBVIOUS
<1>1. CASE application_loop
  BY <1>1, DistributeWorkInv, LookInv DEF application_loop
<1>2. CASE \E w \in Worker : gotowork(w)
  <2>1. PICK w \in Worker : gotowork(w)
    BY <1>2
  <2>2. CASE findtask(w) \/ wait(w) \/ finish(w)
    BY <2>2, FindtaskInv, WaitInv, FinishInv
  <2>3. CASE execute_newproc(w)
    BY <2>3, ExecuteNewprocInv
  <2>4. CASE new_process(w)
    BY <2>4, LockInv, CountInv, StoreInv, AddNewprocInv, AddRecvInv, UnlockInv
       DEF new_process
  <2>5. QED
    BY <2>1, <2>2, <2>3, <2>4 DEF gotowork
<1>3. CASE UNCHANGED vars
  <2>1. UNCHANGED <<making_vars, newproc, owner, worker_vars, loop_vars>>
    BY <1>3 DEF vars
  <2>2. TypeOK'
    BY <2>1 DEF Inv, TypeOK, making_vars, worker_vars, loop_vars
  <2>3. QED
    BY <2>1, <2>2, MakingKept, OwnedKept, DealtKept DEF Inv, loop_vars
<1>4. QED
  BY <1>1, <1>2, <1>3 DEF Next

(* The invariant holds for any number of workers and processes.            *)
THEOREM Invariance == Spec => []Inv
<1>1. Inv /\ [Next]_vars => Inv'
  BY NextInv
<1>2. QED
  BY <1>1, InitInv, PTL DEF Spec

(* The lists and maps of the application and its workers hold what their   *)
(* types say.                                                              *)
THEOREM ApplicationTypes == Spec => []TypeOK
<1>1. Inv => TypeOK
  BY DEF Inv
<1>2. QED
  BY <1>1, Invariance, PTL

(* A process that distribute_work() hands out belongs to one worker for    *)
(* good.                                                                   *)
THEOREM OwnedForGood == Spec => []OneOwner
<1>1. Inv => OneOwner
  BY DEF Inv, Owned
<1>2. QED
  BY <1>1, Invariance, PTL

(* No worker queues a process twice.                                       *)
THEOREM NoDoubleQueueing == Spec => []QueuedOnce
<1>1. Inv => QueuedOnce
  BY DEF Inv, Owned
<1>2. QED
  BY <1>1, Invariance, PTL

(* The lock of new_process() makes pids unique.                            *)
THEOREM NoPidTwice == Spec => []PidsUnique
<1>1. Inv => PidsUnique
  <2>1. SUFFICES ASSUME Inv, NEW v \in Worker, NEW w \in Worker,
                        making[v] = making[w], making[v] # NULL
                 PROVE  v = w
    BY DEF PidsUnique
  <2>2. step[v] \in Critical /\ step[w] \in Critical
    BY <2>1 DEF Inv, TypeOK, Making, Locked, Critical
  <2>3. QED
    BY <2>1, <2>2 DEF Inv, Making, Locked
<1>2. QED
  BY <1>1, Invariance, PTL

(* A pid that is not being made is known to Application::recv, and its     *)
(* process is in newproc or owned.                                         *)
THEOREM NoPidForgotten == Spec => []PidsKnown
<1>1. Inv => PidsKnown
  BY DEF Inv, Making
<1>2. QED
  BY <1>1, Invariance, PTL

(* The distributor gives no worker two processes more than another.        *)
THEOREM DealtEvenly == Spec => []Balanced
<1>1. Inv => Balanced
  <2>1. SUFFICES ASSUME Inv PROVE Balanced
    OBVIOUS
  <2>2. PICK q \in Nat : \A w \in Worker :
                             Share(w) = q + (IF w < distributor THEN 1 ELSE 0)
    BY <2>1 DEF Inv, Dealt
  <2>3. \A w \in Worker : Share(w) = q \/ Share(w) = q + 1
    BY <2>2
  <2>4. QED
    BY <2>3 DEF Balanced
<1>2. QED
  BY <1>1, Invariance, PTL
=============================================================================
