---------------------------- MODULE WorkerProof ----------------------------
(***************************************************************************)
(* Proofs about Worker for every number of frames and streams.             *)
(***************************************************************************)
EXTENDS Worker, Queues, FiniteSetTheorems, TLAPS

(* findtask() moves one queued frame to current and loses none.            *)
LEMMA Findtask ==
    ASSUME TypeOK, NEW old \in Seq(Frame), findtask(old),
           IsInjective(fresh), IsInjective(old),
           Range(fresh) \cap Range(old) = {}
    PROVE  /\ current' \in Frame \cup {None}
           /\ fresh' \in Seq(Frame) /\ stale' \in Seq(Frame)
           /\ IsInjective(fresh') /\ IsInjective(stale')
           /\ Range(fresh') \cap Range(stale') = {}
           /\ Range(fresh) \cup Range(old) = Running' \cup Queued'
           /\ Running' \cap Queued' = {}
<1> DEFINE round == IF fresh = <<>> THEN old ELSE fresh
<1>1. fresh \in Seq(Frame) /\ round \in Seq(Frame)
  BY DEF TypeOK
<1>2. <<>> \in Seq(Frame)
  OBVIOUS
<1>3. CASE round = <<>>
  <2>1. fresh = <<>> /\ old = <<>>
    BY <1>3
  <2>2. current' = None /\ fresh' = <<>> /\ stale' = <<>>
    BY <2>1 DEF findtask
  <2>3. QED
    BY <2>1, <2>2, <1>2, EmptyQueue DEF Running, Queued
<1>4. CASE round # <<>>
  <2>1. /\ current' = Head(round) /\ fresh' = Tail(round)
        /\ stale' = IF fresh = <<>> THEN <<>> ELSE old
    BY <1>4 DEF findtask
  <2>2. /\ Head(round) \in Frame /\ Tail(round) \in Seq(Frame)
        /\ Range(round) = Range(Tail(round)) \cup {Head(round)}
        /\ IsInjective(round) =>
             IsInjective(Tail(round)) /\ Head(round) \notin Range(Tail(round))
    BY <1>1, <1>4, PopFront
  <2>3. IsInjective(round)
    OBVIOUS
  <2> HIDE DEF round
  <2>4. current' # None /\ Running' = {Head(round)}
    BY <2>1, <2>2, NoneAssumption DEF Running
  <2>5. CASE fresh = <<>>
    <3>1. round = old /\ stale' = <<>>
      BY <2>5, <2>1 DEF round
    <3>2. Queued' = Range(Tail(round))
      BY <3>1, <2>1, EmptyQueue DEF Queued
    <3>3. Range(fresh) = {}
      BY <2>5, EmptyQueue
    <3>4. QED
      BY <3>1, <3>2, <3>3, <2>1, <2>2, <2>3, <2>4, <1>2, EmptyQueue
  <2>6. CASE fresh # <<>>
    <3>1. round = fresh /\ stale' = old
      BY <2>6, <2>1 DEF round
    <3>2. Queued' = Range(Tail(round)) \cup Range(old)
      BY <3>1, <2>1 DEF Queued
    <3>3. QED
      BY <3>1, <3>2, <2>1, <2>2, <2>3, <2>4
  <2>7. QED
    BY <2>5, <2>6
<1>5. QED
  BY <1>3, <1>4

-----------------------------------------------------------------------------
(***************************************************************************)
(* The inductive invariant: the properties of Worker, and what they need.  *)
(***************************************************************************)

(* What gotowork() relies on at each point of its loop.                    *)
AtOK ==
    /\ at \in {"iopush", "switch"} => current # None
    /\ at = "iopush" => io[current] # None /\ epoll[io[current]] = None
    /\ at # "iopush" /\ current # None => io[current] = None

(* A frame that does not exist yet is as its constructor leaves it.        *)
UnbornOK ==
    \A f \in Frame : status[f] = "unborn" =>
        /\ cftype[f] = "CALL" /\ parent[f] = None /\ fcall[f] = f
        /\ fork[f] = {} /\ cfstate[f] = "READY"

(* A fork path has a parent, a call is its own function_call().            *)
KindOK ==
    \A f \in Live : /\ cftype[f] = "FORK" => parent[f] # None
                    /\ cftype[f] = "CALL" => fcall[f] = f

(* A frame with a parent that has ended is about to be deleted.            *)
EndsNow ==
    \A f \in Live : cfstate[f] \in Ended /\ parent[f] # None =>
        f = current /\ at \in {"iowork", "switch"} /\ fork[f] = {}

(* epoll watches only streams that a frame waits for.                      *)
EpollOK == \A s \in Stream : epoll[s] # None => epoll[s] \in Polling /\ io[epoll[s]] = s

PollingFinite == IsFiniteSet(Polling)

Homes == OneHome /\ NoLostFrame
Tree  == NoDangling /\ CallStack /\ ForkTree /\ UnbornOK /\ KindOK
Io    == IoAccounting /\ EpollOK /\ PollingFinite

Inv == TypeOK /\ Homes /\ Tree /\ EndsNow /\ AtOK /\ Io

LEMMA InitInv == Init => Inv
<1> SUFFICES ASSUME Init PROVE Inv
  OBVIOUS
<1> USE DEF Init
<1>1. <<>> \in Seq(Frame)
  OBVIOUS
<1>2. TypeOK
  BY <1>1 DEF TypeOK, Waiting, Ended
<1>3. Running = {} /\ Queued = {} /\ Polling = {} /\ Calling = {} /\ Live = newproc
  BY EmptyQueue DEF Running, Queued, Polling, Calling, Calls, Live
<1>4. Homes
  BY <1>3, EmptyQueue DEF Homes, OneHome, NoLostFrame
<1>5. Tree
  BY DEF Tree, NoDangling, CallStack, ForkTree, UnbornOK, KindOK, Calls, Live
<1>6. EndsNow /\ AtOK
  BY DEF EndsNow, AtOK, Ended, Live
<1>7. Io
  BY <1>3, FS_EmptySet DEF Io, IoAccounting, EpollOK, PollingFinite
<1>8. QED
  BY <1>2, <1>4, <1>5, <1>6, <1>7 DEF Inv

-----------------------------------------------------------------------------
(***************************************************************************)
(* Parts of the invariant that most steps leave alone.                     *)
(***************************************************************************)

(* Homes depends on the frames and the queues only.                        *)
LEMMA HomesKept ==
    ASSUME Homes, UNCHANGED <<tree, queue, io, newproc>>
    PROVE  Homes'
BY DEF Homes, OneHome, NoLostFrame, Running, Queued, Polling, Calling, Calls, Live,
       tree, queue

LEMMA TreeKept ==
    ASSUME Tree, UNCHANGED tree, \A f \in Frame : cfstate'[f] = cfstate[f] \/ f \in Live
    PROVE  Tree'
BY DEF Tree, NoDangling, CallStack, ForkTree, UnbornOK, KindOK, Calls, Live, tree

(* Io depends on who waits for a stream, not on the other frames.          *)
LEMMA IoKept ==
    ASSUME Io, Polling' = Polling, UNCHANGED <<io, epoll, iocount>>
    PROVE  Io'
BY DEF Io, IoAccounting, EpollOK, PollingFinite

(* The running frame is live and has no other home.                        *)
LEMMA RunningFrame ==
    ASSUME Inv, current # None
    PROVE  /\ current \in Live /\ current \in Frame
           /\ current \notin Queued /\ current \notin Polling
           /\ current \notin newproc /\ current \notin Calling
<1>1. current \in Running /\ current \in Frame
  BY DEF Inv, TypeOK, Running
<1>2. QED
  BY <1>1 DEF Inv, Homes, OneHome, NoLostFrame

-----------------------------------------------------------------------------
(***************************************************************************)
(* execute_instruction()                                                   *)
(***************************************************************************)

(* An instruction that creates no frame: it sets the state of the running  *)
(* frame to c and its stream to s.                                         *)
LEMMA QuietInstruction ==
    ASSUME Inv, Runs,
           NEW c \in {"READY"} \cup Waiting \cup Ended,
           NEW s \in Stream \cup {None},
           cfstate' = [cfstate EXCEPT ![current] = c],
           io' = [io EXCEPT ![current] = s],
           UNCHANGED <<tree, queue, epoll, iocount, newproc>>,
           after_instruction,
           s # None => epoll[s] = None,
           c \in Ended /\ parent[current] # None => s = None /\ fork[current] = {}
    PROVE  Inv'
<1>1. TypeOK /\ Homes /\ Tree /\ EndsNow /\ AtOK /\ Io
  BY DEF Inv
<1>2. current \in Live /\ current \in Frame /\ at = "fetch"
  BY RunningFrame DEF Runs
<1>3. /\ at' = IF s # None THEN "iopush" ELSE IF iocount > 0 THEN "iowork" ELSE "switch"
      /\ io'[current'] = s
  BY <1>1, <1>2 DEF after_instruction, TypeOK, queue
<1>4. TypeOK'
  BY <1>1, <1>3 DEF TypeOK, tree, queue
<1>5. Polling' = Polling /\ Running' = Running
  BY <1>1, <1>2 DEF Polling, Running, Runs, TypeOK, queue
<1>6. Homes'
  BY <1>1, <1>5 DEF Homes, OneHome, NoLostFrame, Queued, Calling, Calls, Live, tree, queue
<1>7. Tree'
  BY <1>1, <1>2, TreeKept DEF TypeOK
<1>8. EndsNow'
  BY <1>1, <1>2, <1>3 DEF EndsNow, TypeOK, Live, tree, queue
<1>9. AtOK'
  BY <1>1, <1>2, <1>3 DEF AtOK, TypeOK, Runs, queue
<1>10. Io'
  <2>1. \A f \in Polling : io'[f] = io[f]
    BY <1>1, <1>2 DEF Polling, Running, TypeOK, Runs
  <2>2. IoAccounting'
    BY <1>1, <1>5, <2>1 DEF Io, IoAccounting
  <2>3. EpollOK'
    BY <1>1, <1>5, <2>1 DEF Io, EpollOK
  <2>4. QED
    BY <1>1, <1>5, <2>2, <2>3 DEF Io, PollingFinite
<1>11. QED
  BY <1>4, <1>6, <1>7, <1>8, <1>9, <1>10 DEF Inv

(* What an instruction of a running frame finds.                           *)
LEMMA RunningState ==
    ASSUME Inv, Runs
    PROVE  /\ cfstate[current] \in {"READY"} \cup Waiting \cup Ended
           /\ cfstate = [cfstate EXCEPT ![current] = cfstate[current]]
           /\ io = [io EXCEPT ![current] = None]
           /\ parent[current] # None => cfstate[current] \notin Ended
           /\ cftype[current] = "CALL" => fcall[current] = current
<1>1. current \in Live /\ current \in Frame /\ at = "fetch"
  BY RunningFrame DEF Runs
<1>2. TypeOK /\ io[current] = None
  BY <1>1 DEF Inv, AtOK, Runs
<1>3. parent[current] # None => cfstate[current] \notin Ended
  BY <1>1 DEF Inv, EndsNow
<1>4. cftype[current] = "CALL" => fcall[current] = current
  BY <1>1 DEF Inv, Tree, KindOK
<1>5. QED
  BY <1>1, <1>2, <1>3, <1>4 DEF TypeOK

LEMMA LocalInv == Inv /\ execute_local => Inv'
<1> SUFFICES ASSUME Inv, execute_local PROVE Inv'
  OBVIOUS
<1>1. Runs
  BY DEF execute_local, MayDo
<1>2. QED
  BY <1>1, RunningState, QuietInstruction DEF execute_local, poll

LEMMA WaitInv == Inv /\ execute_wait => Inv'
<1> SUFFICES ASSUME Inv, execute_wait PROVE Inv'
  OBVIOUS
<1>1. Runs /\ "PEERWAIT" \in Waiting /\ "PEERWAIT" \notin Ended
  BY DEF execute_wait, MayDo, Waiting, Ended
<1>2. QED
  BY <1>1, RunningState, QuietInstruction DEF execute_wait, poll

LEMMA IoInv ==
    ASSUME Allowed = {}, Inv, NEW s \in Stream \cup {None}, execute_io(s)
    PROVE  Inv'
<1>1. Runs /\ "IOWAIT" \in Waiting /\ "IOWAIT" \notin Ended
  BY DEF execute_io, MayDo, Waiting, Ended
<1>2. s # None => epoll[s] = None
  BY DEF execute_io
<1>3. QED
  BY <1>1, <1>2, QuietInstruction DEF execute_io

LEMMA ReturnInv == Allowed = {} /\ Inv /\ execute_return => Inv'
<1> SUFFICES ASSUME Allowed = {}, Inv, execute_return PROVE Inv'
  OBVIOUS
<1>1. Runs /\ (parent[current] # None => fork[current] = {}) /\ "COMPLETE" \in Ended
  BY DEF execute_return, MayEnd, Ended
<1>2. QED
  BY <1>1, RunningState, QuietInstruction DEF execute_return, poll

LEMMA FailFrameInv == Allowed = {} /\ Inv /\ fail_frame => Inv'
<1> SUFFICES ASSUME Allowed = {}, Inv, fail_frame PROVE Inv'
  OBVIOUS
<1>1. Runs /\ (parent[current] # None => fork[current] = {}) /\ "FAILED" \in Ended
  BY DEF fail_frame, MayDo, MayEnd, Ended
<1>2. QED
  BY <1>1, RunningState, QuietInstruction DEF fail_frame, poll

LEMMA ReadFailureInv == Allowed = {} /\ Inv /\ read_failure => Inv'
<1> SUFFICES ASSUME Allowed = {}, Inv, read_failure PROVE Inv'
  OBVIOUS
<1>1. Runs /\ "FAILED" \in Ended
  BY DEF read_failure, MayDo, Ended
<1>2. cftype[current] = "CALL"
  BY <1>1, RunningFrame DEF read_failure, Inv, TypeOK, Runs
<1>3. fcall[current] = current /\ (parent[current] # None => fork[current] = {})
  BY <1>1, <1>2, RunningState DEF read_failure, MayEnd
<1>4. QED
  BY <1>1, <1>3, RunningState, QuietInstruction DEF read_failure, poll

(* A frame that is created is unknown to everybody.                        *)
LEMMA UnbornFrame ==
    ASSUME Inv, NEW g \in Frame, status[g] = "unborn"
    PROVE  /\ g \notin Live /\ g \notin Running /\ g \notin Queued
           /\ g \notin Polling /\ g \notin newproc /\ g \notin Calling
           /\ io[g] = None
           /\ cftype[g] = "CALL" /\ parent[g] = None /\ fcall[g] = g
           /\ fork[g] = {} /\ cfstate[g] = "READY"
           /\ \A f \in Live : parent[f] # g /\ g \notin fork[f]
<1>1. g \notin Live
  BY DEF Live
<1>2. /\ g \notin Running /\ g \notin Queued /\ g \notin Polling
      /\ g \notin newproc /\ g \notin Calling
  BY <1>1 DEF Inv, Homes, NoLostFrame
<1>3. io[g] = None
  BY <1>2 DEF Polling
<1>4. /\ cftype[g] = "CALL" /\ parent[g] = None /\ fcall[g] = g
      /\ fork[g] = {} /\ cfstate[g] = "READY"
  BY DEF Inv, Tree, UnbornOK
<1>5. \A f \in Live : parent[f] # g /\ g \notin fork[f]
  BY <1>1, NoneAssumption DEF Inv, Tree, NoDangling
<1>6. QED
  BY <1>1, <1>2, <1>3, <1>4, <1>5

LEMMA CallInv ==
    ASSUME Inv, NEW g \in Frame, execute_call(g)
    PROVE  Inv'
<1>1. Runs /\ status[g] = "unborn"
  BY DEF execute_call, MayDo
<1>2. current \in Live /\ current \in Frame /\ at = "fetch" /\ current # None
  BY <1>1, RunningFrame DEF Runs
<1>3. TypeOK /\ Homes /\ Tree /\ EndsNow /\ AtOK /\ Io
  BY DEF Inv
<1>4. /\ status' = [status EXCEPT ![g] = "live"]
      /\ parent' = [parent EXCEPT ![g] = current]
      /\ current' = g
      /\ UNCHANGED <<cftype, fcall, fork, cfstate, fresh, stale, io, epoll, iocount, newproc>>
  BY DEF execute_call, poll
<1>5. g # current /\ g # None /\ g \notin Live /\ io[current] = None
  BY <1>1, <1>2, <1>3, UnbornFrame, NoneAssumption DEF AtOK
<1>6. at' = IF iocount > 0 THEN "iowork" ELSE "switch"
  BY <1>1, <1>4, UnbornFrame DEF execute_call, after_instruction
<1>7. TypeOK'
  BY <1>2, <1>3, <1>4, <1>6 DEF TypeOK
<1>8. Live' = Live \cup {g} /\ Calls' = Calls \cup {g}
  BY <1>1, <1>3, <1>4, UnbornFrame DEF Live, Calls, TypeOK
<1>9. Calling' = Calling \cup {current}
  <2>1. \A f \in Calls : parent'[f] = parent[f]
    BY <1>3, <1>4, <1>5 DEF Calls, Live, TypeOK
  <2>2. parent'[g] = current
    BY <1>3, <1>4 DEF TypeOK
  <2>3. QED
    BY <1>2, <1>8, <2>1, <2>2 DEF Calling
<1>10. Running' = {g} /\ Running = {current} /\ Queued' = Queued
  BY <1>2, <1>4, <1>5 DEF Running, Queued
<1>11. Polling' = Polling
  BY <1>1, <1>4, <1>5, <1>10, UnbornFrame DEF Polling
<1>12. Homes'
  <2>1. /\ g \notin Queued /\ g \notin Polling /\ g \notin newproc /\ g \notin Calling
    BY <1>1, UnbornFrame
  <2>2. OneHome'
    BY <1>3, <1>4, <1>5, <1>9, <1>10, <1>11, <2>1 DEF Homes, OneHome
  <2>3. NoLostFrame'
    BY <1>3, <1>4, <1>8, <1>9, <1>10, <1>11 DEF Homes, NoLostFrame
  <2>4. QED
    BY <2>2, <2>3 DEF Homes
<1>13. Tree'
  <2>1. NoDangling'
    BY <1>1, <1>2, <1>3, <1>4, <1>8, UnbornFrame DEF Tree, NoDangling, TypeOK, Live
  <2>2. CallStack'
    <3>1. current \notin Calling
      BY <1>2, RunningFrame
    <3>2. \A f \in Calls : parent[f] # current /\ parent'[f] = parent[f]
      BY <1>2, <1>3, <1>4, <1>5, <3>1 DEF Calling, Calls, Live, TypeOK
    <3>3. parent'[g] = current
      BY <1>3, <1>4 DEF TypeOK
    <3>4. QED
      BY <1>3, <1>8, <3>2, <3>3 DEF Tree, CallStack
  <2>3. ForkTree'
    BY <1>1, <1>3, <1>4, <1>8, UnbornFrame DEF Tree, ForkTree, TypeOK, Live
  <2>4. UnbornOK' /\ KindOK'
    BY <1>1, <1>2, <1>3, <1>4, <1>8, UnbornFrame DEF Tree, UnbornOK, KindOK, TypeOK, Live
  <2>5. QED
    BY <2>1, <2>2, <2>3, <2>4 DEF Tree
<1>14. EndsNow'
  <2>1. cfstate'[g] \notin Ended
    BY <1>1, <1>4, UnbornFrame DEF Ended
  <2>2. \A f \in Live : parent'[f] = parent[f]
    BY <1>3, <1>4, <1>5 DEF Live, TypeOK
  <2>3. QED
    BY <1>2, <1>3, <1>4, <1>8, <2>1, <2>2 DEF EndsNow
<1>15. AtOK'
  BY <1>1, <1>4, <1>5, <1>6, UnbornFrame DEF AtOK
<1>16. Io'
  BY <1>3, <1>4, <1>11, IoKept
<1>17. QED
  BY <1>7, <1>12, <1>13, <1>14, <1>15, <1>16 DEF Inv

LEMMA ForkInv ==
    ASSUME Inv, NEW g \in Frame, execute_fork(g)
    PROVE  Inv'
<1>1. Runs /\ status[g] = "unborn"
  BY DEF execute_fork, MayDo
<1>2. current \in Live /\ current \in Frame /\ at = "fetch" /\ current # None
  BY <1>1, RunningFrame DEF Runs
<1>3. TypeOK /\ Homes /\ Tree /\ EndsNow /\ AtOK /\ Io
  BY DEF Inv
<1>4. /\ status' = [status EXCEPT ![g] = "live"]
      /\ cftype' = [cftype EXCEPT ![g] = "FORK"]
      /\ parent' = [parent EXCEPT ![g] = current]
      /\ fcall' = [fcall EXCEPT ![g] = fcall[current]]
      /\ fork' = [fork EXCEPT ![current] = fork[current] \cup {g}]
      /\ fresh' = Append(fresh, g)
      /\ UNCHANGED <<cfstate, current, stale, io, epoll, iocount, newproc>>
  BY DEF execute_fork, poll
<1>5. g # current /\ g # None /\ g \notin Live /\ io[current] = None
  BY <1>1, <1>2, <1>3, UnbornFrame, NoneAssumption DEF AtOK
<1>6. at' = IF iocount > 0 THEN "iowork" ELSE "switch"
  BY <1>4, <1>5 DEF execute_fork, after_instruction
<1>7. /\ Append(fresh, g) \in Seq(Frame)
      /\ Range(Append(fresh, g)) = Range(fresh) \cup {g}
      /\ IsInjective(Append(fresh, g))
  <2>1. fresh \in Seq(Frame) /\ IsInjective(fresh) /\ g \notin Range(fresh)
    BY <1>1, <1>3, UnbornFrame DEF TypeOK, Homes, OneHome, Queued
  <2>2. QED
    BY <2>1, PushBack
<1>8. TypeOK'
  BY <1>2, <1>3, <1>4, <1>6, <1>7 DEF TypeOK
<1>9. Live' = Live \cup {g} /\ Calls' = Calls
  BY <1>1, <1>3, <1>4, <1>5, UnbornFrame DEF Live, Calls, TypeOK
<1>10. \A f \in Live : parent'[f] = parent[f] /\ cftype'[f] = cftype[f]
  BY <1>3, <1>4, <1>5 DEF Live, TypeOK
<1>11. parent'[g] = current /\ cftype'[g] = "FORK"
  BY <1>3, <1>4 DEF TypeOK
<1>12. Calling' = Calling
  BY <1>9, <1>10 DEF Calling, Calls
<1>13. Running' = Running /\ Queued' = Queued \cup {g} /\ Polling' = Polling
  BY <1>4, <1>7 DEF Running, Queued, Polling
<1>14. Homes'
  <2>1. /\ g \notin Running /\ g \notin Queued /\ g \notin Polling
        /\ g \notin newproc /\ g \notin Calling
    BY <1>1, UnbornFrame
  <2>2. IsInjective(fresh') /\ IsInjective(stale') /\ Range(fresh') \cap Range(stale') = {}
    BY <1>3, <1>4, <1>7, <2>1 DEF Homes, OneHome, Queued
  <2>3. OneHome'
    BY <1>3, <1>4, <1>12, <1>13, <2>1, <2>2 DEF Homes, OneHome
  <2>4. NoLostFrame'
    BY <1>3, <1>4, <1>9, <1>12, <1>13 DEF Homes, NoLostFrame
  <2>5. QED
    BY <2>3, <2>4 DEF Homes
<1>15. Tree'
  <2>1. NoDangling'
    BY <1>1, <1>2, <1>3, <1>4, <1>9, UnbornFrame DEF Tree, NoDangling, TypeOK, Live
  <2>2. CallStack'
    BY <1>3, <1>9, <1>10 DEF Tree, CallStack, Calls
  <2>3. ForkTree'
    <3>1. SUFFICES ASSUME NEW f \in Live'
                   PROVE  fork'[f] = {h \in Live' : cftype'[h] = "FORK" /\ parent'[h] = f}
      BY DEF ForkTree
    <3>2. CASE f = g
      <4>1. fork'[f] = {}
        BY <1>1, <1>3, <1>4, <1>5, <3>2, UnbornFrame DEF TypeOK
      <4>2. \A h \in Live' : parent'[h] # g
        BY <1>1, <1>5, <1>9, <1>10, <1>11, UnbornFrame
      <4>3. QED
        BY <3>2, <4>1, <4>2
    <3>3. CASE f = current
      <4>1. fork'[f] = fork[f] \cup {g}
        BY <1>2, <1>3, <1>4, <3>3 DEF TypeOK
      <4>2. fork[f] = {h \in Live : cftype[h] = "FORK" /\ parent[h] = f}
        BY <1>2, <1>3, <3>3 DEF Tree, ForkTree
      <4>3. QED
        BY <1>9, <1>10, <1>11, <3>3, <4>1, <4>2
    <3>4. CASE f # g /\ f # current
      <4>1. f \in Live /\ fork'[f] = fork[f]
        BY <1>3, <1>4, <1>9, <3>4 DEF TypeOK, Live
      <4>2. fork[f] = {h \in Live : cftype[h] = "FORK" /\ parent[h] = f}
        BY <1>3, <4>1 DEF Tree, ForkTree
      <4>3. QED
        BY <1>9, <1>10, <1>11, <3>4, <4>1, <4>2
    <3>5. QED
      BY <3>2, <3>3, <3>4
  <2>4. UnbornOK'
    BY <1>2, <1>3, <1>4, <1>5 DEF Tree, UnbornOK, TypeOK, Live
  <2>5. KindOK'
    BY <1>2, <1>3, <1>4, <1>5, <1>9, <1>10, <1>11 DEF Tree, KindOK, TypeOK, Live
  <2>6. QED
    BY <2>1, <2>2, <2>3, <2>4, <2>5 DEF Tree
<1>16. EndsNow'
  <2>1. cfstate'[g] \notin Ended
    BY <1>1, <1>4, UnbornFrame DEF Ended
  <2>2. \A f \in Live : cfstate[f] \in Ended => parent'[f] = None
    BY <1>2, <1>3, <1>10 DEF EndsNow
  <2>3. QED
    BY <1>4, <1>9, <2>1, <2>2 DEF EndsNow
<1>17. AtOK'
  BY <1>2, <1>4, <1>5, <1>6 DEF AtOK
<1>18. Io'
  BY <1>3, <1>4, <1>13, IoKept
<1>19. QED
  BY <1>8, <1>14, <1>15, <1>16, <1>17, <1>18 DEF Inv

LEMMA NewprocInv ==
    ASSUME Inv, NEW g \in Frame, execute_newproc(g)
    PROVE  Inv'
<1>1. Runs /\ status[g] = "unborn"
  BY DEF execute_newproc, MayDo
<1>2. current \in Live /\ current \in Frame /\ at = "fetch" /\ current # None
  BY <1>1, RunningFrame DEF Runs
<1>3. TypeOK /\ Homes /\ Tree /\ EndsNow /\ AtOK /\ Io
  BY DEF Inv
<1>4. /\ status' = [status EXCEPT ![g] = "live"]
      /\ newproc' = newproc \cup {g}
      /\ UNCHANGED <<cftype, parent, fcall, fork, cfstate, current, fresh, stale,
                     io, epoll, iocount>>
  BY DEF execute_newproc, poll, queue
<1>5. g # current /\ g \notin Live /\ io[current] = None
  BY <1>1, <1>2, <1>3, UnbornFrame DEF AtOK
<1>6. at' = IF iocount > 0 THEN "iowork" ELSE "switch"
  BY <1>4, <1>5 DEF execute_newproc, after_instruction
<1>7. TypeOK'
  BY <1>3, <1>4, <1>6 DEF TypeOK
<1>8. Live' = Live \cup {g} /\ Calls' = Calls \cup {g}
  BY <1>1, <1>3, <1>4, UnbornFrame DEF Live, Calls, TypeOK
<1>9. Calling' = Calling
  BY <1>1, <1>4, <1>8, UnbornFrame DEF Calling
<1>10. Running' = Running /\ Queued' = Queued /\ Polling' = Polling
  BY <1>4 DEF Running, Queued, Polling
<1>11. Homes'
  <2>1. /\ g \notin Running /\ g \notin Queued /\ g \notin Polling /\ g \notin Calling
    BY <1>1, UnbornFrame
  <2>2. QED
    BY <1>3, <1>4, <1>8, <1>9, <1>10, <2>1 DEF Homes, OneHome, NoLostFrame
<1>12. Tree'
  <2>1. NoDangling'
    BY <1>1, <1>3, <1>4, <1>8, UnbornFrame DEF Tree, NoDangling
  <2>2. CallStack'
    BY <1>1, <1>3, <1>4, <1>8, UnbornFrame DEF Tree, CallStack
  <2>3. ForkTree'
    <3>1. {h \in Live : cftype[h] = "FORK" /\ parent[h] = g} = {}
      BY <1>1, UnbornFrame
    <3>2. QED
      BY <1>1, <1>3, <1>4, <1>8, <3>1, UnbornFrame DEF Tree, ForkTree
  <2>4. UnbornOK' /\ KindOK'
    BY <1>1, <1>3, <1>4, <1>8, UnbornFrame DEF Tree, UnbornOK, KindOK, TypeOK
  <2>5. QED
    BY <2>1, <2>2, <2>3, <2>4 DEF Tree
<1>13. EndsNow'
  BY <1>1, <1>2, <1>3, <1>4, <1>8, UnbornFrame DEF EndsNow, Ended
<1>14. AtOK'
  BY <1>2, <1>4, <1>5, <1>6 DEF AtOK
<1>15. Io'
  BY <1>3, <1>4, <1>10, IoKept
<1>16. QED
  BY <1>7, <1>11, <1>12, <1>13, <1>14, <1>15 DEF Inv

-----------------------------------------------------------------------------
(***************************************************************************)
(* I/O                                                                     *)
(***************************************************************************)
LEMMA IopushInv == Inv /\ iopush => Inv'
<1> SUFFICES ASSUME Inv, iopush PROVE Inv'
  OBVIOUS
<1>1. TypeOK /\ Homes /\ Tree /\ EndsNow /\ AtOK /\ Io
  BY DEF Inv
<1>2. /\ at = "iopush" /\ at' = "iowork" /\ current' = None
      /\ epoll' = [epoll EXCEPT ![io[current]] =
                    IF epoll[io[current]] = None THEN current ELSE epoll[io[current]]]
      /\ iocount' = iocount + 1
      /\ UNCHANGED <<tree, cfstate, io, fresh, stale, newproc>>
  BY DEF iopush
<1>3. current # None /\ io[current] # None /\ epoll[io[current]] = None
  BY <1>1, <1>2 DEF AtOK
<1>4. /\ current \in Live /\ current \in Frame /\ io[current] \in Stream
      /\ current \notin Queued /\ current \notin Polling
      /\ current \notin newproc /\ current \notin Calling
  BY <1>1, <1>3, RunningFrame DEF TypeOK
<1>5. epoll' = [epoll EXCEPT ![io[current]] = current]
  BY <1>2, <1>3
<1>6. TypeOK'
  BY <1>1, <1>2, <1>4, <1>5 DEF TypeOK, tree
<1>7. Running = {current} /\ Running' = {}
  BY <1>2, <1>3 DEF Running
<1>8. Polling' = Polling \cup {current}
  BY <1>2, <1>3, <1>4, <1>7 DEF Polling
<1>9. Live' = Live /\ Calls' = Calls /\ Calling' = Calling /\ Queued' = Queued
  BY <1>2 DEF Live, Calls, Calling, Queued, tree
<1>10. Homes'
  BY <1>1, <1>2, <1>4, <1>7, <1>8, <1>9 DEF Homes, OneHome, NoLostFrame
<1>11. Tree'
  BY <1>1, <1>2, TreeKept
<1>12. EndsNow'
  BY <1>1, <1>2, <1>9 DEF EndsNow, tree
<1>13. AtOK'
  BY <1>2 DEF AtOK
<1>14. Io'
  <2>1. IsFiniteSet(Polling) /\ iocount = Cardinality(Polling)
    BY <1>1 DEF Io, PollingFinite, IoAccounting
  <2>2. IsFiniteSet(Polling') /\ iocount' = Cardinality(Polling')
    BY <1>2, <1>4, <1>8, <2>1, FS_AddElement
  <2>3. \A f \in Polling : epoll[io[f]] = f /\ f # None
    BY <1>1, NoneAssumption DEF Io, IoAccounting, Polling
  <2>4. \A f \in Polling' : epoll'[io'[f]] = f
    BY <1>1, <1>2, <1>3, <1>4, <1>5, <1>8, <2>3 DEF TypeOK, Polling
  <2>5. EpollOK'
    <3>1. SUFFICES ASSUME NEW s \in Stream, epoll'[s] # None
                   PROVE  epoll'[s] \in Polling' /\ io'[epoll'[s]] = s
      BY DEF EpollOK
    <3>2. CASE s = io[current]
      BY <1>1, <1>2, <1>4, <1>5, <1>8, <3>2 DEF TypeOK
    <3>3. CASE s # io[current]
      BY <1>1, <1>2, <1>5, <1>8, <3>1, <3>3 DEF TypeOK, Io, EpollOK
    <3>4. QED
      BY <3>2, <3>3
  <2>6. QED
    BY <2>2, <2>4, <2>5 DEF Io, IoAccounting, PollingFinite
<1>15. QED
  BY <1>6, <1>10, <1>11, <1>12, <1>13, <1>14 DEF Inv

LEMMA IopopInv ==
    ASSUME Inv, NEW s \in Stream, iopop(s)
    PROVE  Inv'
<1> DEFINE f == epoll[s]
<1>1. TypeOK /\ Homes /\ Tree /\ EndsNow /\ AtOK /\ Io
  BY DEF Inv
<1>2. /\ at = "iowork" /\ f # None
      /\ io' = [io EXCEPT ![f] = None]
      /\ cfstate' = [cfstate EXCEPT ![f] = "READY"]
      /\ stale' = Append(stale, f)
      /\ epoll' = [epoll EXCEPT ![s] = None]
      /\ iocount' = iocount - 1
      /\ UNCHANGED <<tree, current, fresh, newproc, at>>
  BY DEF iopop
<1>3. f \in Polling /\ io[f] = s
  BY <1>1, <1>2 DEF Io, EpollOK
<1>4. f \in Frame /\ f \in Live
  BY <1>1, <1>3 DEF Polling, Homes, NoLostFrame
<1>5. f \notin Running /\ f \notin Queued /\ f \notin newproc /\ f \notin Calling
  BY <1>1, <1>3 DEF Homes, OneHome
<1> HIDE DEF f
<1>6. /\ Append(stale, f) \in Seq(Frame)
      /\ Range(Append(stale, f)) = Range(stale) \cup {f}
      /\ IsInjective(Append(stale, f))
  <2>1. stale \in Seq(Frame) /\ IsInjective(stale) /\ f \notin Range(stale)
    BY <1>1, <1>5 DEF TypeOK, Homes, OneHome, Queued
  <2>2. QED
    BY <1>4, <2>1, PushBack
<1>7. Running' = Running /\ Queued' = Queued \cup {f}
  BY <1>2, <1>6 DEF Running, Queued
<1>8. Polling' = Polling \ {f}
  BY <1>1, <1>2, <1>4, <1>7 DEF Polling, TypeOK
<1>9. Live' = Live /\ Calls' = Calls /\ Calling' = Calling
  BY <1>2 DEF Live, Calls, Calling, tree
<1>10. IsFiniteSet(Polling') /\ iocount' = Cardinality(Polling') /\ iocount' \in Nat
  <2>1. IsFiniteSet(Polling) /\ iocount = Cardinality(Polling)
    BY <1>1 DEF Io, PollingFinite, IoAccounting
  <2>2. IsFiniteSet(Polling') /\ Cardinality(Polling') = Cardinality(Polling) - 1
    BY <1>3, <1>8, <2>1, FS_RemoveElement
  <2>3. QED
    BY <1>2, <2>1, <2>2, FS_CardinalityType
<1>11. TypeOK'
  BY <1>1, <1>2, <1>4, <1>6, <1>10 DEF TypeOK, tree
<1>12. Homes'
  <2>1. Range(fresh') \cap Range(stale') = {} /\ IsInjective(fresh') /\ IsInjective(stale')
    BY <1>1, <1>2, <1>5, <1>6 DEF Homes, OneHome, Queued
  <2>2. QED
    BY <1>1, <1>2, <1>3, <1>5, <1>7, <1>8, <1>9, <2>1 DEF Homes, OneHome, NoLostFrame
<1>13. Tree'
  <2>1. \A g \in Frame : cfstate'[g] = cfstate[g] \/ g \in Live
    BY <1>1, <1>2, <1>4 DEF TypeOK
  <2>2. QED
    BY <1>1, <1>2, <2>1, TreeKept
<1>14. EndsNow'
  <2>1. \A g \in Live : cfstate'[g] \in Ended => cfstate[g] \in Ended
    BY <1>1, <1>2 DEF TypeOK, Live, Ended
  <2>2. QED
    BY <1>1, <1>2, <1>9, <2>1 DEF EndsNow, tree
<1>15. AtOK'
  BY <1>1, <1>2, <1>5 DEF AtOK, TypeOK, Running
<1>16. Io'
  <2>1. \A g \in Polling' : g # f /\ g \in Polling /\ io'[g] = io[g]
    BY <1>1, <1>2, <1>8 DEF TypeOK, Polling
  <2>2. \A g \in Polling' : epoll'[io'[g]] = g
    BY <1>1, <1>2, <2>1 DEF TypeOK, Io, IoAccounting, Polling, f
  <2>3. EpollOK'
    BY <1>1, <1>2, <1>3, <1>8 DEF TypeOK, Io, EpollOK
  <2>4. QED
    BY <1>10, <2>2, <2>3 DEF Io, IoAccounting, PollingFinite
<1>17. QED
  BY <1>11, <1>12, <1>13, <1>14, <1>15, <1>16 DEF Inv

(* findtask() on behalf of a worker that runs nothing.                     *)
LEMMA IdleFindtask ==
    ASSUME Inv, current = None, at \in {"fetch", "iowork"}, findtask(stale),
           UNCHANGED <<tree, cfstate, poll, newproc>>,
           at' \in {"fetch", "switch", "segv"}, at' = "switch" => current' # None
    PROVE  Inv'
<1>1. TypeOK /\ Homes /\ Tree /\ EndsNow /\ AtOK /\ Io
  BY DEF Inv
<1>2. /\ current' \in Frame \cup {None}
      /\ fresh' \in Seq(Frame) /\ stale' \in Seq(Frame)
      /\ IsInjective(fresh') /\ IsInjective(stale')
      /\ Range(fresh') \cap Range(stale') = {}
      /\ Queued = Running' \cup Queued'
      /\ Running' \cap Queued' = {}
  <2>1. /\ stale \in Seq(Frame) /\ IsInjective(fresh) /\ IsInjective(stale)
        /\ Range(fresh) \cap Range(stale) = {}
    BY <1>1 DEF TypeOK, Homes, OneHome
  <2>2. QED
    BY <1>1, <2>1, Findtask DEF Queued
<1>3. UNCHANGED <<io, epoll, iocount>>
  BY DEF poll
<1>4. TypeOK'
  BY <1>1, <1>2, <1>3 DEF TypeOK, tree
<1>5. Running = {} /\ Live' = Live /\ Calls' = Calls /\ Calling' = Calling
  BY DEF Running, Live, Calls, Calling, tree
<1>6. Polling' = Polling
  <2>1. Polling = {f \in Frame : io[f] # None}
    BY <1>5 DEF Polling
  <2>2. Running' \cap Polling = {}
    BY <1>1, <1>2 DEF Homes, OneHome
  <2>3. QED
    BY <1>3, <2>1, <2>2 DEF Polling
<1>7. Homes'
  BY <1>1, <1>2, <1>5, <1>6 DEF Homes, OneHome, NoLostFrame
<1>8. Tree'
  BY <1>1, TreeKept
<1>9. EndsNow'
  BY <1>1, <1>5, NoneAssumption DEF EndsNow, tree, Live
<1>10. AtOK'
  <2>1. current' # None => io[current'] = None
    BY <1>1, <1>2, <1>5 DEF Homes, OneHome, Running, Polling
  <2>2. QED
    BY <1>3, <2>1 DEF AtOK
<1>11. Io'
  BY <1>1, <1>3, <1>6, IoKept
<1>12. QED
  BY <1>4, <1>7, <1>8, <1>9, <1>10, <1>11 DEF Inv

LEMMA IdleInv == Inv /\ idle => Inv'
<1> SUFFICES ASSUME Inv, idle PROVE Inv'
  OBVIOUS
<1>1. QED
  BY IdleFindtask DEF idle

LEMMA IoworkDoneInv == Inv /\ iowork_done => Inv'
<1> SUFFICES ASSUME Inv, iowork_done PROVE Inv'
  OBVIOUS
<1>1. TypeOK /\ Homes /\ Tree /\ EndsNow /\ AtOK /\ Io
  BY DEF Inv
<1>2. /\ at = "iowork" /\ at' = IF current' = None THEN "segv" ELSE "switch"
      /\ UNCHANGED <<tree, cfstate, poll, newproc>>
  BY DEF iowork_done
<1>3. CASE current = None
  BY <1>2, <1>3, IdleFindtask DEF iowork_done
<1>4. CASE current # None
  <2>1. UNCHANGED queue
    BY <1>4 DEF iowork_done
  <2>2. current' # None /\ at' = "switch" /\ UNCHANGED <<current, io, epoll, iocount>>
    BY <1>2, <1>4, <2>1 DEF queue, poll
  <2>3. TypeOK'
    BY <1>1, <1>2, <2>1, <2>2 DEF TypeOK, tree, queue
  <2>4. Homes' /\ Tree'
    BY <1>1, <1>2, <2>1, <2>2, HomesKept, TreeKept
  <2>5. EndsNow'
    BY <1>1, <1>2, <2>2 DEF EndsNow, tree, Live
  <2>6. AtOK'
    BY <1>1, <1>2, <1>4, <2>2 DEF AtOK
  <2>7. Io'
    BY <1>1, <2>2, IoKept DEF Polling, Running
  <2>8. QED
    BY <2>3, <2>4, <2>5, <2>6, <2>7 DEF Inv
<1>5. QED
  BY <1>3, <1>4

-----------------------------------------------------------------------------
(***************************************************************************)
(* The switch on the state of the current frame                            *)
(***************************************************************************)
LEMMA SwitchReadyInv == Inv /\ switch_ready => Inv'
<1> SUFFICES ASSUME Inv, switch_ready PROVE Inv'
  OBVIOUS
<1>1. TypeOK /\ Homes /\ Tree /\ EndsNow /\ AtOK /\ Io
  BY DEF Inv
<1>2. /\ at = "switch" /\ at' = "fetch" /\ cfstate[current] = "READY"
      /\ UNCHANGED <<tree, cfstate, queue, poll, newproc>>
  BY DEF switch_ready, Switch
<1>3. UNCHANGED <<current, io, epoll, iocount>>
  BY <1>2 DEF queue, poll
<1>4. TypeOK'
  BY <1>1, <1>2, <1>3 DEF TypeOK, tree, queue
<1>5. Homes' /\ Tree'
  BY <1>1, <1>2, <1>3, HomesKept, TreeKept
<1>6. EndsNow'
  BY <1>1, <1>2 DEF EndsNow, tree, Live, Ended
<1>7. AtOK'
  BY <1>1, <1>2, <1>3 DEF AtOK
<1>8. Io'
  BY <1>1, <1>3, IoKept DEF Polling, Running
<1>9. QED
  BY <1>4, <1>5, <1>6, <1>7, <1>8 DEF Inv

LEMMA SwitchWaitInv == Inv /\ switch_wait => Inv'
<1> SUFFICES ASSUME Inv, switch_wait PROVE Inv'
  OBVIOUS
<1>1. TypeOK /\ Homes /\ Tree /\ EndsNow /\ AtOK /\ Io
  BY DEF Inv
<1>2. /\ at = "switch" /\ at' = "fetch" /\ cfstate[current] \in Waiting
      /\ stale' = Append(stale, current)
      /\ current' = None
      /\ UNCHANGED <<tree, cfstate, fresh, io, epoll, iocount, newproc>>
  BY DEF switch_wait, Switch, poll
<1>3. /\ current \in Live /\ current \in Frame /\ current # None /\ io[current] = None
      /\ current \notin Queued /\ current \notin Polling
      /\ current \notin newproc /\ current \notin Calling
  BY <1>1, <1>2, RunningFrame DEF AtOK
<1>4. /\ Append(stale, current) \in Seq(Frame)
      /\ Range(Append(stale, current)) = Range(stale) \cup {current}
      /\ IsInjective(Append(stale, current))
  <2>1. stale \in Seq(Frame) /\ IsInjective(stale) /\ current \notin Range(stale)
    BY <1>1, <1>3 DEF TypeOK, Homes, OneHome, Queued
  <2>2. QED
    BY <1>3, <2>1, PushBack
<1>5. TypeOK'
  BY <1>1, <1>2, <1>4 DEF TypeOK, tree
<1>6. Running = {current} /\ Running' = {} /\ Queued' = Queued \cup {current}
  BY <1>2, <1>3, <1>4 DEF Running, Queued
<1>7. Polling' = Polling
  BY <1>2, <1>3, <1>6 DEF Polling
<1>8. Live' = Live /\ Calls' = Calls /\ Calling' = Calling
  BY <1>2 DEF Live, Calls, Calling, tree
<1>9. Homes'
  <2>1. IsInjective(fresh') /\ IsInjective(stale') /\ Range(fresh') \cap Range(stale') = {}
    BY <1>1, <1>2, <1>3, <1>4 DEF Homes, OneHome, Queued
  <2>2. QED
    BY <1>1, <1>2, <1>3, <1>6, <1>7, <1>8, <2>1 DEF Homes, OneHome, NoLostFrame
<1>10. Tree'
  BY <1>1, <1>2, TreeKept
<1>11. EndsNow'
  BY <1>1, <1>2 DEF EndsNow, tree, Live, Ended, Waiting
<1>12. AtOK'
  BY <1>2 DEF AtOK
<1>13. Io'
  BY <1>1, <1>2, <1>7, IoKept
<1>14. QED
  BY <1>5, <1>9, <1>10, <1>11, <1>12, <1>13 DEF Inv

(* A frame that ends has no callee.  Unless it is a root it has no forked  *)
(* path either, so that finish_frame() deletes it.                         *)
LEMMA EndingFrame ==
    ASSUME Inv, Switch(Ended)
    PROVE  /\ current \in Live /\ current \in Frame /\ current # None
           /\ io[current] = None /\ at = "switch" /\ at' = "fetch"
           /\ current \notin Queued /\ current \notin Polling
           /\ current \notin newproc /\ current \notin Calling
           /\ parent[current] # None => fork[current] = {}
           /\ fork[current] = {} => \A f \in Live : parent[f] # current
<1>1. TypeOK /\ Homes /\ Tree /\ EndsNow /\ AtOK
  BY DEF Inv
<1>2. at = "switch" /\ at' = "fetch" /\ cfstate[current] \in Ended
  BY DEF Switch
<1>3. /\ current \in Live /\ current \in Frame /\ current # None /\ io[current] = None
      /\ current \notin Queued /\ current \notin Polling
      /\ current \notin newproc /\ current \notin Calling
  BY <1>1, <1>2, RunningFrame DEF AtOK
<1>4. parent[current] # None => fork[current] = {}
  BY <1>1, <1>2, <1>3 DEF EndsNow
<1>5. ASSUME fork[current] = {}, NEW f \in Live PROVE parent[f] # current
  <2>1. CASE cftype[f] = "FORK"
    BY <1>1, <1>3, <1>5, <2>1 DEF Tree, ForkTree
  <2>2. CASE cftype[f] = "CALL"
    BY <1>3, <2>2 DEF Calling, Calls
  <2>3. QED
    BY <1>1, <2>1, <2>2 DEF TypeOK, Live
<1>6. QED
  BY <1>2, <1>3, <1>4, <1>5

(* Deleting the ended frame leaves the other frames a well-formed tree.    *)
LEMMA BuriedTree ==
    ASSUME Inv, Switch(Ended), fork[current] = {},
           status' = [status EXCEPT ![current] = "dead"],
           UNCHANGED <<cftype, parent, fcall, cfstate>>,
           \A f \in Live : fork'[f] = fork[f] \ {current},
           \A f \in Frame : status[f] = "unborn" => fork'[f] = fork[f]
    PROVE  Tree' /\ Live' = Live \ {current} /\ Calls' = Calls \ {current}
<1>1. TypeOK /\ Tree
  BY DEF Inv
<1>2. /\ current \in Live /\ current \in Frame /\ current # None
      /\ \A f \in Live : parent[f] # current
  BY EndingFrame
<1>3. Live' = Live \ {current} /\ Calls' = Calls \ {current}
  BY <1>1, <1>2 DEF Live, Calls, TypeOK
<1>4. NoDangling'
  BY <1>1, <1>2, <1>3 DEF Tree, NoDangling
<1>5. CallStack'
  BY <1>1, <1>3 DEF Tree, CallStack
<1>6. ForkTree'
  <2>1. SUFFICES ASSUME NEW f \in Live'
                 PROVE  fork'[f] = {h \in Live' : cftype'[h] = "FORK" /\ parent'[h] = f}
    BY DEF ForkTree
  <2>2. fork[f] = {h \in Live : cftype[h] = "FORK" /\ parent[h] = f}
    BY <1>1, <1>3 DEF Tree, ForkTree
  <2>3. QED
    BY <1>3, <2>2
<1>7. UnbornOK' /\ KindOK'
  BY <1>1, <1>2, <1>3 DEF Tree, UnbornOK, KindOK, TypeOK, Live
<1>8. QED
  BY <1>3, <1>4, <1>5, <1>6, <1>7 DEF Tree

LEMMA FinishCallInv == Inv /\ finish_call => Inv'
<1> SUFFICES ASSUME Inv, finish_call PROVE Inv'
  OBVIOUS
<1>1. TypeOK /\ Homes /\ Tree /\ EndsNow /\ AtOK /\ Io
  BY DEF Inv
<1>2. /\ Switch(Ended) /\ cftype[current] = "CALL"
      /\ bury(current) /\ stale' = StaleWith(current)
      /\ current' = parent[current]
      /\ UNCHANGED <<cftype, parent, fcall, fork, cfstate, fresh, io, epoll, iocount, newproc>>
  BY DEF finish_call, poll
<1>3. /\ current \in Live /\ current \in Frame /\ current # None
      /\ io[current] = None /\ at = "switch" /\ at' = "fetch"
      /\ current \notin Queued /\ current \notin Polling
      /\ current \notin newproc /\ current \notin Calling
      /\ parent[current] # None => fork[current] = {}
  BY <1>2, EndingFrame
<1>4. Running = {current}
  BY <1>3 DEF Running
<1>5. CASE fork[current] = {}
  <2>1. status' = [status EXCEPT ![current] = "dead"] /\ stale' = stale
    BY <1>2, <1>5 DEF bury, StaleWith
  <2>2. \A f \in Live : parent[f] # current
    BY <1>2, <1>5, EndingFrame
  <2>3. Tree' /\ Live' = Live \ {current} /\ Calls' = Calls \ {current}
    <3>1. \A f \in Live : fork'[f] = fork[f] \ {current}
      BY <1>1, <1>2, <1>3, <2>2 DEF Tree, ForkTree
    <3>2. QED
      BY <1>2, <1>5, <2>1, <3>1, BuriedTree
  <2>4. TypeOK'
    BY <1>1, <1>2, <1>3, <2>1 DEF TypeOK
  <2>5. current' # current
    BY <1>2, <1>3, <2>2
  <2>6. Calling = Calling' \cup Running' /\ Calling' \cap Running' = {}
    <3>1. current \in Calls
      BY <1>2, <1>3 DEF Calls
    <3>2. \A f \in Calls : f # current => parent[f] # parent[current] \/ parent[f] = None
      BY <1>1, <3>1 DEF Tree, CallStack
    <3>3. Running' = {parent[current]} \ {None}
      BY <1>2 DEF Running
    <3>4. Calling' = {parent[f] : f \in Calls \ {current}} \ {None}
      BY <1>2, <2>3 DEF Calling
    <3>5. QED
      BY <3>1, <3>2, <3>3, <3>4 DEF Calling
  <2>7. Queued' = Queued
    BY <1>2, <2>1 DEF Queued
  <2>8. Polling' = Polling
    <3>1. Running' \cap Polling = {}
      BY <1>1, <2>6 DEF Homes, OneHome
    <3>2. current \in Running
      BY <1>4
    <3>3. Polling' = {f \in Frame : io[f] # None} \ Running'
      BY <1>2 DEF Polling
    <3>4. Polling = {f \in Frame : io[f] # None}
      BY <1>3, <1>4 DEF Polling
    <3>5. QED
      BY <3>1, <3>3, <3>4
  <2>9. Homes'
    BY <1>1, <1>2, <1>3, <1>4, <2>1, <2>3, <2>6, <2>7, <2>8 DEF Homes, OneHome, NoLostFrame
  <2>10. EndsNow'
    BY <1>1, <1>2, <2>3 DEF EndsNow
  <2>11. AtOK'
    <3>1. current' # None => io[current'] = None
      <4>1. current' # None => current' \in Frame /\ current' \in Calling
        BY <2>4, <2>6 DEF Running, TypeOK
      <4>2. current' # None => current' \notin Polling
        BY <1>1, <4>1 DEF Homes, OneHome
      <4>3. QED
        BY <1>4, <2>5, <4>1, <4>2 DEF Polling
    <3>2. QED
      BY <1>2, <1>3, <2>6, <2>8, <3>1 DEF AtOK
  <2>12. Io'
    BY <1>1, <1>2, <2>8, IoKept
  <2>13. QED
    BY <2>3, <2>4, <2>9, <2>10, <2>11, <2>12 DEF Inv
<1>6. CASE fork[current] # {}
  <2>1. status' = status /\ stale' = Append(stale, current) /\ current' = None
    BY <1>2, <1>3, <1>6 DEF bury, StaleWith
  <2>2. /\ Append(stale, current) \in Seq(Frame)
        /\ Range(Append(stale, current)) = Range(stale) \cup {current}
        /\ IsInjective(Append(stale, current))
    <3>1. stale \in Seq(Frame) /\ IsInjective(stale) /\ current \notin Range(stale)
      BY <1>1, <1>3 DEF TypeOK, Homes, OneHome, Queued
    <3>2. QED
      BY <1>3, <3>1, PushBack
  <2>3. TypeOK'
    BY <1>1, <1>2, <1>3, <2>1, <2>2 DEF TypeOK
  <2>4. Running' = {} /\ Queued' = Queued \cup {current}
    BY <1>2, <2>1, <2>2 DEF Running, Queued
  <2>5. Polling' = Polling
    BY <1>2, <1>3, <1>4, <2>4 DEF Polling
  <2>6. Live' = Live /\ Calls' = Calls /\ Calling' = Calling
    BY <1>2, <2>1 DEF Live, Calls, Calling
  <2>7. Homes'
    <3>1. IsInjective(fresh') /\ IsInjective(stale') /\ Range(fresh') \cap Range(stale') = {}
      BY <1>1, <1>2, <1>3, <2>1, <2>2 DEF Homes, OneHome, Queued
    <3>2. QED
      BY <1>1, <1>2, <1>3, <1>4, <2>4, <2>5, <2>6, <3>1 DEF Homes, OneHome, NoLostFrame
  <2>8. Tree'
    BY <1>1, <1>2, <2>1, TreeKept DEF tree
  <2>9. EndsNow'
    BY <1>1, <1>2, <1>3, <1>6, <2>1, <2>6 DEF EndsNow
  <2>10. AtOK'
    BY <1>3, <2>1 DEF AtOK
  <2>11. Io'
    BY <1>1, <1>2, <2>5, IoKept
  <2>12. QED
    BY <2>3, <2>7, <2>8, <2>9, <2>10, <2>11 DEF Inv
<1>7. QED
  BY <1>5, <1>6

LEMMA FinishPathInv == Inv /\ finish_path => Inv'
<1> SUFFICES ASSUME Inv, finish_path PROVE Inv'
  OBVIOUS
<1>1. TypeOK /\ Homes /\ Tree /\ EndsNow /\ AtOK /\ Io
  BY DEF Inv
<1>2. /\ Switch(Ended) /\ cftype[current] = "FORK"
      /\ fork' = [fork EXCEPT ![parent[current]] = fork[parent[current]] \ {current}]
      /\ bury(current) /\ findtask(StaleWith(current))
      /\ UNCHANGED <<cftype, parent, fcall, cfstate, io, epoll, iocount, newproc>>
  BY DEF finish_path, poll
<1>3. /\ current \in Live /\ current \in Frame /\ current # None
      /\ io[current] = None /\ at = "switch" /\ at' = "fetch"
      /\ current \notin Queued /\ current \notin Polling
      /\ current \notin newproc /\ current \notin Calling
      /\ parent[current] # None => fork[current] = {}
  BY <1>2, EndingFrame
<1>4. parent[current] \in Live /\ fork[current] = {}
  BY <1>1, <1>2, <1>3 DEF Tree, KindOK, NoDangling
<1>5. status' = [status EXCEPT ![current] = "dead"] /\ findtask(stale)
  BY <1>2, <1>4 DEF bury, StaleWith
<1>6. /\ current' \in Frame \cup {None}
      /\ fresh' \in Seq(Frame) /\ stale' \in Seq(Frame)
      /\ IsInjective(fresh') /\ IsInjective(stale')
      /\ Range(fresh') \cap Range(stale') = {}
      /\ Queued = Running' \cup Queued'
      /\ Running' \cap Queued' = {}
  <2>1. /\ stale \in Seq(Frame) /\ IsInjective(fresh) /\ IsInjective(stale)
        /\ Range(fresh) \cap Range(stale) = {}
    BY <1>1 DEF TypeOK, Homes, OneHome
  <2>2. QED
    BY <1>1, <1>5, <2>1, Findtask DEF Queued
<1>7. Tree' /\ Live' = Live \ {current} /\ Calls' = Calls \ {current}
  <2>1. \A f \in Live : fork'[f] = fork[f] \ {current}
    <3>1. SUFFICES ASSUME NEW f \in Live PROVE fork'[f] = fork[f] \ {current}
      OBVIOUS
    <3>2. CASE f = parent[current]
      BY <1>1, <1>2, <1>4, <3>2 DEF TypeOK, Live
    <3>3. CASE f # parent[current]
      <4>1. fork'[f] = fork[f]
        BY <1>1, <1>2, <3>3 DEF TypeOK, Live
      <4>2. current \notin fork[f]
        BY <1>1, <3>3 DEF Tree, ForkTree
      <4>3. QED
        BY <4>1, <4>2
    <3>4. QED
      BY <3>2, <3>3
  <2>2. \A f \in Frame : status[f] = "unborn" => fork'[f] = fork[f]
    BY <1>1, <1>2, <1>4 DEF TypeOK, Live
  <2>3. QED
    BY <1>2, <1>4, <1>5, <2>1, <2>2, BuriedTree
<1>8. TypeOK'
  BY <1>1, <1>2, <1>3, <1>4, <1>5, <1>6 DEF TypeOK, Live
<1>9. Calls' = Calls /\ Calling' = Calling
  BY <1>2, <1>7 DEF Calling, Calls
<1>10. Running = {current}
  BY <1>3 DEF Running
<1>11. Polling' = Polling
  <2>1. Running' \cap Polling = {}
    BY <1>1, <1>6 DEF Homes, OneHome
  <2>2. Polling = {f \in Frame : io[f] # None}
    BY <1>3, <1>10 DEF Polling
  <2>3. QED
    BY <1>2, <2>1, <2>2 DEF Polling
<1>12. Homes'
  BY <1>1, <1>2, <1>3, <1>6, <1>7, <1>9, <1>10, <1>11 DEF Homes, OneHome, NoLostFrame
<1>13. EndsNow'
  BY <1>1, <1>2, <1>7 DEF EndsNow
<1>14. AtOK'
  <2>1. current' # None => current' \in Frame /\ current' \in Queued
    BY <1>6 DEF Running
  <2>2. current' # None => io[current'] = None
    BY <1>1, <1>3, <1>10, <2>1 DEF Homes, OneHome, Polling
  <2>3. QED
    BY <1>2, <1>3, <2>2 DEF AtOK
<1>15. Io'
  BY <1>1, <1>2, <1>11, IoKept
<1>16. QED
  BY <1>7, <1>8, <1>12, <1>13, <1>14, <1>15 DEF Inv

LEMMA AssignInv ==
    ASSUME Inv, NEW g \in Frame, assign_process(g)
    PROVE  Inv'
<1>1. TypeOK /\ Homes /\ Tree /\ EndsNow /\ AtOK /\ Io
  BY DEF Inv
<1>2. /\ g \in newproc /\ newproc' = newproc \ {g}
      /\ stale' = Append(stale, g)
      /\ UNCHANGED <<tree, cfstate, current, fresh, io, epoll, iocount, at>>
  BY DEF assign_process, poll
<1>3. g \notin Running /\ g \notin Queued /\ g \notin Polling /\ g \notin Calling
  BY <1>1, <1>2 DEF Homes, OneHome
<1>4. /\ Append(stale, g) \in Seq(Frame)
      /\ Range(Append(stale, g)) = Range(stale) \cup {g}
      /\ IsInjective(Append(stale, g))
  <2>1. stale \in Seq(Frame) /\ IsInjective(stale) /\ g \notin Range(stale)
    BY <1>1, <1>3 DEF TypeOK, Homes, OneHome, Queued
  <2>2. QED
    BY <2>1, PushBack
<1>5. TypeOK'
  BY <1>1, <1>2, <1>4 DEF TypeOK, tree
<1>6. Running' = Running /\ Queued' = Queued \cup {g} /\ Polling' = Polling
  BY <1>2, <1>4 DEF Running, Queued, Polling
<1>7. Live' = Live /\ Calls' = Calls /\ Calling' = Calling
  BY <1>2 DEF Live, Calls, Calling, tree
<1>8. Homes'
  <2>1. IsInjective(fresh') /\ IsInjective(stale') /\ Range(fresh') \cap Range(stale') = {}
    BY <1>1, <1>2, <1>3, <1>4 DEF Homes, OneHome, Queued
  <2>2. QED
    BY <1>1, <1>2, <1>3, <1>6, <1>7, <2>1 DEF Homes, OneHome, NoLostFrame
<1>9. Tree'
  BY <1>1, <1>2, TreeKept
<1>10. EndsNow'
  BY <1>1, <1>2, <1>7 DEF EndsNow, tree
<1>11. AtOK'
  BY <1>1, <1>2 DEF AtOK
<1>12. Io'
  BY <1>1, <1>2, <1>6, IoKept
<1>13. QED
  BY <1>5, <1>8, <1>9, <1>10, <1>11, <1>12 DEF Inv

-----------------------------------------------------------------------------
(***************************************************************************)
(* The theorems                                                            *)
(***************************************************************************)
LEMMA StutterInv == Inv /\ UNCHANGED vars => Inv'
<1> SUFFICES ASSUME Inv, UNCHANGED vars PROVE Inv'
  OBVIOUS
<1>1. UNCHANGED <<tree, cfstate, queue, poll, newproc, at>>
  BY DEF vars
<1>2. UNCHANGED <<status, cftype, parent, fcall, fork, current, fresh, stale,
                 io, epoll, iocount>>
  BY <1>1 DEF tree, queue, poll
<1>3. TypeOK'
  BY <1>1, <1>2 DEF Inv, TypeOK
<1>4. Homes' /\ Tree'
  BY <1>1, <1>2, HomesKept, TreeKept DEF Inv
<1>5. EndsNow' /\ AtOK'
  BY <1>1, <1>2 DEF Inv, EndsNow, AtOK, Live
<1>6. Io'
  BY <1>2, IoKept DEF Inv, Polling, Running
<1>7. QED
  BY <1>3, <1>4, <1>5, <1>6 DEF Inv

LEMMA NextInv == Allowed = {} /\ Inv /\ [Next]_vars => Inv'
<1> SUFFICES ASSUME Allowed = {}, Inv, [Next]_vars PROVE Inv'
  OBVIOUS
<1>1. CASE execute_instruction
  <2>1. ASSUME NEW s \in Stream \cup {None}, execute_io(s) PROVE Inv'
    BY <2>1, IoInv
  <2>2. ASSUME NEW g \in Frame, execute_call(g) PROVE Inv'
    BY <2>2, CallInv
  <2>3. ASSUME NEW g \in Frame, execute_fork(g) PROVE Inv'
    BY <2>3, ForkInv
  <2>4. ASSUME NEW g \in Frame, execute_newproc(g) PROVE Inv'
    BY <2>4, NewprocInv
  <2>5. QED
    BY <1>1, <2>1, <2>2, <2>3, <2>4, LocalInv, WaitInv, ReturnInv, FailFrameInv,
       ReadFailureInv DEF execute_instruction
<1>2. ASSUME NEW s \in Stream, iopop(s) PROVE Inv'
  BY <1>2, IopopInv
<1>3. CASE gotowork
  BY <1>1, <1>2, <1>3, IdleInv, IopushInv, IoworkDoneInv, SwitchReadyInv,
     SwitchWaitInv, FinishCallInv, FinishPathInv DEF gotowork
<1>4. ASSUME NEW g \in Frame, assign_process(g) PROVE Inv'
  BY <1>4, AssignInv
<1>5. CASE UNCHANGED vars
  BY <1>5, StutterInv
<1>6. QED
  BY <1>3, <1>4, <1>5 DEF Next

(* Inv is an invariant of the worker when programs join what they fork.    *)
THEOREM Invariance == ASSUME Allowed = {} PROVE Spec => []Inv
<1>1. Init => Inv
  BY InitInv
<1>2. Inv /\ [Next]_vars => Inv'
  BY NextInv
<1>3. QED
  BY <1>1, <1>2, PTL DEF Spec

(* The worker's variables keep their types; that iocount never goes below  *)
(* zero rests on the accounting of the frames that wait for a stream.      *)
THEOREM TypeCorrect == ASSUME Allowed = {} PROVE Spec => []TypeOK
<1>1. Inv => TypeOK
  BY DEF Inv
<1>2. QED
  BY <1>1, Invariance, PTL

(* Every live frame is in one place: gotowork() and findtask() never run   *)
(* or resume one twice.                                                    *)
THEOREM FramesHaveOneHome == ASSUME Allowed = {} PROVE Spec => []OneHome
<1>1. Inv => OneHome
  BY DEF Inv, Homes
<1>2. QED
  BY <1>1, Invariance, PTL

(* A frame that has not ended is in some place: the loop forgets none.     *)
THEOREM NoFrameForgotten == ASSUME Allowed = {} PROVE Spec => []NoLostFrame
<1>1. Inv => NoLostFrame
  BY DEF Inv, Homes
<1>2. QED
  BY <1>1, Invariance, PTL

(* finish_frame() never deletes a frame that another live frame returns    *)
(* to or was forked from.                                                  *)
THEOREM FrameTree == ASSUME Allowed = {} PROVE Spec => []NoDangling
<1>1. Inv => NoDangling
  BY DEF Inv, Tree
<1>2. QED
  BY <1>1, Invariance, PTL

(* A caller is resumed by its only callee.                                 *)
THEOREM CallersWaitForOne == ASSUME Allowed = {} PROVE Spec => []CallStack
<1>1. Inv => CallStack
  BY DEF Inv, Tree
<1>2. QED
  BY <1>1, Invariance, PTL

(* The fork set of a frame is exactly the live paths it has forked.        *)
THEOREM ForkSetsExact == ASSUME Allowed = {} PROVE Spec => []ForkTree
<1>1. Inv => ForkTree
  BY DEF Inv, Tree
<1>2. QED
  BY <1>1, Invariance, PTL

(* Every frame that waits for a stream is counted and registered.          *)
THEOREM IoAccounted == ASSUME Allowed = {} PROVE Spec => []IoAccounting
<1>1. Inv => IoAccounting
  BY DEF Inv, Io
<1>2. QED
  BY <1>1, Invariance, PTL

-----------------------------------------------------------------------------
(***************************************************************************)
(* Paths forked by paths.  The call at the top of a chain of paths is not  *)
(* known to the frames in between, only fcall leads to it; a call is       *)
(* deleted when its own fork set is empty, and then no path deeper down    *)
(* may run.  Induction along the chain is replaced by ForksEnd, of which   *)
(* the set of all paths of one call is an instance.                        *)
(***************************************************************************)
Paths == {f \in Live : cftype[f] = "FORK"}

(* No set of paths holds the parents of all its members.                   *)
ForksEnd == \A S \in SUBSET Paths : (\A f \in S : parent[f] \in S) => S = {}

(* A path belongs to the call its parent belongs to.                       *)
CallsOK ==
    /\ \A f \in Live : cftype[fcall[f]] = "CALL"
    /\ \A f \in Paths : fcall[f] = fcall[parent[f]]

PathInv == ForksEnd /\ CallsOK /\ CallOutlivesPaths

LEMMA InitPaths == Init => PathInv
<1> SUFFICES ASSUME Init PROVE PathInv
  OBVIOUS
<1>1. Paths = {}
  BY DEF Init, Paths, Live
<1>2. \A f \in Live : f \in Frame /\ fcall[f] = f /\ cftype[f] = "CALL"
  BY DEF Init, Live
<1>3. QED
  BY <1>1, <1>2 DEF PathInv, ForksEnd, CallsOK, CallOutlivesPaths

LEMMA PathsKept == ASSUME PathInv, UNCHANGED tree PROVE PathInv'
BY DEF PathInv, ForksEnd, CallsOK, CallOutlivesPaths, Paths, Live, tree

(* When a call has no path of its own left, no path forked by a path of    *)
(* its is left either.                                                     *)
LEMMA JoinedCall ==
    ASSUME Inv, PathInv, NEW g \in Live, fork[g] = {}, NEW f \in Live, fcall[f] = g
    PROVE  f = g
<1>1. TypeOK /\ NoDangling /\ ForkTree /\ KindOK
  BY DEF Inv, Tree
<1>2. CASE cftype[f] = "CALL"
  BY <1>1, <1>2 DEF KindOK
<1>3. CASE cftype[f] = "FORK"
  <2> DEFINE S == {h \in Paths : fcall[h] = g}
  <2>1. ASSUME NEW h \in S PROVE parent[h] \in S
    <3>1. h \in Live /\ cftype[h] = "FORK" /\ fcall[h] = g
      BY DEF Paths
    <3>2. parent[h] \in Live
      BY <1>1, <3>1 DEF KindOK, NoDangling
    <3>3. fcall[parent[h]] = g
      BY <3>1 DEF PathInv, CallsOK, Paths
    <3>4. CASE cftype[parent[h]] = "CALL"
      <4>1. parent[h] = g
        BY <1>1, <3>2, <3>3, <3>4 DEF KindOK
      <4>2. h \in fork[g]
        BY <1>1, <3>1, <4>1 DEF ForkTree
      <4>3. QED
        BY <4>2
    <3>5. CASE cftype[parent[h]] = "FORK"
      BY <3>2, <3>3, <3>5 DEF Paths
    <3>6. QED
      BY <1>1, <3>2, <3>4, <3>5 DEF TypeOK, Live
  <2>2. f \in S
    BY <1>3 DEF Paths
  <2>3. S \in SUBSET Paths
    OBVIOUS
  <2> HIDE DEF S
  <2>4. QED
    BY <2>1, <2>2, <2>3 DEF PathInv, ForksEnd
<1>4. QED
  BY <1>1, <1>2, <1>3 DEF TypeOK, Live

(* A new call, or the root of a new process, is a call of its own.         *)
LEMMA CallPaths ==
    ASSUME Inv, PathInv, NEW g \in Frame, execute_call(g) \/ execute_newproc(g)
    PROVE  PathInv'
<1>1. /\ status[g] = "unborn" /\ status' = [status EXCEPT ![g] = "live"]
      /\ UNCHANGED <<cftype, fcall>>
      /\ \A f \in Live : parent'[f] = parent[f]
  <2>1. CASE execute_newproc(g)
    BY <2>1 DEF execute_newproc
  <2>2. CASE execute_call(g)
    <3>1. /\ status[g] = "unborn" /\ status' = [status EXCEPT ![g] = "live"]
          /\ parent' = [parent EXCEPT ![g] = current]
          /\ UNCHANGED <<cftype, fcall>>
      BY <2>2 DEF execute_call
    <3>2. QED
      BY <3>1 DEF Inv, TypeOK, Live
  <2>3. QED
    BY <2>1, <2>2
<1>2. /\ g \notin Live /\ cftype[g] = "CALL" /\ fcall[g] = g
  BY <1>1, UnbornFrame
<1>3. Live' = Live \cup {g}
  BY <1>1 DEF Live, Inv, TypeOK
<1>4. Paths' = Paths
  BY <1>1, <1>2, <1>3 DEF Paths
<1>5. \A f \in Paths : parent'[f] = parent[f]
  BY <1>1 DEF Paths
<1>6. ForksEnd'
  BY <1>4, <1>5 DEF PathInv, ForksEnd
<1>7. CallsOK' /\ CallOutlivesPaths'
  BY <1>1, <1>2, <1>3, <1>4, <1>5 DEF PathInv, CallsOK, CallOutlivesPaths
<1>8. QED
  BY <1>6, <1>7 DEF PathInv

(* Nobody is a child of the new path, so it closes no cycle.               *)
LEMMA ForkPaths ==
    ASSUME Inv, PathInv, NEW g \in Frame, execute_fork(g)
    PROVE  PathInv'
<1>1. /\ Runs /\ status[g] = "unborn"
      /\ status' = [status EXCEPT ![g] = "live"]
      /\ cftype' = [cftype EXCEPT ![g] = "FORK"]
      /\ parent' = [parent EXCEPT ![g] = current]
      /\ fcall' = [fcall EXCEPT ![g] = fcall[current]]
  BY DEF execute_fork, MayDo
<1>2. TypeOK /\ current \in Live /\ current \in Frame
  BY <1>1, RunningFrame DEF Inv, Runs
<1>3. g \notin Live /\ \A f \in Live : parent[f] # g
  BY <1>1, UnbornFrame
<1>4. Live' = Live \cup {g}
  BY <1>1, <1>2 DEF Live, TypeOK
<1>5. /\ cftype'[g] = "FORK" /\ parent'[g] = current /\ fcall'[g] = fcall[current]
      /\ \A f \in Live :
            cftype'[f] = cftype[f] /\ parent'[f] = parent[f] /\ fcall'[f] = fcall[f]
  BY <1>1, <1>2, <1>3 DEF TypeOK, Live
<1>6. Paths' = Paths \cup {g} /\ Paths \subseteq Live
  BY <1>4, <1>5 DEF Paths
<1>7. ForksEnd'
  <2>1. SUFFICES ASSUME NEW S \in SUBSET (Paths \cup {g}), \A f \in S : parent'[f] \in S
                 PROVE  S = {}
    BY <1>6 DEF ForksEnd
  <2>2. \A f \in S \ {g} : parent[f] \in S \ {g}
    BY <1>3, <1>5, <1>6, <2>1
  <2>3. S \ {g} = {}
    BY <2>1, <2>2 DEF PathInv, ForksEnd
  <2>4. g \notin S
    BY <1>2, <1>3, <1>5, <2>1, <2>3
  <2>5. QED
    BY <2>3, <2>4
<1>8. \A f \in Live : fcall[f] \in Live /\ cftype[fcall[f]] = "CALL"
  BY DEF PathInv, CallsOK, CallOutlivesPaths
<1>9. CallsOK'
  <2>1. \A f \in Live' : cftype'[fcall'[f]] = "CALL"
    BY <1>2, <1>4, <1>5, <1>8
  <2>2. \A f \in Paths : parent[f] \in Live
    BY DEF Inv, Tree, KindOK, NoDangling, Paths
  <2>3. \A f \in Paths' : fcall'[f] = fcall'[parent'[f]]
    BY <1>2, <1>5, <1>6, <2>2 DEF PathInv, CallsOK
  <2>4. QED
    BY <2>1, <2>3 DEF CallsOK
<1>10. CallOutlivesPaths'
  BY <1>2, <1>4, <1>5, <1>8 DEF CallOutlivesPaths
<1>11. QED
  BY <1>7, <1>9, <1>10 DEF PathInv

LEMMA FinishPaths == Inv /\ PathInv /\ (finish_call \/ finish_path) => PathInv'
<1> SUFFICES ASSUME Inv, PathInv, finish_call \/ finish_path PROVE PathInv'
  OBVIOUS
<1>1. Switch(Ended) /\ bury(current) /\ UNCHANGED <<cftype, parent, fcall>>
  BY DEF finish_call, finish_path
<1>2. current \in Live /\ current \in Frame
  BY <1>1, EndingFrame
<1>3. CASE fork[current] # {}
  BY <1>1, <1>3
     DEF bury, PathInv, ForksEnd, CallsOK, CallOutlivesPaths, Paths, Live
<1>4. CASE fork[current] = {}
  <2>1. Live' = Live \ {current}
    BY <1>1, <1>2, <1>4 DEF bury, Live, Inv, TypeOK
  <2>2. Paths' \subseteq Paths
    BY <1>1, <2>1 DEF Paths
  <2>3. ForksEnd' /\ CallsOK'
    BY <1>1, <2>1, <2>2 DEF PathInv, ForksEnd, CallsOK
  <2>4. \A f \in Live' : fcall[f] # current
    BY <1>2, <1>4, <2>1, JoinedCall
  <2>5. CallOutlivesPaths'
    BY <1>1, <2>1, <2>4 DEF PathInv, CallOutlivesPaths
  <2>6. QED
    BY <2>3, <2>5 DEF PathInv
<1>5. QED
  BY <1>3, <1>4

LEMMA NextPaths == Inv /\ PathInv /\ [Next]_vars => PathInv'
<1> SUFFICES ASSUME Inv, PathInv, [Next]_vars PROVE PathInv'
  OBVIOUS
<1>1. ASSUME NEW g \in Frame, execute_call(g) \/ execute_fork(g) \/ execute_newproc(g)
      PROVE  PathInv'
  BY <1>1, CallPaths, ForkPaths
<1>2. CASE finish_call \/ finish_path
  BY <1>2, FinishPaths
<1>3. CASE UNCHANGED tree
  BY <1>3, PathsKept
<1>4. CASE execute_instruction
  <2>1. \/ UNCHANGED tree
        \/ \E g \in Frame : execute_call(g) \/ execute_fork(g) \/ execute_newproc(g)
    BY <1>4 DEF execute_instruction, execute_local, execute_wait, execute_io,
                execute_return, fail_frame, read_failure
  <2>2. QED
    BY <1>1, <1>3, <2>1
<1>5. CASE Next
  <2>1. \/ execute_instruction \/ finish_call \/ finish_path \/ UNCHANGED tree
    BY <1>5 DEF Next, gotowork, idle, iopush, iopop, iowork_done, switch_ready,
                switch_wait, assign_process
  <2>2. QED
    BY <1>2, <1>3, <1>4, <2>1
<1>6. QED
  BY <1>3, <1>5 DEF vars

(* The call whose registers and code a path uses is deleted after the      *)
(* path, however deep paths are forked by paths.                           *)
THEOREM CallsOutlivePaths == ASSUME Allowed = {} PROVE Spec => []CallOutlivesPaths
<1>1. Init => Inv /\ PathInv
  BY InitInv, InitPaths
<1>2. Inv /\ PathInv /\ [Next]_vars => (Inv /\ PathInv)'
  BY NextInv, NextPaths
<1>3. Inv /\ PathInv => CallOutlivesPaths
  BY DEF PathInv
<1>4. QED
  BY <1>1, <1>2, <1>3, PTL DEF Spec

-----------------------------------------------------------------------------
(***************************************************************************)
(* Worker::empty().  A frame that waits for its callee waits, along the    *)
(* callees, for a frame that is somewhere else.  Induction along the       *)
(* callees is replaced by CallersEnd.                                      *)
(***************************************************************************)
(* In no set of live frames has each a callee or a path in that set.       *)
CallersEnd ==
    \A S \in SUBSET Live : (\A f \in S : \E g \in S : parent[g] = f) => S = {}

(* A process that no worker has yet has no caller.                         *)
RootsOK == \A g \in newproc : parent[g] = None

CalleeInv == CallersEnd /\ RootsOK

LEMMA InitCallees == Init => CalleeInv
<1> SUFFICES ASSUME Init PROVE CalleeInv
  OBVIOUS
<1>1. \A f \in Frame : parent[f] = None
  BY DEF Init
<1>2. newproc \subseteq Frame /\ Live \subseteq Frame
  BY DEF Init, Live
<1>3. None \notin Frame
  BY NoneAssumption
<1>4. ASSUME NEW S \in SUBSET Live, \A f \in S : \E g \in S : parent[g] = f
      PROVE  S = {}
  BY <1>1, <1>2, <1>3, <1>4
<1>5. QED
  BY <1>1, <1>2, <1>4 DEF CalleeInv, CallersEnd, RootsOK

(* A frame that is made calls nobody yet.                                  *)
LEMMA MadeCallees ==
    ASSUME Inv, CalleeInv, NEW g \in Frame,
           execute_call(g) \/ execute_fork(g) \/ execute_newproc(g)
    PROVE  CalleeInv'
<1>1. /\ status[g] = "unborn" /\ status' = [status EXCEPT ![g] = "live"]
      /\ Runs
  BY DEF execute_call, execute_fork, execute_newproc, MayDo
<1>2. /\ g \notin Live /\ parent[g] = None /\ \A f \in Live : parent[f] # g
  BY <1>1, UnbornFrame DEF Inv, Tree, UnbornOK
<1>3. Live' = Live \cup {g}
  BY <1>1 DEF Live, Inv, TypeOK
<1>4. current \in Live /\ current # g
  BY <1>1, <1>2, RunningFrame DEF Runs
<1>5. /\ \A f \in Live : parent'[f] = parent[f]
      /\ parent'[g] \in {None, current}
  <2>1. CASE execute_newproc(g)
    BY <1>2, <2>1 DEF execute_newproc
  <2>2. CASE execute_call(g) \/ execute_fork(g)
    <3>1. parent' = [parent EXCEPT ![g] = current]
      BY <2>2 DEF execute_call, execute_fork
    <3>2. QED
      BY <1>2, <3>1 DEF Inv, TypeOK, Live
  <2>3. QED
    BY <2>1, <2>2
<1>6. None # g
  BY NoneAssumption
<1>7. CallersEnd'
  <2>1. SUFFICES ASSUME NEW S \in SUBSET (Live \cup {g}),
                        \A f \in S : \E h \in S : parent'[h] = f
                 PROVE  S = {}
    BY <1>3 DEF CallersEnd
  <2>2. g \notin S
    BY <1>2, <1>4, <1>5, <1>6, <2>1
  <2>3. S \in SUBSET Live /\ \A f \in S : \E h \in S : parent[h] = f
    BY <1>5, <2>1, <2>2
  <2>4. QED
    BY <2>3 DEF CalleeInv, CallersEnd
<1>8. RootsOK'
  <2>1. newproc \subseteq Live
    BY DEF Inv, Homes, NoLostFrame
  <2>2. CASE execute_newproc(g)
    BY <1>2, <2>1, <2>2 DEF execute_newproc, CalleeInv, RootsOK
  <2>3. CASE execute_call(g) \/ execute_fork(g)
    <3>1. newproc' = newproc
      BY <2>3 DEF execute_call, execute_fork
    <3>2. QED
      BY <1>5, <2>1, <3>1 DEF CalleeInv, RootsOK
  <2>4. QED
    BY <2>2, <2>3
<1>9. QED
  BY <1>7, <1>8 DEF CalleeInv

(* Frames that are deleted, and processes that are assigned, only make the *)
(* sets smaller.                                                           *)
LEMMA FewerCallees ==
    ASSUME CalleeInv, parent' = parent, Live' \subseteq Live, newproc' \subseteq newproc
    PROVE  CalleeInv'
BY DEF CalleeInv, CallersEnd, RootsOK

LEMMA NextCallees == Inv /\ CalleeInv /\ [Next]_vars => CalleeInv'
<1> SUFFICES ASSUME Inv, CalleeInv, [Next]_vars PROVE CalleeInv'
  OBVIOUS
<1>1. ASSUME NEW g \in Frame, execute_call(g) \/ execute_fork(g) \/ execute_newproc(g)
      PROVE  CalleeInv'
  BY <1>1, MadeCallees
<1>2. CASE finish_call \/ finish_path
  <2>1. Switch(Ended) /\ bury(current) /\ UNCHANGED <<parent, newproc>>
    BY <1>2 DEF finish_call, finish_path
  <2>2. Live' \subseteq Live
    BY <2>1 DEF bury, Live, Inv, TypeOK
  <2>3. QED
    BY <2>1, <2>2, FewerCallees
<1>3. CASE UNCHANGED tree /\ newproc' \subseteq newproc
  BY <1>3, FewerCallees DEF tree, Live
<1>4. CASE execute_instruction
  <2>1. \/ UNCHANGED <<tree, newproc>>
        \/ \E g \in Frame : execute_call(g) \/ execute_fork(g) \/ execute_newproc(g)
    BY <1>4 DEF execute_instruction, execute_local, execute_wait, execute_io,
                execute_return, fail_frame, read_failure
  <2>2. QED
    BY <1>1, <1>3, <2>1
<1>5. CASE Next
  <2>1. \/ execute_instruction \/ finish_call \/ finish_path
        \/ UNCHANGED tree /\ newproc' \subseteq newproc
    BY <1>5 DEF Next, gotowork, idle, iopush, iopop, iowork_done, switch_ready,
                switch_wait, assign_process
  <2>2. QED
    BY <1>2, <1>3, <1>4, <2>1
<1>6. QED
  BY <1>3, <1>5 DEF vars

(* A worker that has nothing to run has nothing pending, unless a frame    *)
(* waits for a stream: Worker::empty(), by which the application stops, is *)
(* right about all but these.                                              *)
THEOREM EmptyMeansDone == ASSUME Allowed = {} PROVE Spec => []EmptyWorkerIsDone
<1>1. Init => Inv /\ CalleeInv
  BY InitInv, InitCallees
<1>2. Inv /\ CalleeInv /\ [Next]_vars => (Inv /\ CalleeInv)'
  BY NextInv, NextCallees
<1>3. ASSUME Inv, CalleeInv, Polling = {}, empty PROVE Live = newproc
  <2>1. Running = {} /\ Queued = {}
    BY <1>3 DEF empty, Running, Queued, Range
  <2>2. Live = newproc \cup Calling
    BY <1>3, <2>1 DEF Inv, Homes, NoLostFrame
  <2>3. \A f \in Calling : \E g \in Calling : parent[g] = f
    <3>1. SUFFICES ASSUME NEW f \in Calling PROVE \E g \in Calling : parent[g] = f
      OBVIOUS
    <3>2. PICK g \in Calls : parent[g] = f /\ f # None
      BY DEF Calling
    <3>3. g \in Live /\ g \notin newproc
      BY <1>3, <3>2 DEF Calls, CalleeInv, RootsOK
    <3>4. QED
      BY <2>2, <3>2, <3>3
  <2>4. Calling = {}
    BY <1>3, <2>2, <2>3 DEF CalleeInv, CallersEnd
  <2>5. QED
    BY <2>2, <2>4
<1>4. Inv /\ CalleeInv => EmptyWorkerIsDone
  <2>1. Inv /\ iocount = 0 => Polling = {}
    BY FS_EmptySet DEF Inv, Io, IoAccounting, PollingFinite
  <2>2. QED
    BY <1>3, <2>1 DEF EmptyWorkerIsDone
<1>5. QED
  BY <1>1, <1>2, <1>4, PTL DEF Spec

-----------------------------------------------------------------------------
(***************************************************************************)
(* The order of the queue.                                                 *)
(***************************************************************************)
Before(q, f, g) == \E i, j \in DOMAIN q : i < j /\ q[i] = f /\ q[j] = g

(* push_back() keeps the order.                                            *)
LEMMA BeforePush ==
    ASSUME NEW S, NEW q \in Seq(S), NEW x \in S, NEW f, NEW g, Before(q, f, g)
    PROVE  Before(Append(q, x), f, g)
<1>1. PICK i \in DOMAIN q, j \in DOMAIN q : i < j /\ q[i] = f /\ q[j] = g
  BY DEF Before
<1>2. /\ i \in DOMAIN Append(q, x) /\ j \in DOMAIN Append(q, x)
      /\ Append(q, x)[i] = f /\ Append(q, x)[j] = g
  BY <1>1
<1>3. QED
  BY <1>1, <1>2 DEF Before

(* pop_front() keeps the order of what stays.                              *)
LEMMA BeforePop ==
    ASSUME NEW S, NEW q \in Seq(S), NEW f, NEW g, q # <<>>, Before(q, f, g), f # Head(q)
    PROVE  Before(Tail(q), f, g)
<1>1. PICK i \in DOMAIN q, j \in DOMAIN q : i < j /\ q[i] = f /\ q[j] = g
  BY DEF Before
<1>2. DOMAIN q = 1 .. Len(q) /\ Len(q) \in Nat /\ Head(q) = q[1]
  OBVIOUS
<1>3. i # 1 /\ i \in Nat /\ j \in Nat /\ i >= 1 /\ j <= Len(q)
  BY <1>1, <1>2
<1>4. i - 1 \in 1 .. Len(q) - 1 /\ j - 1 \in 1 .. Len(q) - 1 /\ i - 1 < j - 1
  BY <1>1, <1>2, <1>3
<1>5. /\ DOMAIN Tail(q) = 1 .. Len(q) - 1
      /\ \A k \in 1 .. Len(q) - 1 : Tail(q)[k] = q[k + 1]
  BY <1>2
<1>6. Tail(q)[i - 1] = f /\ Tail(q)[j - 1] = g
  BY <1>1, <1>3, <1>4, <1>5
<1>7. QED
  BY <1>4, <1>5, <1>6 DEF Before

LEMMA BeforeRange ==
    ASSUME NEW q, NEW f, NEW g, Before(q, f, g)
    PROVE  f \in Range(q) /\ g \in Range(q)
BY DEF Before, Range

(* In the queue, fresh comes before stale.                                 *)
LEMMA BeforeConcat ==
    ASSUME NEW S, NEW a \in Seq(S), NEW b \in Seq(S), NEW f, NEW g
    PROVE  Before(a \o b, f, g) <=>
             \/ Before(a, f, g) \/ Before(b, f, g)
             \/ f \in Range(a) /\ g \in Range(b)
<1>1. /\ Len(a) \in Nat /\ Len(b) \in Nat
      /\ DOMAIN a = 1 .. Len(a) /\ DOMAIN b = 1 .. Len(b)
      /\ DOMAIN (a \o b) = 1 .. Len(a) + Len(b)
  OBVIOUS
<1>2. /\ \A i \in 1 .. Len(a) : (a \o b)[i] = a[i]
      /\ \A i \in 1 .. Len(b) : (a \o b)[Len(a) + i] = b[i]
  BY <1>1
<1>3. \A i \in 1 .. Len(a) + Len(b) :
        i \in 1 .. Len(a) \/ (i - Len(a) \in 1 .. Len(b) /\ (a \o b)[i] = b[i - Len(a)])
  <2>1. SUFFICES ASSUME NEW i \in 1 .. Len(a) + Len(b), i \notin 1 .. Len(a)
                 PROVE  i - Len(a) \in 1 .. Len(b) /\ (a \o b)[i] = b[i - Len(a)]
    OBVIOUS
  <2>2. i - Len(a) \in 1 .. Len(b) /\ Len(a) + (i - Len(a)) = i
    BY <2>1, <1>1
  <2>3. QED
    BY <2>2, <1>2
<1>4. ASSUME Before(a \o b, f, g)
      PROVE  \/ Before(a, f, g) \/ Before(b, f, g)
             \/ f \in Range(a) /\ g \in Range(b)
  <2>1. PICK i \in 1 .. Len(a) + Len(b), j \in 1 .. Len(a) + Len(b) :
          i < j /\ (a \o b)[i] = f /\ (a \o b)[j] = g
    BY <1>1, <1>4 DEF Before
  <2>2. CASE j \in 1 .. Len(a)
    <3>1. i \in 1 .. Len(a)
      BY <1>1, <2>1, <2>2
    <3>2. QED
      BY <1>1, <1>2, <2>1, <2>2, <3>1 DEF Before
  <2>3. CASE i \notin 1 .. Len(a)
    <3>1. i - Len(a) \in 1 .. Len(b) /\ b[i - Len(a)] = f
      BY <1>3, <2>1, <2>3
    <3>2. j \notin 1 .. Len(a)
      BY <1>1, <2>1, <2>3
    <3>3. j - Len(a) \in 1 .. Len(b) /\ b[j - Len(a)] = g
      BY <1>3, <2>1, <3>2
    <3>4. i - Len(a) < j - Len(a)
      BY <1>1, <2>1
    <3>5. QED
      BY <1>1, <3>1, <3>3, <3>4 DEF Before
  <2>4. CASE i \in 1 .. Len(a) /\ j \notin 1 .. Len(a)
    <3>1. j - Len(a) \in 1 .. Len(b) /\ b[j - Len(a)] = g
      BY <1>3, <2>1, <2>4
    <3>2. a[i] = f
      BY <1>2, <2>1, <2>4
    <3>3. QED
      BY <1>1, <2>4, <3>1, <3>2 DEF Range
  <2>5. QED
    BY <2>2, <2>3, <2>4
<1>5. ASSUME Before(a, f, g) PROVE Before(a \o b, f, g)
  <2>1. PICK i \in 1 .. Len(a), j \in 1 .. Len(a) : i < j /\ a[i] = f /\ a[j] = g
    BY <1>1, <1>5 DEF Before
  <2>2. i \in 1 .. Len(a) + Len(b) /\ j \in 1 .. Len(a) + Len(b)
    BY <1>1, <2>1
  <2>3. QED
    BY <1>1, <1>2, <2>1, <2>2 DEF Before
<1>6. ASSUME Before(b, f, g) PROVE Before(a \o b, f, g)
  <2>1. PICK i \in 1 .. Len(b), j \in 1 .. Len(b) : i < j /\ b[i] = f /\ b[j] = g
    BY <1>1, <1>6 DEF Before
  <2>2. /\ Len(a) + i \in 1 .. Len(a) + Len(b) /\ Len(a) + j \in 1 .. Len(a) + Len(b)
        /\ Len(a) + i < Len(a) + j
    BY <1>1, <2>1
  <2>3. (a \o b)[Len(a) + i] = f /\ (a \o b)[Len(a) + j] = g
    BY <1>2, <2>1
  <2>4. QED
    BY <1>1, <2>2, <2>3 DEF Before
<1>7. ASSUME f \in Range(a), g \in Range(b) PROVE Before(a \o b, f, g)
  <2>1. PICK i \in 1 .. Len(a), j \in 1 .. Len(b) : a[i] = f /\ b[j] = g
    BY <1>1, <1>7 DEF Range
  <2>2. /\ i \in 1 .. Len(a) + Len(b) /\ Len(a) + j \in 1 .. Len(a) + Len(b)
        /\ i < Len(a) + j
    BY <1>1, <2>1
  <2>3. (a \o b)[i] = f /\ (a \o b)[Len(a) + j] = g
    BY <1>2, <2>1
  <2>4. QED
    BY <1>1, <2>2, <2>3 DEF Before
<1>8. QED
  BY <1>4, <1>5, <1>6, <1>7

(* All that any step does to the two lists.                                *)
LEMMA QueueSteps ==
    ASSUME Inv, [Next]_vars
    PROVE  \/ UNCHANGED <<fresh, stale>>
           \/ fresh' = fresh /\ \E x \in Frame : stale' = Append(stale, x)
           \/ stale' = stale /\ \E x \in Frame : fresh' = Append(fresh, x)
           \/ findtask(stale)
<1> DEFINE Goal ==
           \/ UNCHANGED <<fresh, stale>>
           \/ fresh' = fresh /\ \E x \in Frame : stale' = Append(stale, x)
           \/ stale' = stale /\ \E x \in Frame : fresh' = Append(fresh, x)
           \/ findtask(stale)
<1>1. CASE execute_instruction
  <2>1. \/ UNCHANGED queue \/ UNCHANGED <<fresh, stale>>
        \/ \E g \in Frame : stale' = stale /\ fresh' = Append(fresh, g)
    BY <1>1 DEF execute_instruction, execute_local, execute_wait, execute_io,
                execute_call, execute_fork, execute_newproc, execute_return,
                fail_frame, read_failure
  <2>2. QED
    BY <2>1 DEF queue
<1>2. CASE idle \/ iowork_done
  BY <1>2 DEF idle, iowork_done, queue
<1>3. CASE iopush \/ switch_ready \/ UNCHANGED vars
  BY <1>3 DEF iopush, switch_ready, vars, queue
<1>4. ASSUME NEW s \in Stream, iopop(s) PROVE Goal
  <2>1. epoll[s] \in Frame
    BY <1>4 DEF iopop, Inv, TypeOK
  <2>2. QED
    BY <1>4, <2>1 DEF iopop
<1>5. CASE switch_wait
  <2>1. current \in Frame
    BY <1>5, RunningFrame DEF switch_wait, Switch, Inv, AtOK
  <2>2. QED
    BY <1>5, <2>1 DEF switch_wait
<1>6. CASE finish_call
  <2>1. current \in Frame
    BY <1>6, EndingFrame DEF finish_call
  <2>2. QED
    BY <1>6, <2>1 DEF finish_call, StaleWith
<1>7. CASE finish_path
  <2>1. /\ cftype[current] = "FORK" /\ current \in Live
        /\ parent[current] # None => fork[current] = {}
    BY <1>7, EndingFrame DEF finish_path
  <2>2. fork[current] = {}
    BY <2>1 DEF Inv, Tree, KindOK
  <2>3. QED
    BY <1>7, <2>2 DEF finish_path, StaleWith
<1>8. ASSUME NEW g \in Frame, assign_process(g) PROVE Goal
  BY <1>8 DEF assign_process
<1>9. QED
  BY <1>1, <1>2, <1>3, <1>4, <1>5, <1>6, <1>7, <1>8 DEF Next, gotowork

LEMMA OrderKept ==
    ASSUME Inv, Inv', [Next]_vars,
           NEW f \in Frame, NEW g \in Frame, Ahead(f, g), {f, g} \subseteq Queued'
    PROVE  Ahead(f, g)'
<1>1. /\ fresh \in Seq(Frame) /\ stale \in Seq(Frame)
      /\ fresh' \in Seq(Frame) /\ stale' \in Seq(Frame)
  BY DEF Inv, TypeOK
<1>2. \/ Before(fresh, f, g) \/ Before(stale, f, g)
      \/ f \in Range(fresh) /\ g \in Range(stale)
  <2>1. Before(fresh \o stale, f, g)
    BY DEF Ahead, Before
  <2>2. QED
    BY <1>1, <2>1, BeforeConcat
<1>3. SUFFICES \/ Before(fresh', f, g) \/ Before(stale', f, g)
               \/ f \in Range(fresh') /\ g \in Range(stale')
  <2>1. ASSUME \/ Before(fresh', f, g) \/ Before(stale', f, g)
               \/ f \in Range(fresh') /\ g \in Range(stale')
        PROVE  Before(fresh' \o stale', f, g)
    BY <1>1, <2>1, BeforeConcat
  <2>2. QED
    BY <2>1 DEF Ahead, Before
<1>4. CASE UNCHANGED <<fresh, stale>>
  BY <1>2, <1>4
<1>5. CASE fresh' = fresh /\ \E x \in Frame : stale' = Append(stale, x)
  <2>1. PICK x \in Frame : stale' = Append(stale, x)
    BY <1>5
  <2>2. Range(stale) \subseteq Range(stale')
    BY <1>1, <2>1, PushBack
  <2>3. QED
    BY <1>1, <1>2, <1>5, <2>1, <2>2, BeforePush
<1>6. CASE stale' = stale /\ \E x \in Frame : fresh' = Append(fresh, x)
  <2>1. PICK x \in Frame : fresh' = Append(fresh, x)
    BY <1>6
  <2>2. Range(fresh) \subseteq Range(fresh')
    BY <1>1, <2>1, PushBack
  <2>3. QED
    BY <1>1, <1>2, <1>6, <2>1, <2>2, BeforePush
<1>7. CASE findtask(stale)
  <2>1. current' \notin {f, g} \/ current' = None
    BY DEF Inv, Homes, OneHome, Running
  <2>2. f # None /\ g # None
    BY NoneAssumption
  <2>3. CASE fresh # <<>>
    <3>1. current' = Head(fresh) /\ fresh' = Tail(fresh) /\ stale' = stale
      BY <1>7, <2>3 DEF findtask
    <3>2. f # Head(fresh)
      BY <2>1, <2>2, <3>1
    <3>3. f \in Range(fresh) => f \in Range(Tail(fresh))
      BY <1>1, <2>3, <3>2, PopFront
    <3>4. QED
      BY <1>1, <1>2, <2>3, <3>1, <3>2, <3>3, BeforePop
  <2>4. CASE fresh = <<>>
    <3>1. Before(stale, f, g)
      BY <1>2, <2>4, BeforeRange, EmptyQueue
    <3>2. stale # <<>>
      BY <3>1, BeforeRange, EmptyQueue
    <3>3. current' = Head(stale) /\ fresh' = Tail(stale)
      BY <1>7, <2>4, <3>2 DEF findtask
    <3>4. f # Head(stale)
      BY <2>1, <2>2, <3>3
    <3>5. QED
      BY <1>1, <3>1, <3>2, <3>3, <3>4, BeforePop
  <2>5. QED
    BY <2>3, <2>4
<1>8. QED
  BY <1>4, <1>5, <1>6, <1>7, QueueSteps

(* The queue is first in, first out: whatever is pushed and however often  *)
(* the lists are swapped, no frame overtakes another.                      *)
THEOREM QueueInOrder == ASSUME Allowed = {} PROVE Spec => QueueOrder
<1>1. Inv /\ Inv' /\ [Next]_vars =>
        [\A f, g \in Frame : Ahead(f, g) /\ {f, g} \subseteq Queued' => Ahead(f, g)']_vars
  BY OrderKept
<1>2. Spec => []Inv
  BY Invariance
<1>3. QED
  BY <1>1, <1>2, PTL DEF Spec, QueueOrder
=============================================================================
