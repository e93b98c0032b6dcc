------------------------------- MODULE Worker -------------------------------
(***************************************************************************)
(* One qbrt worker thread: its run queues, the code frames it runs and the *)
(* loop gotowork() that runs them (lib/schedule.cpp, lib/qbrt/schedule.h). *)
(*                                                                         *)
(* A code frame is a function call or a fork path.  The worker runs the    *)
(* frame in current until the frame waits or ends; frames that could run   *)
(* are queued in fresh and stale, frames that wait for a stream are known  *)
(* only to epoll, and a frame that called a function is reachable only as  *)
(* the parent of the callee.  What the byte code does is left open: every  *)
(* step picks one of the ways an instruction can act on the scheduler, so  *)
(* the module stands for every program.  Allowed names the program         *)
(* behaviours the scheduler does not cope with and that a run lets in.     *)
(***************************************************************************)
EXTENDS Integers, Sequences, FiniteSets, Functions

CONSTANTS
    Frame,      \* code frames, never reused: a deleted frame stays deleted
    Stream,     \* the streams that do asynchronous I/O (ByteStream)
    None,       \* the NULL pointer
    Allowed     \* the program behaviours allowed in this instance

(* "unjoined": a called function, or a fork path, ends while a path it     *)
(*             forked still runs                                           *)
(* "forkfail": a fork path reads a failed register                         *)
(* "sharedfd": two frames wait for the same stream at the same time        *)
Hazard == {"unjoined", "forkfail", "sharedfd"}

ASSUME NoneAssumption == None \notin Frame \cup Stream
ASSUME AllowedAssumption == Allowed \subseteq Hazard

VARIABLES
    status,     \* "unborn" before new, "live", "dead" after delete
    cftype,     \* "CALL" or "FORK" (CFT_CALL, CFT_LOCAL_FORK)
    parent,     \* CodeFrame::parent
    fcall,      \* what function_call() returns
    fork,       \* CodeFrame::fork
    cfstate,    \* CodeFrame::cfstate
    io,         \* the stream of CodeFrame::io
    current,    \* Worker::current
    fresh,      \* Worker::fresh
    stale,      \* Worker::stale
    epoll,      \* the frame epfd returns for each stream registered with it
    iocount,    \* Worker::iocount
    newproc,    \* root frames of the processes in Application::newproc
    at          \* where gotowork() stands

tree  == <<status, cftype, parent, fcall, fork>>
queue == <<current, fresh, stale>>
poll  == <<io, epoll, iocount>>
vars  == <<tree, cfstate, queue, poll, newproc, at>>

Waiting == {"IOWAIT", "PEERWAIT"}       \* CFS_NEW is never assigned
Ended   == {"COMPLETE", "FAILED"}

Live == {f \in Frame : status[f] = "live"}

TypeOK ==
    /\ status \in [Frame -> {"unborn", "live", "dead"}]
    /\ cftype \in [Frame -> {"CALL", "FORK"}]
    /\ parent \in [Frame -> Frame \cup {None}]
    /\ fcall \in [Frame -> Frame]
    /\ fork \in [Frame -> SUBSET Frame]
    /\ cfstate \in [Frame -> {"READY"} \cup Waiting \cup Ended]
    /\ io \in [Frame -> Stream \cup {None}]
    /\ current \in Frame \cup {None}
    /\ fresh \in Seq(Frame)
    /\ stale \in Seq(Frame)
    /\ epoll \in [Stream -> Frame \cup {None}]
    /\ iocount \in Nat
    /\ newproc \subseteq Frame
    /\ at \in {"fetch", "iopush", "iowork", "switch", "segv"}

(***************************************************************************)
(* At the start the worker is idle and some processes wait to be assigned. *)
(***************************************************************************)
Init ==
    /\ newproc \in (SUBSET Frame) \ {{}}
    /\ status = [f \in Frame |-> IF f \in newproc THEN "live" ELSE "unborn"]
    /\ cftype = [f \in Frame |-> "CALL"]
    /\ parent = [f \in Frame |-> None]
    /\ fcall = [f \in Frame |-> f]
    /\ fork = [f \in Frame |-> {}]
    /\ cfstate = [f \in Frame |-> "READY"]
    /\ io = [f \in Frame |-> None]
    /\ current = None
    /\ fresh = <<>>
    /\ stale = <<>>
    /\ epoll = [s \in Stream |-> None]
    /\ iocount = 0
    /\ at = "fetch"

-----------------------------------------------------------------------------
(***************************************************************************)
(* findtask(): the next frame of fresh, which is swapped with stale when   *)
(* it has run out; current stays NULL when nothing is queued.  The         *)
(* argument is the stale list findtask() finds.                            *)
(***************************************************************************)
(* Defect: the stale list is served before fresh has run out.              *)
findtask_stale_first(old) ==
    LET round == IF old = <<>> THEN fresh ELSE old
    IN  /\ current' = IF round = <<>> THEN None ELSE Head(round)
        /\ fresh' = IF round = <<>> THEN <<>> ELSE Tail(round)
        /\ stale' = IF old = <<>> THEN <<>> ELSE fresh

findtask(old) ==
    LET round == IF fresh = <<>> THEN old ELSE fresh
    IN  /\ current' = IF round = <<>> THEN None ELSE Head(round)
        /\ fresh' = IF round = <<>> THEN <<>> ELSE Tail(round)
        /\ stale' = IF fresh = <<>> THEN <<>> ELSE old

(* The top of the loop with nothing to run: sleep, then look for a frame.  *)
idle ==
    /\ at = "fetch" /\ current = None
    /\ findtask(stale)
    /\ UNCHANGED <<tree, cfstate, poll, newproc, at>>

-----------------------------------------------------------------------------
(***************************************************************************)
(* execute_instruction() on the current frame.  An instruction may leave   *)
(* the scheduler alone, make the frame wait, start I/O, call, fork, start  *)
(* a process, return or fail.  A frame that has returned stays at its      *)
(* return instruction, so it can only return again.                        *)
(***************************************************************************)
Runs == /\ at = "fetch"
        /\ current # None

MayDo == Runs /\ cfstate[current] # "COMPLETE"

(* Lines 306 and 309: what gotowork() does after the instruction.          *)
after_instruction ==
    at' = IF io'[current'] # None THEN "iopush"
          ELSE IF iocount > 0 THEN "iowork" ELSE "switch"

(* Does a program of this instance let frame f end now?                    *)
MayEnd(f) == "unjoined" \in Allowed \/ fork[f] = {} \/ parent[f] = None

(* An instruction that concerns registers only.                            *)
execute_local ==
    /\ MayDo
    /\ UNCHANGED <<tree, cfstate, queue, poll, newproc>>
    /\ after_instruction

(* The frame reads a promise, or receives from an empty channel.           *)
execute_wait ==
    /\ MayDo
    /\ cfstate' = [cfstate EXCEPT ![current] = "PEERWAIT"]
    /\ UNCHANGED <<tree, queue, poll, newproc>>
    /\ after_instruction

(* io_push() by core/getline or core/write: a ByteStream gives a StreamIO, *)
(* a FileStream has done the I/O already and gives NULL.                   *)
execute_io(s) ==
    /\ MayDo
    /\ s # None /\ "sharedfd" \notin Allowed => epoll[s] = None
    /\ cfstate' = [cfstate EXCEPT ![current] = "IOWAIT"]
    /\ io' = [io EXCEPT ![current] = s]
    /\ UNCHANGED <<tree, queue, epoll, iocount, newproc>>
    /\ after_instruction

(* A call of a byte code function: the new frame replaces its caller.      *)
(* Defect: the caller is queued as well.                                   *)
execute_call_requeues(g) ==
    /\ MayDo
    /\ status[g] = "unborn"
    /\ status' = [status EXCEPT ![g] = "live"]
    /\ parent' = [parent EXCEPT ![g] = current]
    /\ current' = g
    /\ stale' = Append(stale, current)
    /\ UNCHANGED <<cftype, fcall, fork, cfstate, fresh, poll, newproc>>
    /\ after_instruction

execute_call(g) ==
    /\ MayDo
    /\ status[g] = "unborn"
    /\ status' = [status EXCEPT ![g] = "live"]
    /\ parent' = [parent EXCEPT ![g] = current]
    /\ current' = g
    /\ UNCHANGED <<cftype, fcall, fork, cfstate, fresh, stale, poll, newproc>>
    /\ after_instruction

(* fork: the new path goes to fresh, the forking frame runs on.            *)
execute_fork(g) ==
    /\ MayDo
    /\ status[g] = "unborn"
    /\ status' = [status EXCEPT ![g] = "live"]
    /\ cftype' = [cftype EXCEPT ![g] = "FORK"]
    /\ parent' = [parent EXCEPT ![g] = current]
    /\ fcall' = [fcall EXCEPT ![g] = fcall[current]]
    /\ fork' = [fork EXCEPT ![current] = @ \cup {g}]
    /\ fresh' = Append(fresh, g)
    /\ UNCHANGED <<cfstate, current, stale, poll, newproc>>
    /\ after_instruction

(* newproc: a root frame the application will assign to a worker.          *)
execute_newproc(g) ==
    /\ MayDo
    /\ status[g] = "unborn"
    /\ status' = [status EXCEPT ![g] = "live"]
    /\ newproc' = newproc \cup {g}
    /\ UNCHANGED <<cftype, parent, fcall, fork, cfstate, queue, poll>>
    /\ after_instruction

execute_return ==
    /\ Runs
    /\ MayEnd(current)
    /\ cfstate' = [cfstate EXCEPT ![current] = "COMPLETE"]
    /\ UNCHANGED <<tree, queue, poll, newproc>>
    /\ after_instruction

(* A failure raised by the instruction itself ends the current frame.      *)
fail_frame ==
    /\ MayDo
    /\ MayEnd(current)
    /\ cfstate' = [cfstate EXCEPT ![current] = "FAILED"]
    /\ UNCHANGED <<tree, queue, poll, newproc>>
    /\ after_instruction

(* Reading a failed register ends the function call of the current frame,  *)
(* which for a fork path is another frame than the current one.            *)
read_failure ==
    /\ MayDo
    /\ IF cftype[current] = "FORK" THEN "forkfail" \in Allowed
                                   ELSE MayEnd(current)
    /\ cfstate' = [cfstate EXCEPT ![fcall[current]] = "FAILED"]
    /\ UNCHANGED <<tree, queue, poll, newproc>>
    /\ after_instruction

execute_instruction ==
    \/ execute_local
    \/ execute_wait
    \/ \E s \in Stream \cup {None} : execute_io(s)
    \/ \E g \in Frame : execute_call(g)
    \/ \E g \in Frame : execute_fork(g)
    \/ \E g \in Frame : execute_newproc(g)
    \/ execute_return
    \/ fail_frame
    \/ read_failure

-----------------------------------------------------------------------------
(***************************************************************************)
(* I/O.  epoll refuses a stream it already watches and gotowork() does not *)
(* look: the frame is counted but nothing will ever return it.             *)
(***************************************************************************)
(* Defect: iocount is not raised.                                          *)
iopush_uncounted ==
    /\ at = "iopush"
    /\ epoll' = [epoll EXCEPT ![io[current]] = IF @ = None THEN current ELSE @]
    /\ current' = None
    /\ at' = "iowork"
    /\ UNCHANGED <<tree, cfstate, io, iocount, fresh, stale, newproc>>

iopush ==
    /\ at = "iopush"
    /\ epoll' = [epoll EXCEPT ![io[current]] = IF @ = None THEN current ELSE @]
    /\ iocount' = iocount + 1
    /\ current' = None
    /\ at' = "iowork"
    /\ UNCHANGED <<tree, cfstate, io, fresh, stale, newproc>>

(* iowork(): one ready stream is served, and iopop() queues its frame.     *)
iopop(s) ==
    /\ at = "iowork"
    /\ epoll[s] # None
    /\ LET f == epoll[s]
       IN  /\ io' = [io EXCEPT ![f] = None]
           /\ cfstate' = [cfstate EXCEPT ![f] = "READY"]
           /\ stale' = Append(stale, f)
    /\ epoll' = [epoll EXCEPT ![s] = None]
    /\ iocount' = iocount - 1
    /\ UNCHANGED <<tree, current, fresh, newproc, at>>

(* No more streams are ready.  When the frame that was running has gone to *)
(* wait and nothing is queued, line 316 follows a NULL pointer.            *)
iowork_done ==
    /\ at = "iowork"
    /\ IF current = None THEN findtask(stale) ELSE UNCHANGED queue
    /\ at' = IF current' = None THEN "segv" ELSE "switch"
    /\ UNCHANGED <<tree, cfstate, poll, newproc>>

-----------------------------------------------------------------------------
(***************************************************************************)
(* The switch on current->cfstate.                                         *)
(***************************************************************************)
Switch(states) ==
    /\ at = "switch"
    /\ cfstate[current] \in states
    /\ at' = "fetch"

switch_ready ==
    /\ Switch({"READY"})
    /\ UNCHANGED <<tree, cfstate, queue, poll, newproc>>

(* Defect: current is not reset.                                           *)
switch_wait_stays ==
    /\ Switch(Waiting)
    /\ stale' = Append(stale, current)
    /\ UNCHANGED <<tree, cfstate, current, fresh, poll, newproc>>

(* Defect: a frame that waits goes to fresh.                               *)
switch_wait_fresh ==
    /\ Switch(Waiting)
    /\ fresh' = Append(fresh, current)
    /\ current' = None
    /\ UNCHANGED <<tree, cfstate, stale, poll, newproc>>

switch_wait ==
    /\ Switch(Waiting)
    /\ stale' = Append(stale, current)
    /\ current' = None
    /\ UNCHANGED <<tree, cfstate, fresh, poll, newproc>>

(* delete, or keep the frame queued while a path it forked still runs.     *)
(* Defect: a frame is deleted although a path it forked runs.              *)
bury_always(f) ==
    status' = [status EXCEPT ![f] = "dead"]

bury(f) ==
    status' = IF fork[f] = {} THEN [status EXCEPT ![f] = "dead"] ELSE status

(* Defect: a frame that cannot be deleted yet is dropped.                  *)
StaleWith_none(f) == stale

StaleWith(f) == IF fork[f] = {} THEN stale ELSE Append(stale, f)

(* FunctionCall::finish_frame(): the caller goes on.                       *)
finish_call ==
    /\ Switch(Ended)
    /\ cftype[current] = "CALL"
    /\ bury(current)
    /\ stale' = StaleWith(current)
    /\ current' = parent[current]
    /\ UNCHANGED <<cftype, parent, fcall, fork, cfstate, fresh, poll, newproc>>

(* ParallelPath::finish_frame(): the next queued frame goes on.            *)
(* Defect: the path is not erased from its parent's fork set.              *)
finish_path_unerased ==
    /\ Switch(Ended)
    /\ cftype[current] = "FORK"
    /\ bury(current)
    /\ findtask(StaleWith(current))
    /\ UNCHANGED <<cftype, parent, fcall, fork, cfstate, poll, newproc>>

finish_path ==
    /\ Switch(Ended)
    /\ cftype[current] = "FORK"
    /\ fork' = [fork EXCEPT ![parent[current]] = @ \ {current}]
    /\ bury(current)
    /\ findtask(StaleWith(current))
    /\ UNCHANGED <<cftype, parent, fcall, cfstate, poll, newproc>>

(* distribute_work() by the application's thread, at any moment.           *)
assign_process(g) ==
    /\ at # "segv"
    /\ g \in newproc
    /\ newproc' = newproc \ {g}
    /\ stale' = Append(stale, g)
    /\ UNCHANGED <<tree, cfstate, current, fresh, poll, at>>

-----------------------------------------------------------------------------
gotowork ==
    \/ idle
    \/ execute_instruction
    \/ iopush
    \/ \E s \in Stream : iopop(s)
    \/ iowork_done
    \/ switch_ready
    \/ switch_wait
    \/ finish_call
    \/ finish_path

Next ==
    \/ gotowork
    \/ \E g \in Frame : assign_process(g)

Spec == Init /\ [][Next]_vars

-----------------------------------------------------------------------------
(***************************************************************************)
(* Where a frame can be.                                                   *)
(***************************************************************************)
Running == {current} \ {None}
Queued  == Range(fresh) \cup Range(stale)
Polling == {f \in Frame : io[f] # None} \ Running
Calls   == {f \in Live : cftype[f] = "CALL"}
Calling == {parent[g] : g \in Calls} \ {None}

(* No frame is in two places: a queued frame is queued once, and a frame   *)
(* that runs, that waits for a stream, that is not assigned yet or that    *)
(* waits for its callee is not queued as well.  findtask() and the three   *)
(* places that push to a list never look for the frame they push.          *)
OneHome ==
    /\ IsInjective(fresh) /\ IsInjective(stale)
    /\ Range(fresh) \cap Range(stale) = {}
    /\ Running \cap (Queued \cup Polling \cup newproc \cup Calling) = {}
    /\ Queued \cap (Polling \cup newproc \cup Calling) = {}
    /\ Polling \cap (newproc \cup Calling) = {}
    /\ newproc \cap Calling = {}

(* The scheduler holds exactly the frames that exist: none is dropped      *)
(* while it is alive (iopush, iopop, finish_frame), none is held after     *)
(* finish_frame() deleted it.                                              *)
NoLostFrame == Running \cup Queued \cup Polling \cup newproc \cup Calling = Live

(* What a live frame points at has not been deleted: its caller or the     *)
(* frame that forked it, which finish_frame() returns to or erases it      *)
(* from, and its forked paths.                                             *)
NoDangling ==
    \A f \in Live : parent[f] \in Live \cup {None} /\ fork[f] \subseteq Live

(* The call whose registers and code a fork path uses, however deep paths  *)
(* are forked by paths, is deleted after the path.                         *)
CallOutlivesPaths == \A f \in Live : fcall[f] \in Live

(* A caller has one callee at a time, so finish_frame() resumes it once.   *)
CallStack == \A f, g \in Calls : parent[f] = parent[g] /\ parent[f] # None => f = g

(* CodeFrame::fork, by which finish_frame() decides whether to delete, is  *)
(* the set of the paths that still run.                                    *)
ForkTree ==
    \A f \in Live : fork[f] = {g \in Live : cftype[g] = "FORK" /\ parent[g] = f}

(* iocount counts the frames that wait for a stream, and epoll knows each: *)
(* a frame that is counted and not registered is never served.             *)
IoAccounting ==
    /\ iocount = Cardinality(Polling)
    /\ \A f \in Polling : epoll[io[f]] = f

(* Worker::empty(), by which the application decides to stop, as the top   *)
(* of the loop sees it.  It does not look at iocount; with that, a worker  *)
(* that has nothing to run would have nothing pending: no frame is alive   *)
(* but those it has not been given.                                        *)
empty == current = None /\ fresh = <<>> /\ stale = <<>>
EmptyWorkerIsDone == at = "fetch" /\ empty /\ iocount = 0 => Live = newproc

(* The comment at findtask(), "all tasks are waiting on io", makes waiting *)
(* for a stream with nothing else to run an ordinary state: it must not    *)
(* end in a NULL dereference at the switch.                                *)
SurvivesIoWait == at # "segv"

(* The queue is served in order: of two frames that stay queued the one    *)
(* ahead stays ahead, whatever is pushed and however often fresh and stale *)
(* are swapped.                                                            *)
Ahead(f, g) == LET q == fresh \o stale
               IN  \E i, j \in DOMAIN q : i < j /\ q[i] = f /\ q[j] = g
QueueOrder ==
    [][\A f, g \in Frame :
         Ahead(f, g) /\ {f, g} \subseteq Queued' => Ahead(f, g)']_vars

(***************************************************************************)
(* Liveness.  The thread of the worker and the thread of the application   *)
(* keep running.  A running frame is never preempted, so the other frames  *)
(* depend on the programs: Yields says that a program that keeps running   *)
(* comes to wait or to end, Returns that one whose paths it forked have    *)
(* ended, and that keeps being run, returns.  Served: the frames that wait *)
(* for streams are served, and no more come to wait for one after some     *)
(* time.  Without it a frame that waits for another may never run: when    *)
(* findtask() finds it after iowork(), the switch puts it back to stale.   *)
(***************************************************************************)
FairThreads ==
    /\ WF_vars(gotowork)
    /\ \A g \in Frame : WF_vars(assign_process(g))

yield == \/ execute_wait
         \/ \E s \in Stream \cup {None} : execute_io(s)
         \/ execute_return
         \/ fail_frame
         \/ read_failure

Yields  == SF_vars(yield)
Returns == \A f \in Frame : SF_vars(current = f /\ execute_return)
Served  == <>[](iocount = 0)

FairSpec == Spec /\ FairThreads /\ Yields

(* No starvation: a queued frame gets to run, and not only to be put back  *)
(* by the switch, although forked paths go ahead of it and waiting frames  *)
(* poll again and again; one that has failed meanwhile need not run.       *)
QueuedFrameRuns ==
    Served => \A f \in Frame :
                 f \in Queued ~> current = f /\ (at = "fetch" \/ cfstate[f] \in Ended)

(* Nothing leaks: if programs return, every frame is deleted, those that   *)
(* ended before their forked paths and were queued again included.         *)
EveryFrameEnds ==
    Returns /\ Served => \A f \in Frame : status[f] = "live" ~> status[f] = "dead"
=============================================================================
