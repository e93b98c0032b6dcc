---------------------------- MODULE Application ----------------------------
(***************************************************************************)
(* The application: the workers, the processes they run, and the main      *)
(* thread, which hands new processes to the workers and stops the program  *)
(* when every worker looks empty (lib/schedule.cpp).                       *)
(*                                                                         *)
(* A process is one task here; what its frames do inside a worker is the   *)
(* subject of Worker.  The worker threads and the main thread interleave,  *)
(* and only new_process() takes application_lock: the main thread reads    *)
(* the workers and newproc without it.                                     *)
(***************************************************************************)
EXTENDS Integers, Sequences, FiniteSets, Functions

CONSTANTS
    NumWorkers, \* main() makes two
    MaxPid      \* bound: how many processes are ever created

ASSUME NumWorkersAssumption == NumWorkers \in Nat \ {0}
ASSUME MaxPidAssumption == MaxPid \in Nat \ {0}

Worker == 1 .. NumWorkers       \* next_workerid starts at 1
Pid    == 1 .. MaxPid
NULL   == 0

VARIABLES
    pid_count,  \* Application::pid_count
    lock,       \* the worker that holds application_lock, or NULL
    newproc,    \* the keys of Application::newproc
    recv,       \* the keys of Application::recv
    making,     \* per worker, the process new_process() is making
    step,       \* per worker, where it stands in new_process()
    owner,      \* ProcessRoot::owner
    current,    \* Worker::current, the process of the frame
    fresh,      \* Worker::fresh
    stale,      \* Worker::stale
    done,       \* the processes whose root frame has ended
    at,         \* where application_loop() stands
    it,         \* the worker application_loop() looks at
    distributor \* the worker that gets the next process

making_vars == <<pid_count, lock, recv, making, step>>
worker_vars == <<current, fresh, stale, done>>
loop_vars   == <<at, it, distributor>>
vars == <<making_vars, newproc, owner, worker_vars, loop_vars>>

TypeOK ==
    /\ pid_count \in Pid
    /\ lock \in Worker \cup {NULL}
    /\ newproc \subseteq Pid
    /\ recv \subseteq Pid
    /\ making \in [Worker -> Pid \cup {NULL}]
    /\ step \in [Worker -> {"run", "lock", "count", "store", "newproc", "recv", "unlock"}]
    /\ owner \in [Pid -> Worker \cup {NULL}]
    /\ current \in [Worker -> Pid \cup {NULL}]
    /\ fresh \in [Worker -> Seq(Pid)]
    /\ stale \in [Worker -> Seq(Pid)]
    /\ done \subseteq Pid
    /\ at \in {"distribute", "current", "fresh", "stale", "stopped"}
    /\ it \in Worker
    /\ distributor \in Worker

(* main() has made the main process, the workers run nothing yet.          *)
Init ==
    /\ pid_count = 1
    /\ lock = NULL
    /\ newproc = {1}
    /\ recv = {1}
    /\ making = [w \in Worker |-> NULL]
    /\ step = [w \in Worker |-> "run"]
    /\ owner = [p \in Pid |-> NULL]
    /\ current = [w \in Worker |-> NULL]
    /\ fresh = [w \in Worker |-> <<>>]
    /\ stale = [w \in Worker |-> <<>>]
    /\ done = {}
    /\ at = "distribute"
    /\ it = 1
    /\ distributor = 1

(* Application::running                                                    *)
running == at # "stopped"

-----------------------------------------------------------------------------
(***************************************************************************)
(* A worker thread.                                                        *)
(***************************************************************************)
(* Defect: front() without pop_front().                                    *)
findtask_unpopped(w) ==
    LET round == IF fresh[w] = <<>> THEN stale[w] ELSE fresh[w]
    IN  /\ running
        /\ current[w] = NULL
        /\ round # <<>>
        /\ current' = [current EXCEPT ![w] = Head(round)]
        /\ fresh' = [fresh EXCEPT ![w] = round]
        /\ stale' = [stale EXCEPT ![w] = IF fresh[w] = <<>> THEN <<>> ELSE @]
        /\ UNCHANGED <<making_vars, newproc, owner, done, loop_vars>>

(* The loop of gotowork() with nothing to run, when it finds something.    *)
findtask(w) ==
    LET round == IF fresh[w] = <<>> THEN stale[w] ELSE fresh[w]
    IN  /\ running
        /\ current[w] = NULL
        /\ round # <<>>
        /\ current' = [current EXCEPT ![w] = Head(round)]
        /\ fresh' = [fresh EXCEPT ![w] = Tail(round)]
        /\ stale' = [stale EXCEPT ![w] = IF fresh[w] = <<>> THEN <<>> ELSE @]
        /\ UNCHANGED <<making_vars, newproc, owner, done, loop_vars>>

Executes(w) == running /\ current[w] # NULL /\ step[w] = "run"

(* The process waits for a message or a promise, and polls again later.    *)
wait(w) ==
    /\ Executes(w)
    /\ stale' = [stale EXCEPT ![w] = Append(@, current[w])]
    /\ current' = [current EXCEPT ![w] = NULL]
    /\ UNCHANGED <<making_vars, newproc, owner, fresh, done, loop_vars>>

(* Defect: a frame without parent leaves current as it was.                *)
finish_stays(w) ==
    /\ Executes(w)
    /\ done' = done \cup {current[w]}
    /\ UNCHANGED <<making_vars, newproc, owner, current, fresh, stale, loop_vars>>

(* The root frame of the process ends.                                     *)
finish(w) ==
    /\ Executes(w)
    /\ done' = done \cup {current[w]}
    /\ current' = [current EXCEPT ![w] = NULL]
    /\ UNCHANGED <<making_vars, newproc, owner, fresh, stale, loop_vars>>

(***************************************************************************)
(* execute_newproc() and new_process(), step by step.  The bound keeps the *)
(* processes that are being made and those that exist below MaxPid.        *)
(***************************************************************************)
newproc_vars == <<owner, worker_vars, loop_vars>>

execute_newproc(w) ==
    /\ Executes(w)
    /\ pid_count + Cardinality({v \in Worker : step[v] \in {"lock", "count", "store"}}) < MaxPid
    /\ step' = [step EXCEPT ![w] = "lock"]
    /\ UNCHANGED <<pid_count, lock, newproc, recv, making, newproc_vars>>

(* Defect: new_process() does not take the lock.                           *)
Lock_free(w) ==
    /\ running /\ step[w] = "lock"
    /\ lock' = w
    /\ step' = [step EXCEPT ![w] = "count"]
    /\ UNCHANGED <<pid_count, newproc, recv, making, newproc_vars>>

Lock(w) ==
    /\ running /\ step[w] = "lock"
    /\ lock = NULL
    /\ lock' = w
    /\ step' = [step EXCEPT ![w] = "count"]
    /\ UNCHANGED <<pid_count, newproc, recv, making, newproc_vars>>

(* ++pid_count is a load and a store.                                      *)
Count(w) ==
    /\ running /\ step[w] = "count"
    /\ making' = [making EXCEPT ![w] = pid_count + 1]
    /\ step' = [step EXCEPT ![w] = "store"]
    /\ UNCHANGED <<pid_count, lock, newproc, recv, newproc_vars>>

Store(w) ==
    /\ running /\ step[w] = "store"
    /\ pid_count' = making[w]
    /\ step' = [step EXCEPT ![w] = "newproc"]
    /\ UNCHANGED <<lock, newproc, recv, making, newproc_vars>>

AddNewproc(w) ==
    /\ running /\ step[w] = "newproc"
    /\ newproc' = newproc \cup {making[w]}
    /\ step' = [step EXCEPT ![w] = "recv"]
    /\ UNCHANGED <<pid_count, lock, recv, making, newproc_vars>>

(* Defect: the process is not entered in recv.                             *)
AddRecv_skipped(w) ==
    /\ running /\ step[w] = "recv"
    /\ step' = [step EXCEPT ![w] = "unlock"]
    /\ UNCHANGED <<pid_count, lock, newproc, recv, making, newproc_vars>>

AddRecv(w) ==
    /\ running /\ step[w] = "recv"
    /\ recv' = recv \cup {making[w]}
    /\ step' = [step EXCEPT ![w] = "unlock"]
    /\ UNCHANGED <<pid_count, lock, newproc, making, newproc_vars>>

Unlock(w) ==
    /\ running /\ step[w] = "unlock"
    /\ lock' = NULL
    /\ making' = [making EXCEPT ![w] = NULL]
    /\ step' = [step EXCEPT ![w] = "run"]
    /\ UNCHANGED <<pid_count, newproc, recv, newproc_vars>>

new_process(w) ==
    Lock(w) \/ Count(w) \/ Store(w) \/ AddNewproc(w) \/ AddRecv(w) \/ Unlock(w)

-----------------------------------------------------------------------------
(***************************************************************************)
(* The main thread, application_loop().                                    *)
(***************************************************************************)
(* Defects: the iterator does not advance, or runs past the last worker.   *)
cycle_distributor_stays(w) == w
cycle_distributor_runs_off(w) == w + 1

cycle_distributor(w) == IF w = NumWorkers THEN 1 ELSE w + 1

(* Defect: the process stays in newproc.                                   *)
distribute_work_keeps ==
    /\ at = "distribute"
    /\ \E p \in newproc :
         /\ \A q \in newproc : p <= q
         /\ owner' = [owner EXCEPT ![p] = distributor]
         /\ stale' = [stale EXCEPT ![distributor] = Append(@, p)]
    /\ distributor' = cycle_distributor(distributor)
    /\ UNCHANGED <<making_vars, newproc, current, fresh, done, at, it>>

(* One turn of distribute_work(): newproc.begin() is the lowest pid.       *)
distribute_work ==
    /\ at = "distribute"
    /\ \E p \in newproc :
         /\ \A q \in newproc : p <= q
         /\ owner' = [owner EXCEPT ![p] = distributor]
         /\ stale' = [stale EXCEPT ![distributor] = Append(@, p)]
         /\ newproc' = newproc \ {p}
    /\ distributor' = cycle_distributor(distributor)
    /\ UNCHANGED <<making_vars, current, fresh, done, at, it>>

distributed ==
    /\ at = "distribute"
    /\ newproc = {}
    /\ at' = "current"
    /\ it' = 1
    /\ UNCHANGED <<making_vars, newproc, owner, worker_vars, distributor>>

(* Defect: the loop stays with the worker until it is empty.               *)
Look_stays(field, free, next) ==
    /\ at = field
    /\ at' = IF free THEN next ELSE field
    /\ UNCHANGED <<making_vars, newproc, owner, worker_vars, distributor>>

(* Worker::empty() reads current, then fresh, then stale; the worker may   *)
(* run in between.  A worker that is not empty ends the round.             *)
Look(field, free, next) ==
    /\ at = field
    /\ at' = IF free THEN next ELSE "distribute"
    /\ UNCHANGED <<making_vars, newproc, owner, worker_vars, distributor>>

look_current == Look("current", current[it] = NULL, "fresh") /\ UNCHANGED it
look_fresh   == Look("fresh", fresh[it] = <<>>, "stale") /\ UNCHANGED it

look_stale ==
    /\ Look("stale", stale[it] = <<>>, IF it = NumWorkers THEN "stopped" ELSE "current")
    /\ it' = IF stale[it] = <<>> /\ it < NumWorkers THEN it + 1 ELSE it

application_loop ==
    distribute_work \/ distributed \/ look_current \/ look_fresh \/ look_stale

-----------------------------------------------------------------------------
gotowork(w) == findtask(w) \/ wait(w) \/ finish(w) \/ execute_newproc(w) \/ new_process(w)

Next == application_loop \/ \E w \in Worker : gotowork(w)

Spec == Init /\ [][Next]_vars

-----------------------------------------------------------------------------
(* The processes worker w has to run.                                      *)
Held(w) == Range(fresh[w]) \cup Range(stale[w]) \cup ({current[w]} \ {NULL})

(* A process that is handed out belongs to one worker for good: the worker *)
(* has it to run or has ended it, and newproc has let go of it.            *)
OneOwner ==
    /\ \A w \in Worker :
          /\ Held(w) \cap done = {}
          /\ {p \in Pid : owner[p] = w} \subseteq Held(w) \cup done
          /\ \A p \in Held(w) : owner[p] = w
    /\ \A p \in newproc : owner[p] = NULL

(* A worker queues a process once.                                         *)
QueuedOnce ==
    \A w \in Worker :
        /\ IsInjective(fresh[w]) /\ IsInjective(stale[w])
        /\ Range(fresh[w]) \cap Range(stale[w]) = {}
        /\ current[w] \notin Range(fresh[w]) \cup Range(stale[w])

(* The lock makes pids unique: two workers never make the same process.    *)
PidsUnique ==
    \A v, w \in Worker : making[v] = making[w] /\ making[v] # NULL => v = w

(* Once newproc has its pid a process is known to Application::recv, so a  *)
(* message to it is not dropped, and nothing made is forgotten.            *)
PidsKnown ==
    \A p \in 1 .. pid_count :
        \/ p \in Range(making)
        \/ p \in recv /\ (p \in newproc \/ owner[p] # NULL)

(* The distributor deals processes out in turn: no worker owns two more    *)
(* than another.                                                           *)
Share(w) == Cardinality({p \in Pid : owner[p] = w})
Balanced == \A v, w \in Worker : Share(v) <= Share(w) + 1

(* DOCS/instruction_set.md, newproc: "Launch a new process that executes   *)
(* the given function."  The application does not stop before it has       *)
(* assigned every process that newproc has made.                           *)
NoProcessForgotten == at = "stopped" => newproc = {}

(* application_loop() stops when "all_empty": it does not stop while a     *)
(* worker has something to run.                                            *)
NoProcessCutOff == at = "stopped" => \A w \in Worker : Held(w) = {}

(***************************************************************************)
(* Liveness.  Every thread keeps running, and gets the spin lock when it   *)
(* is contended only for so long: MaxPid bounds the contention.  Ends says *)
(* that a process that keeps being run comes to its end.                   *)
(***************************************************************************)
FairThreads ==
    /\ WF_vars(application_loop)
    /\ \A w \in Worker : WF_vars(findtask(w)) /\ WF_vars(new_process(w))

Ends == \A w \in Worker, p \in Pid : SF_vars(current[w] = p /\ finish(w))

FairSpec == Spec /\ FairThreads

(* A new process is assigned or the program stops, even if the processes   *)
(* that run never end: the main thread never waits for a worker.           *)
NewProcessAssigned == \A p \in Pid : p \in newproc ~> owner[p] # NULL \/ at = "stopped"

(* The program comes to an end when its processes do.                      *)
Stops == Ends => <>(at = "stopped")
=============================================================================
