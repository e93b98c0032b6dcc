# qbrt, specified in TLA+

This directory specifies qbrt, the byte code interpreter in `src/`, with its compiler and
inspector. Of the runtime: how a worker schedules code frames, how the application creates,
hands out and ends processes, how processes exchange messages, what instructions do to
registers, and how a call finds the function it runs. Of the tools: how `qbc` turns parsed
statements into an object file, in which order it compiles modules that import each other,
and how the runtime and `qbi` read the file. TLC checks the specifications on small
instances; TLAPS proves the main invariants of the scheduler, of the application, of
channels that one worker uses, of the interpreter whatever its programs, and of the order of
compilation, for instances of any size.

Paths below are relative to `src/lib/` unless they start with `src/`.

## 1. The system

| component | source | state | operations |
|---|---|---|---|
| worker scheduler | `schedule.cpp`, `qbrt/schedule.h` | per worker: `current`, `fresh`, `stale`, epoll set, `iocount`; per frame: `cfstate`, `parent`, `fork`, `io` | `gotowork`, `findtask`, `iopush`, `iopop`, `iowork`, two `finish_frame`s |
| application | `schedule.cpp`, `main` in `qbrt.cpp` | `worker`, `newproc`, `recv`, `pid_count`, `application_lock`, `running` | `new_process`, `distribute_work`, `application_loop`, `Worker::empty` |
| message passing | `schedule.cpp`, `qbrt.cpp` | one `Channel` per process: a `std::list` and a spin lock | `core_send`, `send_msg`, `execute_recv` |
| interpreter | `qbrt.cpp`, `qbrt/function.h` | registers of the running calls: values, references, promises, failures | one `execute_*` function per op code, `qbrtcall` |
| dispatch | `qbrt.cpp`, `schedule.cpp`, `function.cpp`, `module.cpp` | module tables, the function a function value stands for | `override_function`, `find_override`, `reassign_func` |
| values, types | `core.cpp`, `type.cpp` | none of their own | `copy`, `dup`, `qbrt_compare`, `type_compare`, `List` |
| streams | `io.cpp`, `io.h` | file descriptors | `getline`, `write`, at once (`FileStream`) or by epoll (`ByteStream`) |
| modules | `module.cpp`, `qbrt/module.h` | loaded object files, C functions added to them | `read_module`, `fetch_function`, `fetch_override`, `compare_types` |
| compiler `qbc` | `qbc.cpp`, `stmt.cpp`, `instruction.cpp` | resources, registers and labels of the module being compiled; the table of modules read; the object files | `compile_module` and its phases, `load_imported_modules` |
| inspector `qbi` | `qbi.cpp` | none | lists an object file |
| lexer, parser, `map.h`, `vector.h`, `lempar`, byte code libraries, tests | | | no state the specifications need |

**How they interact.** `main()` makes two workers and the main process, starts a thread
for each worker and then runs `application_loop()` itself. The loop moves processes from
`newproc` to the workers in turn, and ends the program when every worker looks empty. A
worker runs one frame, `current`, until it waits or ends. An instruction may call a
function (the callee becomes `current`, the caller is reachable only as its `parent`),
fork a path (a new frame in `fresh` which shares the caller's registers), start a process
(`newproc`, under the application's lock), wait for a promise or a message (the frame goes
to `stale` and tries again when its turn comes), or start I/O (the frame is known to epoll
only). Workers share `newproc`, `recv`, the module tables and, by `core/send`, the
channels. The main thread reads and writes the queues of the workers without a lock.
`qbc` and the runtime meet in the object file only: a header, a table of resources that name
each other by index, and code in bytes. Nothing in it is checked when it is read.

**What is hard.**

- A frame has many possible homes and every transfer between them is a separate pointer
  assignment: `current`, `fresh`, `stale`, epoll, `parent` of its callee, `newproc`.
- A function may end before the paths it forked. It is then kept in the queue with a
  final state and must be neither dropped, nor deleted early, nor finished twice.
- The scheduler polls: nothing wakes a waiting frame, so every liveness argument goes
  through the two queues.
- Epoll is asked only after an instruction, so frames that wait for I/O depend on others.
- The decision to stop the program is taken from unlocked reads of moving state.
- Channels have a lock that is never taken.
- A function value owns the registers its calls run on, and dispatch rewrites it. Forked
  paths share registers with their maker, and wait for each other through a promise that
  sits in a register like any other value.
- A failure takes another way than the control flow: to the result of the function call,
  while the path that met it goes on.
- `qbc` calls itself for imports whose object file is missing, in the middle of compiling
  the importer; files of earlier runs decide what this one does.

`PROJECT.json` lists these and the other hazards at their lines.

**What makes each component correct.** *Scheduler*: a live frame is in exactly one place,
a deleted one in none; no pointer to a deleted frame; the queue is fair; `iocount` is
right; everything ends when programs return. *Application*: a process is created once,
owned by one worker, assigned in the end, and the program stops exactly when nothing is
left to do. *Messages*: delivered once, in order. *Interpreter*: a promise is kept once and
every reader sees the value, a failure reaches the result of the frame that read it.
*Dispatch*: a call runs the most specific function whatever the value called before.
*Compiler*: no two names of a function share a register, every jump ends at its label,
the file read back is what was collected, imports are compiled before their importers,
each once, and `qbc` ends. *Inspector*: what it lists is what was compiled.

## 2. The modules

| module | what it is |
|---|---|
| `Worker` | one worker thread: frames, queues, epoll, and every way an instruction can act on them |
| `MCWorker` | `Worker` on a few frames and streams |
| `WorkerProof` | the inductive invariant of `Worker` and its theorems |
| `Application` | the main thread, the workers as it sees them, and `new_process()` step by step |
| `MCApplication` | `Application` with two workers |
| `ApplicationProof` | the inductive invariant of `Application` and its theorems |
| `Queues` | lemmas about sequences that gain elements at the end, lose the first or the last, or change one; induction up to a number |
| `Mailbox` | abstract: what message passing promises |
| `Channel` | the list of a channel, store by store, and its refinement of `Mailbox` |
| `MCChannel` | `Channel` on one worker and on two |
| `ChannelProof` | the inductive invariant of `Channel` on one worker; its theorems and its refinement of `Mailbox` |
| `Interpreter` | registers, instructions, calls, dispatch, processes and their messages, on two workers |
| `MCInterpreter` | seventy-five small programs, and what the documentation says of them |
| `InterpreterProof` | the inductive invariant of `Interpreter` for any programs, and its theorems |
| `PromiseProof` | what becomes of messages and promises in `Interpreter`; extends `InterpreterProof` |
| `Build` | abstract: which object files `qbc` writes and when |
| `MCBuild`, `BuildProof` | `Build` on four modules; its inductive invariant and theorems |
| `Instruction` | the instruction structs: registers, op codes, sizes, bytes |
| `Statement` | parsed statements and the resources of a module |
| `Assembler` | from statements to instructions and resources |
| `Passes` | three passes over what the statements ask for: indices of resources, registers, labels and jumps |
| `Compiler` | collecting and ordering resources, and what it passes on to `Passes` |
| `ObjectFile` | writing and reading the bytes of an object file |
| `Module` | a loaded module and the searches of its tables |
| `Inspector` | what `qbi` lists |
| `Qbc` | `compile_module` phase by phase, what the phases compute being constants, and its refinement of `Build` |
| `QbcProof` | the inductive invariant of `Qbc`, the proof of its refinement, and what follows from it with `BuildProof`; the theorems about `Passes` |
| `Toolchain`, `MCToolchain` | `Qbc` with what its phases compute, and `qbi`; a project of four modules |

`Worker` treats a process as a frame without parent and the application as the action
`assign_process`. `Application` treats a process as one task and the inside of a worker as
"find a task, wait, end, make a process". They share the interface: `assign_process` and
`execute_newproc` in one are `distribute_work` and `new_process` in the other. `Channel`
takes the turns of the receiving process as fairness, which is what `QueuedFrameRuns` says
of `Worker`.

### Worker

A frame is a `CodeFrame`; `status` says whether it was allocated or deleted, and frames are
never reused, so a pointer to a deleted frame is recognised. `at` is where `gotowork()`
stands: `fetch` at the top of the loop, then the actions `execute_*` for
`execute_instruction`, `iopush` and `iowork` for lines 306-314, `switch` for line 316, and
`segv` once line 316 has followed a NULL pointer. A loop turn is therefore several steps,
and only `assign_process`, the one thing another thread does to a worker, comes in between.

The byte code is left open. Each `execute_*` action is one way an instruction can affect
the scheduler and any may be taken at any time, so every program is covered. Instructions
that only move values are `execute_local`. Three behaviours of programs are taken out
unless the constant `Allowed` names them, because the scheduler does not survive them and
every other property would then only repeat it:

- `unjoined`: a called function, or a path, ends while a path it forked still runs. This
  is the finding of the run `worker_unjoined_fork`.
- `forkfail`: a path reads a failed register. `RETURN_FAILURE` then fails the *call*, whose
  frame is elsewhere (`qbrt.cpp:43`).
- `sharedfd`: two frames wait for one descriptor. `epoll_ctl` refuses the second and nobody
  looks (`schedule.cpp:250`). `Interpreter` has this one.

A process's root function may still end before its paths. It is kept, and runs again.

### Application

`Worker::empty()` is read by the main thread one field at a time (`look_current`,
`look_fresh`, `look_stale`) while workers move tasks, and `new_process()` is one action per
statement under the spin lock. An operation on one `std::list` or `std::map` is one step:
that these containers are themselves raced on is not in this module (see `Channel`).
`MaxPid` bounds the processes ever made.

### Channel and Mailbox

`push_back()` and `pop_front()` are the loads and stores of the library's list node, and a
worker may be interrupted between any two. `Mailbox` is one queue per process. The
refinement maps a channel to what its `next` links lead to; a message is sent when its
predecessor points at it and received when its predecessor no longer does. `Contents` is
therefore the sequence of messages the links lead through (`Leads`), of which there is at most
one, and `Linked` the nodes that can be reached. Neither is recursive, so that both can be
proved about.

### Interpreter

A value is a tuple whose first component is its type; `value` is the heap of what registers
point at: function values, tuples, constructs, strings, context variables. A *place*
`<<v, r, n>>` is what `qbrt_value *` is in the code: the address of register `r` of object `v`
after its registers have moved `n` times. Registers move when `reassign_func()` needs more of
them and `realloc()` cannot extend the block (`function.cpp:86`; whether it can is left open),
and those of a context variable go with the `frame_context` of the frame that made it
(`schedule.h:105`). A reference, a result, a promise or the target of a read that is older than
the move then *dangles*. A call runs on the registers of its function value
(`FunctionCall::regv`) and writes its result to a place of its caller. The turn of `gotowork()`
is in three steps as in `Worker` (instruction, streams, switch), without what `Worker` shows
about the queues. The choices left open are when a stream is ready (`iopop`), whether stdin is a
fifo, whether a file opens, which worker takes the next step, and when the main thread hands a
new process to the next worker (`distribute_work`). An instruction of one worker is atomic for the
other; `new_process()` and `Channel`, where it is not, have their own modules.

A process is its root frame, its worker and the list of messages it has not received. A
message is an object with one register, the copy `dup()` makes. The result of a process that
`newproc` has started is `NoPlace`, the NULL it is in the code.

An instruction first looks its registers up in order (`Stops`), each in the way its code does:
`read_reg`, `write_reg`, `read_failed_reg`, `srcvalue`, `dstvalue`, `refvalue` and
`failure()` are different functions, which follow references, wait for promises and
notice failures each at other points. `Lookup` has them; `Mode` says which one an instruction uses
for which operand. A lookup finds a place or stops, and what happens then is an action:

- `read_promise`: the frame waits. `read_failure`: the failure goes to the result of the function
  call, which has failed. `register404`: the frame fails. `patternvar_null`: the instruction comes
  again, for ever.
- `follow_null`: the code goes on with a NULL pointer, a place that dangles, or the data of
  another type taken for a pointer (`undefined`).

Only then do the actions of the instructions apply, one for each `execute_*` function.
`execute_call` follows `call()` and `qbrtcall()` step by step: failed arguments,
`override_function`, abstract functions, C functions, types of the arguments, the new frame. A
NULL pointer or a dangling one that is followed, `exit()`, and a frame that ends before its paths
(which is `Worker`'s `unjoined`) set `broken` and end the run.

`getline` and `write` take a stream, a context variable (`stdin`, `stdout`) or what `open` has
returned. A `FileStream` is read at once and leaves the frame in `IOWAIT`. On a `ByteStream` the
frame goes to epoll with a descriptor (`iopush`); when another frame of the worker has the descriptor
already, it is not registered, no `iopop` will ever return it, and `Deaf` holds.

`MCInterpreter` has the programs. `Meaning` says what may come of each of 36, from the
instruction reference, a comment or a test, and `Determinate` is checked of these. Of the
others (`Unsaid`) nothing is documented, or the code does not do what is. They are run for the
other properties, and to reach every action:

- Against the reference, and reported: `impatient` (`match` does not wait), `called` (nor does
  `call` for its function) and `disagrees`, which has both and `cmp<=`, taken for `cmp>=`
  (`qbrt.cpp:839`). `disagrees` has a `Meaning`, and `interpreter_disagrees` refutes it.
- `late`: a path that waited once yields after every instruction, because `PEERWAIT` is never
  reset (`qbrt.cpp:155`). Its reader may return between the write that keeps the promise and
  the path's `return`. A program that joins all its paths may so end as `unjoined`.
- `shared`: two live calls of one function value overwrite each other's registers.
- `aliases`: `copy` shares a string, `stracc` changes it in place. `tags`: any hashtag equals
  any other. `loose`: constructs are compared by module and name only.
- `outgrown`, `outgrown_result`, `outgrown_text`: an override with more registers moves those of
  the function value it is found for, and a reference to an argument, or the place of the
  result, dangles. `outlived`: a reference to a context variable of a call that has returned.
- `unknown`: overrides are searched in the modules this worker has looked up, so the same
  call gives 4 before and 19 after `loadobj`. `referred`: a reference hides the type behind it.
- `mistaken`, `checked`, `fields`, `misdirected`: the runtime exits. `given`, `absent`: it follows
  NULL. `numbers`, `divides_text`, `tests_number`: it takes a number for a pointer, or data of one
  type for those of another.
- `returns`, `fails`: a process started by `newproc` writes its result, or fails, through NULL;
  `starts_c`: so does starting a C function. `wonders` (`Stuck`): a process asks for a pattern
  variable in its result, and tries again for ever. `starts_promise`: a promise is no function, and nobody waits. `twice`: `newproc` takes the
  function value away.
- `roams`, `load_races`: which override is called depends on the worker a process was dealt
  to and on the modules other processes there have loaded by then.
- `sends_construct`, `meddled`: constructs and references cross workers uncopied.
- `files`: a file may not open. `unwritten`: an instruction without executioner. `abstract`,
  `unjoined`: as their names say.
- `reads_failure`, `bad_argument` (`Stuck`): a path fails before it keeps its promise; its
  readers poll for ever. `waits` (`Stuck`): nobody sends.

Of the programs that have a meaning, `asks` is the test `T/newproc.uqb`; `posts`: a message to a pid
that is nobody's is lost, one to a process that has ended is kept; `mixes`: two senders are
received in either order, which nothing forbids; `readings` and `lines`: two paths read stdin, and
where it is a fifo one of them may never be told (`Deaf`).

The functions are a constant. What the assumptions ask of them (`FunctionAssumption`,
`CodeAssumption`, `ConstructAssumption`, `OverrideAssumption`, `MainAssumption`) is what an
object file that `qbc` has written gives: registers that an instruction names are among those
of its function, jumps lead to instructions, code ends with an instruction that does not go on
to the next, an override is of a function that can be overridden. `Toolchain` checks this of
what is compiled (`RegistersApart`, `JumpsLand`, `EveryFunctionFound`), and `OwnRegisters` and `Jumps`
of section 4 show it of code in memory, for every function up to 128 names and 32K of code; the
runtime itself checks none of it when it loads a file. That `lfunc` finds its function is assumed too. `MaxRefs` cuts
chains of references: `follow_ref()` would follow a loop of them for ever.

`Construct` and `Override` are tables the loader would have built; `Override` has the order
in which the modules are searched. The types of the arguments are what `append_type()` and
`load_construct_value_types()` make of them, the types of fields included, and are compared as
`compare_types()` does, with `*` for all up to the next parenthesis. Where a `*` stands before an
argument list that ends first, the code reads past the end; here nothing matches.

### Build and Toolchain

`Build` is `compile_module()` and `load_imported_modules()` without the contents of files.
The activations of `compile_module()` are a stack (`MaxDepth` stands for the machine's), an
object file stays when its source is edited, and whoever runs `qbc` may interrupt it, with
the file it was about to write left in whatever state.

`Qbc` has the same phases (without interruptions) and passes on what they compute: resources,
code, files. What that is it leaves to constants: `Indexed` stands for `collect_resources` and
`index_resources`, `Allocated` for `allocate_registers`, `Generated` for `generate_code`,
`Object` for `write_object` and `Before` for the order in which a `std::set` is iterated. It
assumes of them that a module's imports are modules other than itself (`ResourceSet::import()`
leaves the module being compiled out; a module that is named and nowhere to be found is one
without text), that a written file is not empty, as it has a header (`SourceAssumption`), and
that a non-empty set of names has a first one (`OrderAssumption`). `WritesAsBuild` is the
refinement.

`Toolchain` defines these operators out of those of `Statement`, `Assembler`, `Passes`,
`Compiler` and `ObjectFile`, where files are sequences of bytes; `toolchain.cfg` gives them to the constants,
and TLC evaluates the assumptions for the texts of `MCToolchain`. It adds that `qbi` lists a
file after `qbc` has ended. A step of `Toolchain` is a step of `Qbc` or leaves the variables of
`Qbc` alone, so what is proved of `Qbc` holds of it.

A module's names, strings and types are sequences of atoms and `AtomOrder` gives the atoms'
order, from which that of strings follows. That suffices to sort resources as `ResourceLess`
does and to compare types as `compare_types` does, "character" by "character".

## 3. The runs

| run | bounds | shows |
|---|---|---|
| `worker` | 3 frames, 2 streams | the invariants of section 4 and `QueueOrder`, under all interleavings of calls, forks, waits, I/O, failures, new processes; a worker that looks empty and waits for no stream has nothing pending (`EmptyWorkerIsDone`); no queued frame starves (`QueuedFrameRuns`) and every frame is deleted in the end (`EveryFrameEnds`), when streams are served |
| `worker_unjoined_fork` | 3 frames | **violated** `NoDangling` |
| `worker_io_alone` | 2 frames, 1 stream | **violated** `SurvivesIoWait` |
| `application` | 2 workers, 4 processes | one owner, no double queueing, unique pids, registration, even distribution; every new process is assigned or the program stops, though processes may run for ever; the program stops when its processes end |
| `application_newproc_lost` | 2 workers, 3 processes | **violated** `NoProcessForgotten` |
| `application_torn_empty` | 2 workers, 3 processes | **violated** `NoProcessCutOff` |
| `channel_one_worker` | 2 processes, 3 messages | a channel used by one worker implements `Mailbox`, fairness included |
| `channel_two_workers` | 2 processes, 3 messages, a worker each | **violated** `NoMessageLost` |
| `build` | 4 modules with a cycle, missing and wrong sources, 3 runs, depth 5 | an object file has those of its imports (`ImportsFirst`), and only interruptions truncate one (`FailuresTruncateNothing`), under any edits, failures and interruptions; every run ends (`QbcEnds`) |
| `toolchain` | the same modules with full texts, 1 run | the file read back is the module that was collected (`ReadsBack`), the runtime finds every function, protocol function and override by name and types (`EveryFunctionFound`), jumps end at instructions, at the label (`JumpsLand`), names have registers of their own, arguments the first (`RegistersApart`), `qbi` lists the code (`ListsCode`), files are written as `Build` says (`WritesAsBuild`) |
| `interpreter` | 112 functions, 74 programs, stdin a fifo or not, 2 workers, at most 8 frames each, chains of 3 references | every order of streams and of the steps of workers gives what is documented of a program (`Determinate`); a promise in a register has a running path (`PromisesKept`); dispatch does not depend on earlier calls (`DispatchFresh`); calls have room (`RoomForRegisters`); a failed call leaves a failure (`FailuresReachCaller`); programs end, or wait for streams in one of the two ways that are named (`ProgramEnds`) |
| `interpreter_disagrees` | the program `disagrees` | **violated** `Determinate`: `cmp<=` is false of 3 and 4, a call of a promised function fails at once, a promise does not match what it will be |

**Why the bounds are enough.** Three frames allow a caller with a callee that forks a path, a path
that forks a path, or two processes of which one forks; two streams allow two frames in epoll with
a third running. The pattern of every counterexample that was found needs three frames or fewer,
and the invariants and `QueueOrder` are proved for any number. Frames are interchangeable in the
code (addresses are never compared except in the `fork` set), so symmetry is sound in the two runs
that use it, which check no liveness. The modules of `build` form a diamond, a chain of four and a
cycle; three runs let a file of the first be stale in the second and its importer be compiled in
the third. The texts of `toolchain` use every statement and every kind of resource, forward and
backward jumps across a nested block, two functions of one name, and two bindings of one protocol.
The programs of `interpreter` fire every action; two paths with a stream each let either be first,
and a third level of calls lets frames return in any order; three processes put two on one worker
and one on the other, so that messages and modules cross and do not cross. Two workers are what
`main()` makes, and four processes take the distributor round twice. Three messages let a sender
overtake, and empty a channel between sends.

**Deadlock** is checked nowhere, because every part of the system may stop: `segv`, `stopped`, or
all messages sent and received; `qbc` has run `MaxRuns` times; the program has ended.

**Fairness.** `FairThreads`: operating system threads run. No fairness is assumed for a
single instruction. Since a running frame is never preempted, liveness of the others
depends on programs, and the assumptions say so by name: `Yields` (a program that keeps
running waits or ends), `Returns` (a frame that is run again and again and has no paths
left returns), `Ends` (the same for a process), `Served` (from some time on no frame waits for
a stream). `Yields` is part of `FairSpec`; `Returns` and `Served` are premises of the
properties. `Served` is needed for a reason of its own: after an instruction that starts I/O it is
`iowork()` and then the `findtask()` of line 314 that choose the next frame, and the switch of line
316 puts a `PEERWAIT` frame back without running it. A program that goes on reading can so keep a
frame that waits from ever looking again. And a worker with nothing but waiting streams follows
NULL (`worker_io_alone`). In `Channel` a process that receives gets its turn again and again.

The fairness of `Interpreter` is weak fairness of each worker's steps, with what enables a step
written out (`Busy`, `Steps`), of `distribute_work`, and strong fairness of `iopop`: a stream
that is waited for is ready some day, when `iowork()` looks, which is a moment that comes again
and again but passes. It says nothing of a frame that is not registered. `LeftOver` (streams
are waited for, and no worker has anything else to do) and `Deaf` are therefore what `ProgramEnds`
allows besides an end; and `Determinate` leaves out the moment before a lone worker follows NULL.
In `Build` the fairness is that `qbc` goes on unless interrupted.

**The findings**, in short: a function that returns before its forked path is finished twice; a
lone frame that waits for a pipe crashes the worker; the program may stop with a new process
unassigned, or with a process running; two workers using a channel lose messages; `cmp<=`, and two
instructions that do not wait for a promise. Each quotes the line of the documentation or the
comment it contradicts in `PROJECT.json`.

Definitions marked `Defect:` differ from their neighbour the way a bug would; no
specification uses them. Substituted for it, each makes the property named beside it in
`PROJECT.json` fail.

## 4. What is proved

`WorkerProof` proves, for any sets of frames and streams and `Allowed = {}`, that these are
invariants: `TypeOK` (`TypeCorrect`), `OneHome` (`FramesHaveOneHome`), `NoLostFrame`
(`NoFrameForgotten`), `NoDangling` (`FrameTree`), `CallStack` (`CallersWaitForOne`),
`ForkTree` (`ForkSetsExact`), `IoAccounting` (`IoAccounted`), `CallOutlivesPaths`
(`CallsOutlivePaths`). They follow from `Invariance`, `Spec => []Inv`. `QueueInOrder` proves
the action property `QueueOrder` from the same invariant: what a step does to the two queues
is a removal at the front, an append, or the swap, and each keeps the order of the frames
that wait before and after it. None of the properties is inductive alone, and `Inv` joins them with what
they need:

- `Homes` (`OneHome` and `NoLostFrame`): every live frame has one place and every place
  holds live frames. A step that moves a frame needs both halves, to know that the place
  it moves to does not have the frame yet.
- `Tree` (`NoDangling`, `CallStack`, `ForkTree`, and what frames look like when they are
  made): a frame may be deleted only when no callee and no path points at it.
- `EndsNow`: a frame is condemned by an instruction and deleted at the switch; in between,
  a frame with a parent that has ended has no paths. This is where `Allowed = {}` is used.
- `AtOK`: what `current` and its stream are at each point of the loop.
- `PathInv`: for `CallOutlivesPaths`, that a path and the frame that forked it run in the same
  call, and that forks are well founded. The second is stated without induction, as
  `ForksEnd`: no non-empty set of paths contains the parents of all its members. A new path
  is nobody's parent, so no step can make such a set.
- `Io`: `IoAccounting`, and that epoll watches only streams a frame waits for. That the set
  of these frames is finite is part of it, since the number of frames is not bounded.

The proof has a lemma per action, and under it a step per part of `Inv` that the action can
disturb. The assumptions are `NoneAssumption` and `AllowedAssumption`, and `Allowed = {}`.

`ApplicationProof` proves, for any `NumWorkers` and `MaxPid`, the invariants of `Application`:
`TypeOK` (`ApplicationTypes`), `OneOwner` (`OwnedForGood`), `QueuedOnce` (`NoDoubleQueueing`),
`PidsUnique` (`NoPidTwice`), `PidsKnown` (`NoPidForgotten`), `Balanced` (`DealtEvenly`). The
assumptions are `NumWorkersAssumption` and `MaxPidAssumption`. `Inv` adds:

- `Locked`: only the worker that holds `application_lock` is past it, and the pid it is about
  to store is `pid_count + 1`, the one it has stored `pid_count`. With `UnmadeOK` (no process
  above `pid_count` is anywhere, nor the one not yet in `newproc`) this keeps pids unique.
- `EnteredOK`: how far `new_process()` has got in its order, first `newproc`, then `recv`,
  then the unlock; `PidsKnown` is what is left of it once the lock is free.
- `RoomLeft`: the workers that have passed the test of `MaxPid` and not counted yet fit below
  it. It is about the bound only.
- `DoneOK`: only processes that were handed out end, so that `OneOwner` and `QueuedOnce` need
  not speak of new ones.
- `Dealt`: the workers before `distributor` have exactly one process more than the others.
  `Balanced`, that two differ by at most one, does not say whose turn it is.

`BuildProof` proves, for any modules, sources, `MaxRuns` and `MaxDepth`, that `TypeOK`
(`BuildTypes`), `ImportsFirst` (`NoHoles`) and `FailuresTruncateNothing` (`KeptWhole`) are
invariants of `Build`, and that no run writes a file twice (`NoRework`; no run of TLC checks this
one, since the `ModuleMap` and the look at the disk each see to it alone). The assumptions are
`SourceAssumption` (no module imports itself: `ResourceSet::import()` leaves the module being
compiled out) and `BoundsAssumption`. What `Inv` adds says what the stack looks like: every
activation but the last waits for the one above it, which is one of its imports (`Waiting`); what
is being compiled on behalf of another module has no object file (`Pending`), so no file is
written while a deeper activation writes it, in cycles too; what an activation no longer has to do
is done (`Done`). `Truncated`: a file that was cut short is one that `qbc` was stopped at.

`QbcProof` proves, for any modules and texts and *whatever the phases compute* within the
assumptions of section 2, that `Qbc` implements `Build` (`Refinement`: `QbcSpec =>
WritesAsBuild`). `Inv` says that what an activation holds was computed from the text its module
has now (`Activations`), since sources are edited between runs only, and that every object file
is what came of *one* text of its module, which need not be the current one (`FilesCompiled`).
The refinement rests on it: `Build` looks at the imports of a text, `Qbc` at the resources
it has collected some phases ago. A lemma per phase shows the step of `Build`. `Allocated`
and `Lives` in `Inv` say that code is generated only after registers were allocated, and written
only if none of it failed: so `generate` fails where `Build` does, and the file written is one.
How often a module was written, a number in `Build`, is the number of its places in the history
`written` (`TimesAppend`).
`BuildProof` is then instantiated under the refinement mapping: its lemmas about `Init` and
`Next` are cited for `Qbc`, and give that the imports a file was compiled with have files
(`ImportsStay`) and that a run writes no file twice (`WritesApart`).

Of the phases themselves, three are in `Passes`, which does not walk statements but takes what
`Assembler` says they ask for: a list of registers, each read or written, and a list of
instructions, jumps and labels. About these lists `QbcProof` proves, however long they are:

- `OwnRegisters`: for parameters with different names, and when the allocation does not end the
  program, every variable is read behind a place that writes it (`WrittenFirst`); and the
  parameters have the first registers, every name one of its own, and the frame room for all of
  them (`Apart`) *exactly* when the function has at most 128 names. `RegAlloc` counts to 256, an
  `AsmReg` holds 127 and an operand has 7 bits; nothing tests for the 129th name, which shares a
  register with another. `Registered` is the invariant of the allocation: names and
  numbers agree up to 256 of them, and whatever was asked for so far was there. That 129
  names are too many is the pigeonhole.
- `Jumps`: the code has the instructions of the statements, in order, and differs from them in
  nothing but jumps (`InOrder`); when no label is given twice (`qbc` ends then) and the code has
  less than 32K, every jump ends at the first instruction behind its label (`Lands`). `GoodCode` is
  the invariant of generating: where the instructions, the jumps and the labels of the places
  so far have gone. `JumpBytes` is the arithmetic: the sizes that are added up from a
  jump to its label, or subtracted back to it, are the difference of two offsets (`Stretch`),
  whatever the sizes are. They are taken while earlier jumps were measured already, which changes
  no size (`SameOffsets`). A distance of 32K would not fit into the `int16_t` it is kept in.
- `Indices`: `ResourceLess` orders different keys one way and never both (`KeyTotal`,
  `KeyTransitive`, `KeyIrreflexive`), so that whatever resources a module has, each has
  one index, from 1 on, no two share one, and indices are in the order of the keys.

What they ask of the lists (`IsAsked`, `IsCode`) is part of `RegistersApart` and `JumpsLand`:
TLC finds it true of what `Assembler` makes of the statements of `MCToolchain`, which are of
every class, and it can be read off the definition of each class. The grammar does not keep
two parameters from having one name.

`ChannelProof` proves, for any processes and messages and *one* worker (`Worker = {w}`), that
`TypeOK` (`ChannelTypes`), `RingWhole` (`RingsWhole`) and `NoMessageLost` (`NothingLost`) are
invariants of `Channel`, and that it implements `Mailbox` but for fairness
(`ImplementsMailbox`: initial states map to initial states, steps to steps or stutters).
`NoMessageLost` is what `channel_two_workers` violates: the two together say that the missing
lock matters exactly when sender and receiver do not share a worker. The assumptions are
`OwnerAssumption` and `NodesAssumption` (sentinels are not messages, and there are finitely many
messages). The invariant says that there are lists of messages, one for each process and
without a message in common (`Apart`), with which the links agree: forward always (`Chain`),
backward but for the one link that `close` or `erase` has yet to store (`Back`, `Gap`). `Pending`
says what the operands of the operation under way are in terms of the lists, and `Kept` that
every message that was sent is in one of them, received or in hand. A lemma per kind of store
(`StoreOutside`, `StoreHook`, `StoreUnhook`, `StoreBack`) says what it does to the lists, whatever
the state, and rests on `NthApart`: a node has one place. That the links determine the lists
(`ChainUnique`), and hence what `Contents` is, is an induction along the list. It is carried out
with the least place at which two lists differ (`Least`).

`EmptyMeansDone` is `EmptyWorkerIsDone` for any frames and streams: a worker whose queues and
`current` look empty and whose `iocount` is 0 has no live frame. `Worker::empty()` does not look at
`iocount`, so the frames that wait for streams are what it may leave behind, and the only ones.
It needs `CalleeInv` besides `Inv`: no non-empty set of live frames has a callee
or a path of each of its members, and a process that is not handed out yet has no caller. So
whoever waits for a callee waits, in the end, for a frame in a queue, in epoll or in `current`.

`InterpreterProof` proves, for any functions, constructs, overrides and number of workers that
satisfy the assumptions of section 2, that `TypeOK` (`InterpreterTypes`) and `RoomForRegisters`
(`Registers`) are invariants of `Interpreter`, and `DispatchFresh` (`Dispatch`) of its steps. The
invariant `Inv` says that the state of the interpreter is closed under everything an instruction
can follow. It does *not* say that a pointer is good when it is followed, which is false: a
reference leads to a register that is there, or to where one was before its object's registers moved
or were freed. What the theorems add is that these are the only two cases: a reference is never to
an object or a register that was never made, and it dangles only by `reassign_func()` or the end
of a frame.

- `GoodHeap`: what a register holds leads to an object and a register that are or were there, and an
  object that is a function value has the registers of what it stands for *now*. This is what
  `RoomForRegisters` needs: `override_function()` changes the function of a value
  in place, and the same value is called again later. `Kin` remembers that it stands for its own
  function or an override of it, whose register count `reassign_func()` has made room for.
- `GoodFrames`: a call has its code, its registers and a place for its result, a path has a call
  and a place for its promise; `pc` is at an instruction. Places stay in order because no step
  takes registers from an object, and their moves are only counted up (`Grows`), so that an
  instruction that makes objects needs to look at the new ones only.
- `GoodProcesses`, `GoodIo`: the same for messages that wait in mailboxes, and for the places of
  streams under way; both outlive the turn in which they were made.
- `GoodQueue`, `Rest`: the queues have frames, the other variables their types.
- `Serving`: a worker that is about to switch has a frame, so that no step looks at the
  state of none.

There is a lemma for every `execute_*` function. What they share is stated once: `Grows` is
transitive, and `MovedFrames`, `AppendFrame` and `MovedInv` lift a change of the heap or of one
frame to the whole invariant. `Dispatch` needs `Inv` to know what a chain of references leads to, and where it
stops (`FollowChain`): the choice made by a call agrees with the
search of the overrides by the types the arguments have now.

`PromiseProof` proves, with the same assumptions, three facts about all programs:

- `Messages`: an object that was sent and not yet received is the mailbox's alone. No register
  refers to it, no call runs on it or returns to it, no path promises it, no stream is read
  into it. What a sender does after `send` cannot change the message. (What the message
  itself refers to may change: constructs and references cross uncopied, the programs
  `sends_construct` and `meddled`.)
- `Promises`: a register has a promise only if a fork has left it there to a path. So no
  instruction copies, moves, matches, sends, receives or returns a promise. The two facts hold
  for the same reason and are proved together (`PInv`, where `Sealed` is the messages and the
  constant that `\void` reads): a promise could reach a register by `recv`
  only out of a message, and a fork could put one into a message only if a register led there.
  `Keeps` says what a step may do to registers in these terms; a lemma per instruction shows it.
- `Kept`: `PromisesKept` fails only if a path ends without keeping its promise (`KeptByTheEnd`).
  Whether one does is up to the program, and is all that is left to TLC: in `reads_failure`
  and `bad_argument` it happens, in the programs outside `Stuck` it does not.

Only model-checked:

- `Determinate`, `FailuresReachCaller` and the part `KeptByTheEnd` of `PromisesKept`: they are about what
  particular programs do. For the second: between the instruction that fails and the end of the
  call other frames run, and nothing keeps them from writing to the same register.
- `ReadsBack`, `EveryFunctionFound`, `JumpsLand`, `RegistersApart` and `ListsCode` of
  `Toolchain`: what a compiled file contains is computed by recursion over statements, resources
  and bytes, and induction over data is out of the prover's reach, as are recursive operators.
  The parts of `JumpsLand` and `RegistersApart` about lists in memory are proved (see `OwnRegisters`
  and `Jumps`); that these lists are what the statements ask for, and that bytes of a file
  are what these lists say, is not.
- All liveness, and the fairness in `KeepsPromise`.

## 5. Not modelled

- The lexer and parser: generated from a grammar, without state. `Toolchain` starts from the
  statements they return. What they accept is not stated anywhere to compare with.
- The vendored parser generator `lempar`, the headers `map.h`, `vector.h`, `string.h` that
  nothing uses, and `list`: the C functions `is_empty`, `head`, `pop` work on a list type no
  instruction makes.
- Floats, the order of strings (only whether they are equal), `argc` and `argv`, the constant
  registers but `\void`, the bytes of I/O, of `open` and `write`, the end of the input, a `stdout`
  that epoll cannot watch, the trace a failure collects, and everything that is printed.
- The data races on library containers, but for the list of a channel; what a pointer to
  registers that were reallocated or freed finds there, reads of freed frames, and a number taken
  for a pointer: the runs stop before.
- `lfunc` of a module or function that is missing, and loops of references (`MaxRefs`), in
  `Interpreter`. A reference to nothing (`refvalue` of a register that is not there) ends the run
  where it is made, not where it is followed.
- The end of the program in `Interpreter`: it is when nothing runs any more. That the main
  thread may see it too early is in `Application`.

## 6. Plan

1. Interruptions of `qbc` in `Qbc`, as in `Build`.
2. The library containers of `Application` store by store, as in `Channel`.
