------------------------------ MODULE Channel -------------------------------
(***************************************************************************)
(* Message passing between processes: the send function, the recv          *)
(* instruction and the Channel of each process (lib/schedule.cpp,          *)
(* lib/qbrt.cpp).                                                          *)
(*                                                                         *)
(* A Channel is a std::list with a spin lock that nothing ever takes.  The *)
(* list is a ring of nodes through a sentinel; push_back() and pop_front() *)
(* are the loads and stores with which the C++ library hooks and unhooks a *)
(* node, so that operations of two workers on one channel interleave here  *)
(* as they do in the program.  A worker carries out one at a time.         *)
(*                                                                         *)
(* Every process is in Application::recv, so the two ways core_send() may  *)
(* find the receiver lead to the same channel.  A recv that finds the      *)
(* channel empty changes nothing here: the frame is queued and tries again *)
(* (see Worker).                                                           *)
(***************************************************************************)
EXTENDS Integers, Sequences, SequencesExt, FiniteSets

CONSTANTS
    Worker,     \* the worker threads
    Process,    \* the processes; a process also names its list's sentinel
    Msg,        \* the list nodes: the copies of the messages that are sent
    Owner       \* ProcessRoot::owner

ASSUME OwnerAssumption == Owner \in [Process -> Worker]
ASSUME NodesAssumption == Process \cap Msg = {} /\ IsFiniteSet(Msg)

Node == Process \cup Msg

VARIABLES
    next, prev, \* the links of the nodes
    unsent,     \* the messages nobody has sent yet
    got,        \* what each process has received
    at,         \* per worker, the next store of the operation it carries out
    op          \* per worker, that operation's operands

vars == <<next, prev, unsent, got, at, op>>

Operands == [channel : Process, node : Msg, before : Node, after : Node]

TypeOK ==
    /\ next \in [Node -> Node]
    /\ prev \in [Node -> Node]
    /\ unsent \subseteq Msg
    /\ got \in [Process -> Seq(Msg)]
    /\ at \in [Worker -> {"run", "hook", "close", "unhook", "erase"}]
    /\ DOMAIN op = Worker
    /\ \A w \in Worker : at[w] # "run" => op[w] \in Operands

(* Empty channels; a node outside a list is linked to itself.              *)
Init ==
    /\ next = [n \in Node |-> n]
    /\ prev = [n \in Node |-> n]
    /\ unsent = Msg
    /\ got = [p \in Process |-> <<>>]
    /\ at = [w \in Worker |-> "run"]
    /\ op = [w \in Worker |-> <<>>]

Does(w, from, to) ==
    /\ at[w] = from
    /\ at' = [at EXCEPT ![w] = to]

-----------------------------------------------------------------------------
(***************************************************************************)
(* core_send(): push_back() of a copy of the message.                      *)
(***************************************************************************)

(* Defect: the message goes to the front of the list.                      *)
core_send_front(w, p, m) ==
    /\ Does(w, "run", "hook")
    /\ m \in unsent
    /\ unsent' = unsent \ {m}
    /\ op' = [op EXCEPT ![w] =
                [channel |-> p, node |-> m, before |-> p, after |-> next[p]]]
    /\ prev' = [prev EXCEPT ![m] = p]
    /\ next' = [next EXCEPT ![m] = next[p]]
    /\ UNCHANGED got

core_send(w, p, m) ==
    /\ Does(w, "run", "hook")
    /\ m \in unsent
    /\ unsent' = unsent \ {m}
    /\ op' = [op EXCEPT ![w] =
                [channel |-> p, node |-> m, before |-> prev[p], after |-> p]]
    /\ prev' = [prev EXCEPT ![m] = prev[p]]
    /\ next' = [next EXCEPT ![m] = p]
    /\ UNCHANGED got

hook(w) ==
    /\ Does(w, "hook", "close")
    /\ next' = [next EXCEPT ![op[w].before] = op[w].node]
    /\ UNCHANGED <<prev, unsent, got, op>>

(* Defect: the sentinel still knows the old last node.                     *)
close_skipped(w) ==
    /\ Does(w, "close", "run")
    /\ UNCHANGED <<next, prev, unsent, got, op>>

close(w) ==
    /\ Does(w, "close", "run")
    /\ prev' = [prev EXCEPT ![op[w].after] = op[w].node]
    /\ UNCHANGED <<next, unsent, got, op>>

(***************************************************************************)
(* execute_recv(): front() and pop_front(), unless empty().                *)
(***************************************************************************)

(* Defect: the test for an empty channel is left out.                      *)
execute_recv_untested(w, p) ==
    /\ Owner[p] = w
    /\ Does(w, "run", "unhook")
    /\ op' = [op EXCEPT ![w] =
                [channel |-> p, node |-> next[p],
                 before |-> prev[next[p]], after |-> next[next[p]]]]
    /\ UNCHANGED <<next, prev, unsent, got>>

execute_recv(w, p) ==
    /\ Owner[p] = w
    /\ Does(w, "run", "unhook")
    /\ next[p] # p
    /\ op' = [op EXCEPT ![w] =
                [channel |-> p, node |-> next[p],
                 before |-> prev[next[p]], after |-> next[next[p]]]]
    /\ UNCHANGED <<next, prev, unsent, got>>

unhook(w) ==
    /\ Does(w, "unhook", "erase")
    /\ next' = [next EXCEPT ![op[w].before] = op[w].after]
    /\ UNCHANGED <<prev, unsent, got, op>>

erase(w) ==
    /\ Does(w, "erase", "run")
    /\ prev' = [prev EXCEPT ![op[w].after] = op[w].before]
    /\ got' = [got EXCEPT ![op[w].channel] = Append(@, op[w].node)]
    /\ UNCHANGED <<next, unsent, op>>

-----------------------------------------------------------------------------
finish(w) == hook(w) \/ close(w) \/ unhook(w) \/ erase(w)

Next ==
    \E w \in Worker :
        \/ finish(w)
        \/ \E p \in Process : execute_recv(w, p) \/ \E m \in Msg : core_send(w, p, m)

(***************************************************************************)
(* Worker threads run, and a process that receives gets its turn for ever: *)
(* Worker's QueuedFrameRuns.                                               *)
(***************************************************************************)
Fairness ==
    /\ \A w \in Worker : WF_vars(finish(w))
    /\ \A p \in Process : SF_vars(execute_recv(Owner[p], p))

Spec == Init /\ [][Next]_vars /\ Fairness

-----------------------------------------------------------------------------
(* The nodes of a list with sentinel p and messages s: the sentinel is     *)
(* before the first of them and behind the last.                           *)
Nth(p, s, i) == IF i \in DOMAIN s THEN s[i] ELSE p

(* The next links lead from p through s and back.                          *)
Leads(p, s) == \A i \in 0 .. Len(s) : next[Nth(p, s, i)] = Nth(p, s, i + 1)

(* The messages in the channel of p, along the next links; a message that  *)
(* is hooked half is in it as soon as they lead to it.  Links that do not  *)
(* lead back are no queue of messages.                                     *)
Contents(p) ==
    LET lists == {s \in BoundedSeq(Msg, Cardinality(Msg)) : Leads(p, s)}
    IN  IF lists = {} THEN <<p>> ELSE CHOOSE s \in lists : TRUE

(* Between unhook and erase the message has left the list already.         *)
Received(p) ==
    LET taken == {op[w].node : w \in {v \in Worker : at[v] = "erase" /\ op[v].channel = p}}
    IN  IF taken = {} THEN got[p] ELSE Append(got[p], CHOOSE m \in taken : TRUE)

Pushing == {op[w].node : w \in {v \in Worker : at[v] = "hook"}}

Promise == INSTANCE Mailbox WITH
    unsent <- unsent \cup Pushing,
    box <- [p \in Process |-> Contents(p)],
    got <- [p \in Process |-> Received(p)]

(* Channels whose users share a worker keep what message passing promises: *)
(* nothing is lost, duplicated or overtaken, and everything arrives.       *)
KeepsPromise == Promise!Spec

(* The nodes of the list of p, its sentinel included: what the next links  *)
(* lead to.                                                                *)
Linked(p) ==
    {n \in Node : \A S \in SUBSET Node :
                     p \in S /\ (\A x \in S : next[x] \in S) => n \in S}

AllRun == \A w \in Worker : at[w] = "run"

(* Between operations the ring is whole in both directions, so the end     *)
(* push_back() appends to is the end of what pop_front() takes from.       *)
RingWhole == AllRun => \A p \in Process : \A n \in Linked(p) : prev[next[n]] = n

(* DOCS/instruction_set.md, newproc: "Communication to and from the new    *)
(* process should happen via message passing", although distribute_work()  *)
(* gives it another worker than its maker's: between operations a message  *)
(* that was sent is linked in its receiver's list or was received.         *)
NoMessageLost ==
    AllRun => \A m \in Msg \ unsent : \E p \in Process :
                 m \in Linked(p) \/ \E i \in DOMAIN got[p] : got[p][i] = m
=============================================================================
