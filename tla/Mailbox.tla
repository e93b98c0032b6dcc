------------------------------ MODULE Mailbox -------------------------------
(***************************************************************************)
(* What message passing promises (DOCS/instruction_set.md, newproc and     *)
(* recv): every process has an inbound queue, a message that is sent is    *)
(* received once, by the process it was sent to, in the order of sending.  *)
(***************************************************************************)
EXTENDS Sequences

CONSTANTS
    Process,    \* the processes
    Msg         \* messages, each sent at most once

VARIABLES
    unsent,     \* the messages nobody has sent yet
    box,        \* what was sent to each process and not received
    got         \* what each process has received

vars == <<unsent, box, got>>

Init ==
    /\ unsent = Msg
    /\ box = [p \in Process |-> <<>>]
    /\ got = [p \in Process |-> <<>>]

Send(p, m) ==
    /\ m \in unsent
    /\ unsent' = unsent \ {m}
    /\ box' = [box EXCEPT ![p] = Append(@, m)]
    /\ UNCHANGED got

Receive(p) ==
    /\ box[p] # <<>>
    /\ got' = [got EXCEPT ![p] = Append(@, Head(box[p]))]
    /\ box' = [box EXCEPT ![p] = Tail(@)]
    /\ UNCHANGED unsent

Next == \E p \in Process : Receive(p) \/ \E m \in Msg : Send(p, m)

(* A process that keeps receiving gets what was sent to it.                *)
Spec == Init /\ [][Next]_vars /\ \A p \in Process : WF_vars(Receive(p))
=============================================================================
