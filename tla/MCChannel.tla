----------------------------- MODULE MCChannel ------------------------------
(***************************************************************************)
(* Channel with every process on one worker, and on a worker each.         *)
(***************************************************************************)
EXTENDS Channel

CONSTANTS w1, w2, p1, p2

OneWorker  == [p \in Process |-> w1]
TwoWorkers == (p1 :> w1) @@ (p2 :> w2)
=============================================================================
