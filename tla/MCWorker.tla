------------------------------ MODULE MCWorker ------------------------------
(***************************************************************************)
(* Worker on small sets of frames and streams.                             *)
(***************************************************************************)
EXTENDS Worker, TLC

(* Frames and streams are interchangeable, except for fairness.            *)
Symmetry == Permutations(Frame) \cup Permutations(Stream)
=============================================================================
