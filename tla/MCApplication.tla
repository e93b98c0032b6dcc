------------------------------ MODULE MCApplication ------------------------------
(* Application on two workers and a few processes.                         *)
EXTENDS Application
=============================================================================
