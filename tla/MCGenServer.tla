---------------------------- MODULE MCGenServer ----------------------------
(* Instances of GenServer for TLC. *)
EXTENDS GenServer

AllEvents == Disturbance
=============================================================================
