---------------------------- MODULE MCGenClient ----------------------------
(* Instances of GenClient for TLC. *)
EXTENDS GenClient

AllEvents == Disturbance
=============================================================================
