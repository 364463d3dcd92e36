--------------------------- MODULE MCFirewallCtl ---------------------------
(* Instances of FirewallCtl for TLC. *)
EXTENDS FirewallCtl

AllEvents == Disturbance
=============================================================================
