----------------------------- MODULE MCGenSock -----------------------------
(* Instances of GenSock for TLC.  Sizes are in units of the 8-byte trailer, *)
(* so the 16-byte header is 2 units.                                        *)
EXTENDS GenSock

NoEvents  == {}
AllEvents == Disturbance

ThreeAndOne == [e \in {Client, Server} |-> IF e = Client THEN 3 ELSE 1]
OneAndNone  == [e \in {Client, Server} |-> IF e = Client THEN 1 ELSE 0]
TwoAndOne   == [e \in {Client, Server} |-> IF e = Client THEN 2 ELSE 1]
=============================================================================
