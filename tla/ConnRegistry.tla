---------------------------- MODULE ConnRegistry ----------------------------
(***************************************************************************)
(* What CGenSvr2 promises the application that derives from it: in every   *)
(* slot, OnConnection, any number of OnRcv, OnDisconnect, in this order    *)
(* and then again for the next client, each call naming the slot that its  *)
(* connection holds, and every connection named by at most one             *)
(* OnConnection and one OnDisconnect.                                      *)
(***************************************************************************)
EXTENDS Naturals

CONSTANTS Slot,     \* the client ids
          Conn,     \* the connections clients make
          NoConn    \* the content of an empty slot

VARIABLES view,     \* [Slot -> Conn \cup {NoConn}]: whom a client id names
          calls     \* [Conn -> Calls]: callbacks made for a connection

vars == <<view, calls>>

Init == /\ view  = [i \in Slot |-> NoConn]
        /\ calls = [c \in Conn |-> [up |-> 0, rcv |-> 0, down |-> 0, id |-> 0]]

OnConnection(i, c) ==
  /\ view[i] = NoConn
  /\ calls[c].up = 0
  /\ view'  = [view EXCEPT ![i] = c]
  /\ calls' = [calls EXCEPT ![c].up = 1, ![c].id = i]

OnRcv(i, c) ==
  /\ view[i] = c
  /\ calls' = [calls EXCEPT ![c].rcv = @ + 1, ![c].id = i]
  /\ UNCHANGED view

(* One call of the application, DisconnectAllClients, may empty several    *)
(* slots.                                                                  *)
OnDisconnect(S) ==
  /\ \A i \in S : view[i] # NoConn
  /\ view'  = [i \in Slot |-> IF i \in S THEN NoConn ELSE view[i]]
  /\ calls' = [c \in Conn |-> IF \E i \in S : view[i] = c
                              THEN [calls[c] EXCEPT !.down = @ + 1]
                              ELSE calls[c]]

(* The application deletes its server: no callback is made. *)
Deleted ==
  /\ view' = [i \in Slot |-> NoConn]
  /\ UNCHANGED calls

Next == \/ \E i \in Slot, c \in Conn : OnConnection(i, c) \/ OnRcv(i, c)
        \/ \E S \in SUBSET Slot : OnDisconnect(S)
        \/ Deleted

Spec == Init /\ [][Next]_vars
=============================================================================
