---------------------------- MODULE MsgChannel ----------------------------
(***************************************************************************)
(* What a CGenCliSvr2_Sock connection promises its two users, with the     *)
(* buffers, the framing and TCP left out.  In each direction, messages     *)
(* taken for transmission come out at the other end whole, once and in     *)
(* order, until the receiving application is told the connection is gone.  *)
(* A disconnect notice is taken like a message, but it is never delivered  *)
(* and neither is anything behind it.                                      *)
(***************************************************************************)
EXTENDS Naturals, Sequences

CONSTANTS Direction,    \* the directions of the connection
          Payload       \* what the application bytes of a message may be

VARIABLES accepted,     \* [Direction -> Seq(Message)]: taken by send
          delivered,    \* [Direction -> Seq(Payload)]: handed to OnRcvLo
          closed        \* [Direction -> BOOLEAN]: the receiver had OnClose

vars == <<accepted, delivered, closed>>

Message == [notice : BOOLEAN, body : Payload]

Init == /\ accepted  = [d \in Direction |-> <<>>]
        /\ delivered = [d \in Direction |-> <<>>]
        /\ closed    = [d \in Direction |-> FALSE]

(* One more message, m, has been taken for direction d. *)
Taken(d, m) == /\ m \in Message
               /\ accepted' = [accepted EXCEPT ![d] = Append(@, m)]

(* The message that the step adds to direction d. *)
Newest(d) == accepted'[d][Len(accepted'[d])]

(* The sender's library takes a message. *)
Accept(d) ==
  /\ Len(accepted'[d]) > 0
  /\ Taken(d, Newest(d))
  /\ UNCHANGED <<delivered, closed>>

(* The receiver's application is handed the next message. *)
Deliver(d) ==
  LET next == Len(delivered[d]) + 1 IN
  /\ ~closed[d]
  /\ next <= Len(accepted[d])
  /\ ~accepted[d][next].notice
  /\ delivered' = [delivered EXCEPT ![d] = Append(@, accepted[d][next].body)]
  /\ UNCHANGED <<accepted, closed>>

(* The receiver's application is told that the connection is gone; the    *)
(* server's disconnect leaves a notice in the direction away from it.     *)
CloseDown(d) ==
  /\ ~closed[d]
  /\ closed' = [closed EXCEPT ![d] = TRUE]
  /\ \/ UNCHANGED accepted
     \/ \E away \in Direction \ {d} :
          /\ Len(accepted'[away]) > 0
          /\ Newest(away).notice
          /\ Taken(away, Newest(away))
  /\ UNCHANGED delivered

Next == \E d \in Direction : Accept(d) \/ Deliver(d) \/ CloseDown(d)

Spec == Init /\ [][Next]_vars
===========================================================================
