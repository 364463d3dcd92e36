-------------------------- MODULE GenServerProofs --------------------------
(***************************************************************************)
(* Proofs about GenServer, for all numbers of slots and connections, all   *)
(* bounds and events: the table, the count and the objects agree, the      *)
(* thread is never inside an object whose slot has a new owner, and every  *)
(* step is one that ConnRegistry allows.                                   *)
(***************************************************************************)
EXTENDS GenServer, NatSteps, FiniteSetTheorems, TLAPS

(* Connection c is in the table of server s. *)
InTable(c, s) == \E i \in Slots : s.slot[i] = c

(* Server s by itself: SlotsConsistent, ClientCount, and three facts more. *)
TableOK(s) ==
  \A c \in Conns :
    /\ \A i \in Slots :
         s.slot[i] = c => /\ s.obj[c].alive = TRUE
                          /\ s.obj[c].hSocket = TRUE
                          /\ s.obj[c].bConnected = TRUE
                          /\ s.obj[c].iParentIdx = i
                          /\ s.obj[c].autoDeleteReq = FALSE
                          /\ s.obj[c].outtaHere = FALSE
                          /\ s.calls[c].id = i
    /\ s.obj[c].alive = TRUE => InTable(c, s) \/ s.obj[c].autoDeleteReq = TRUE
    /\ s.obj[c].hSocket = TRUE => s.obj[c].alive = TRUE

CountOK(s) == s.alive = TRUE => s.nClients = Cardinality(Taken(s))

DeadIsEmpty(s) == s.alive = FALSE => Taken(s) = {}

SInv(s) == s \in Svr /\ TableOK(s) /\ CountOK(s) /\ DeadIsEmpty(s)

-----------------------------------------------------------------------------
(* Leaving the table *)

(* t is s after the connections in the slots of S have left: an open       *)
(* handle may have been closed, a pending notice added, nothing opened.    *)
Emptied(t, s, S) ==
  /\ t \in Svr
  /\ S \subseteq Taken(s)
  /\ t.alive = s.alive
  /\ \A i \in Slots : t.slot[i] = IF i \in S THEN NoConn ELSE s.slot[i]
  /\ \A c \in Conns :
       t.calls[c] = IF \E i \in S : s.slot[i] = c
                    THEN [s.calls[c] EXCEPT !.down = @ + 1] ELSE s.calls[c]
  /\ \A c \in Conns :
       /\ t.obj[c].alive = s.obj[c].alive
       /\ t.obj[c].iParentIdx = s.obj[c].iParentIdx
       /\ t.obj[c].bConnected = s.obj[c].bConnected
       /\ t.obj[c].autoDeleteReq = IF \E i \in S : s.slot[i] = c
                                   THEN TRUE ELSE s.obj[c].autoDeleteReq

(* No connection that stayed was touched in a way that matters. *)
OthersKept(t, s, S) ==
  \A c \in Conns :
    /\ t.obj[c].hSocket = TRUE => s.obj[c].hSocket = TRUE
    /\ (\A i \in S : s.slot[i] # c)
         => /\ InTable(c, s) => t.obj[c].hSocket = s.obj[c].hSocket
            /\ t.obj[c].outtaHere = s.obj[c].outtaHere \/ ~InTable(c, s)

(* The connections that left the slots of S are closed. *)
ClosedIn(t, s, S) ==
  \A c \in Conns : (\E i \in S : s.slot[i] = c) => t.obj[c].hSocket = FALSE

(* The slots of a server, finitely many. *)
LEMMA TakenFinite ==
  ASSUME NEW s
  PROVE  IsFiniteSet(Taken(s)) /\ Cardinality(Taken(s)) \in Nat
<1>1. IsFiniteSet(Slots)
  BY FS_Interval, BoundsAssumption DEF Slots
<1>2. Taken(s) \in SUBSET Slots BY DEF Taken
<1>3. IsFiniteSet(Taken(s)) BY <1>1, <1>2, FS_Subset
<1> QED BY <1>3, FS_CardinalityType

(* What OnDisconLo does to a connection that is in the table. *)
LEMMA OnDisconLoOwner ==
  ASSUME NEW s \in Svr, NEW c \in Conns,
         s.slot[s.obj[c].iParentIdx] = c
  PROVE  LET i == s.obj[c].iParentIdx
             t == OnDisconLo(c, s)
         IN /\ t \in Svr
            /\ t.alive = s.alive
            /\ t.slot = [s.slot EXCEPT ![i] = NoConn]
            /\ t.nClients = IF s.nClients > 0 THEN s.nClients - 1
                            ELSE s.nClients
            /\ t.obj = [s.obj EXCEPT ![c].autoDeleteReq = TRUE]
            /\ t.calls = [s.calls EXCEPT ![c].down = @ + 1, ![c].id = i]
<1>1. s.obj[c].iParentIdx \in Slots /\ c # NoConn
  BY ConnsAssumption DEF Svr, Obj
<1> DEFINE i == s.obj[c].iParentIdx
<1>2. OnDisconLo(c, s) =
        [s EXCEPT !.nClients = IF @ > 0 THEN @ - 1 ELSE @,
                  !.calls[c].down = @ + 1,
                  !.calls[c].id = i,
                  !.obj[c].autoDeleteReq = TRUE,
                  !.slot[i] = NoConn]
  BY <1>1 DEF OnDisconLo
<1> HIDE DEF i
<1>3. PICK n : n = IF s.nClients > 0 THEN s.nClients - 1 ELSE s.nClients
  OBVIOUS
<1>4. n \in Nat BY <1>3 DEF Svr
<1>5. PICK k : k = [s.calls EXCEPT ![c].down = @ + 1, ![c].id = i] OBVIOUS
<1>6. k \in [Conns -> Calls] BY <1>1, <1>5 DEF Svr, Calls, i
<1>7. PICK o : o = [s.obj EXCEPT ![c].autoDeleteReq = TRUE] OBVIOUS
<1>8. o \in [Conns -> Obj] BY <1>7 DEF Svr, Obj
<1>9. PICK l : l = [s.slot EXCEPT ![i] = NoConn] OBVIOUS
<1>10. l \in [Slots -> Conns \cup {NoConn}] BY <1>9 DEF Svr
<1>11. OnDisconLo(c, s) = [alive |-> s.alive, slot |-> l, nClients |-> n,
                           obj |-> o, calls |-> k]
  BY <1>2, <1>3, <1>5, <1>7, <1>9, ZenonT(60) DEF Svr
<1> QED BY <1>1, <1>3, <1>4, <1>5, <1>6, <1>7, <1>8, <1>9, <1>10, <1>11
        DEF Svr, i

(* r is s but for the handle, what is pending and outtaHere of c. *)
Dimmed(r, s, c) ==
  /\ r \in Svr
  /\ r.alive = s.alive /\ r.slot = s.slot
  /\ r.nClients = s.nClients /\ r.calls = s.calls
  /\ \A d \in Conns : d # c => r.obj[d] = s.obj[d]
  /\ r.obj[c].alive = s.obj[c].alive
  /\ r.obj[c].iParentIdx = s.obj[c].iParentIdx
  /\ r.obj[c].bConnected = s.obj[c].bConnected
  /\ r.obj[c].autoDeleteReq = s.obj[c].autoDeleteReq
  /\ r.obj[c].hSocket = TRUE => s.obj[c].hSocket = TRUE

(* OnDisconLo of a connection whose slot is its own, or empty: its slot is *)
(* empty afterwards, and the table is as consistent as before.             *)
LEMMA LeaveOwner ==
  ASSUME NEW s, SInv(s), NEW c \in Conns, NEW r, Dimmed(r, s, c),
         s.slot[s.obj[c].iParentIdx] = c
  PROVE  LET t == OnDisconLo(c, r)
             S == {s.obj[c].iParentIdx}
         IN SInv(t) /\ Emptied(t, s, S) /\ OthersKept(t, s, S)
            /\ t.obj[c].hSocket = r.obj[c].hSocket
<1>1. PICK i : i = s.obj[c].iParentIdx OBVIOUS
<1>2. PICK t : t = OnDisconLo(c, r) OBVIOUS
<1>3. /\ s \in Svr /\ TableOK(s) /\ CountOK(s) /\ DeadIsEmpty(s)
      /\ i \in Slots /\ c # NoConn
  BY <1>1, ConnsAssumption DEF SInv, Svr, Obj
<1>4. /\ t \in Svr
      /\ t.alive = s.alive
      /\ t.slot = [s.slot EXCEPT ![i] = NoConn]
      /\ t.nClients = IF s.nClients > 0 THEN s.nClients - 1 ELSE s.nClients
      /\ t.obj = [r.obj EXCEPT ![c].autoDeleteReq = TRUE]
      /\ t.calls = [s.calls EXCEPT ![c].down = @ + 1, ![c].id = i]
  <2>1. /\ r \in Svr /\ r.obj[c].iParentIdx = i /\ r.slot[i] = c
        /\ r.alive = s.alive /\ r.slot = s.slot
        /\ r.nClients = s.nClients /\ r.calls = s.calls
    BY <1>1 DEF Dimmed
  <2>2. r.slot[r.obj[c].iParentIdx] = c BY <2>1
  <2> QED BY <1>2, <2>1, <2>2, OnDisconLoOwner
<1>5. \A d \in Conns : d # c => t.obj[d] = s.obj[d]
  BY <1>4 DEF Dimmed, Svr
<1>6. /\ t.obj[c].alive = s.obj[c].alive
      /\ t.obj[c].iParentIdx = i
      /\ t.obj[c].bConnected = s.obj[c].bConnected
      /\ t.obj[c].hSocket = r.obj[c].hSocket
      /\ t.obj[c].autoDeleteReq = TRUE
      /\ t.obj[c].hSocket = TRUE => s.obj[c].hSocket = TRUE
  BY <1>1, <1>4 DEF Dimmed, Svr, Obj
<1>7. \A j \in Slots : t.slot[j] = IF j \in {i} THEN NoConn ELSE s.slot[j]
  BY <1>3, <1>4 DEF Svr
<1>8. \A d \in Conns : t.calls[d] =
        IF d = c THEN [s.calls[c] EXCEPT !.down = @ + 1] ELSE s.calls[d]
  <2>1. s.calls[c].id = i BY <1>1, <1>3 DEF TableOK
  <2>2. s.calls \in [Conns -> Calls] BY <1>3 DEF Svr
  <2>3. \A d \in Conns : d # c => t.calls[d] = s.calls[d] BY <1>4, <2>2
  <2>4. t.calls[c] = [s.calls[c] EXCEPT !.down = @ + 1]
    BY <1>4, <2>1, <2>2 DEF Calls
  <2> QED BY <2>3, <2>4
<1>9. Taken(t) = Taken(s) \ {i} /\ i \in Taken(s)
  BY <1>1, <1>3, <1>7 DEF Taken
<1>10. TableOK(t)
  <2> SUFFICES ASSUME NEW d \in Conns
               PROVE  /\ \A j \in Slots :
                           t.slot[j] = d => /\ t.obj[d].alive = TRUE
                                            /\ t.obj[d].hSocket = TRUE
                                            /\ t.obj[d].bConnected = TRUE
                                            /\ t.obj[d].iParentIdx = j
                                            /\ t.obj[d].autoDeleteReq = FALSE
                                            /\ t.obj[d].outtaHere = FALSE
                                            /\ t.calls[d].id = j
                      /\ t.obj[d].alive = TRUE
                           => InTable(d, t) \/ t.obj[d].autoDeleteReq = TRUE
                      /\ t.obj[d].hSocket = TRUE => t.obj[d].alive = TRUE
    BY DEF TableOK
  <2>1. CASE d = c
    <3>1. \A j \in Slots : t.slot[j] # c
      BY <1>1, <1>3, <1>7 DEF TableOK
    <3> QED BY <2>1, <3>1, <1>3, <1>6 DEF TableOK
  <2>2. CASE d # c
    <3>1. t.obj[d] = s.obj[d] /\ t.calls[d] = s.calls[d]
      BY <2>2, <1>5, <1>8
    <3>2. d # NoConn BY ConnsAssumption
    <3>3. \A j \in Slots : t.slot[j] = d <=> s.slot[j] = d
      BY <1>1, <1>7, <2>2, <3>2
    <3> QED BY <3>1, <3>3, <1>3 DEF TableOK, InTable
  <2> QED BY <2>1, <2>2
<1>11. CountOK(t)
  <2>1. IsFiniteSet(Taken(s)) /\ Cardinality(Taken(s)) \in Nat
    BY TakenFinite
  <2>2. Cardinality(Taken(t)) = Cardinality(Taken(s)) - 1
    BY <1>9, <2>1, FS_RemoveElement
  <2>3. Cardinality(Taken(s)) # 0 BY <1>9, <2>1, FS_EmptySet
  <2> QED BY <1>3, <1>4, <2>1, <2>2, <2>3 DEF CountOK
<1>12. DeadIsEmpty(t) BY <1>3, <1>4, <1>9 DEF DeadIsEmpty
<1>13. Emptied(t, s, {i})
  <2>1. \A d \in Conns : (\E j \in {i} : s.slot[j] = d) <=> d = c
    BY <1>1
  <2>2. \A d \in Conns :
          t.calls[d] = IF \E j \in {i} : s.slot[j] = d
                       THEN [s.calls[d] EXCEPT !.down = @ + 1]
                       ELSE s.calls[d]
    BY <1>8, <2>1
  <2>3. \A d \in Conns :
          /\ t.obj[d].alive = s.obj[d].alive
          /\ t.obj[d].iParentIdx = s.obj[d].iParentIdx
          /\ t.obj[d].bConnected = s.obj[d].bConnected
          /\ t.obj[d].autoDeleteReq = IF \E j \in {i} : s.slot[j] = d
                                      THEN TRUE ELSE s.obj[d].autoDeleteReq
    BY <1>1, <1>5, <1>6, <2>1
  <2> QED BY <1>4, <1>7, <1>9, <2>2, <2>3 DEF Emptied
<1>14. OthersKept(t, s, {i}) BY <1>1, <1>5, <1>6 DEF OthersKept
<1> QED BY <1>1, <1>2, <1>4, <1>6, <1>10, <1>11, <1>12, <1>13, <1>14
        DEF SInv

(* OnDisconLo for an object whose slot is empty changes no slot. *)
LEMMA LeaveStranger ==
  ASSUME NEW s, SInv(s), NEW c \in Conns, NEW r, Dimmed(r, s, c),
         s.slot[s.obj[c].iParentIdx] = NoConn
  PROVE  LET t == OnDisconLo(c, r)
         IN SInv(t) /\ Emptied(t, s, {}) /\ OthersKept(t, s, {})
            /\ t.obj[c].hSocket = r.obj[c].hSocket
<1>1. OnDisconLo(c, r) = r BY DEF OnDisconLo, Dimmed
<1>2. /\ s \in Svr /\ TableOK(s) /\ CountOK(s) /\ DeadIsEmpty(s)
      /\ c # NoConn
  BY ConnsAssumption DEF SInv
<1>3. Taken(r) = Taken(s) BY DEF Taken, Dimmed
<1>4. \A j \in Slots : s.slot[j] # c BY <1>2 DEF TableOK
<1>5. TableOK(r)
  <2>1. \A d \in Conns : InTable(d, r) <=> InTable(d, s)
    BY DEF InTable, Dimmed
  <2> QED BY <1>2, <1>4, <2>1 DEF TableOK, Dimmed
<1>6. CountOK(r) /\ DeadIsEmpty(r)
  BY <1>2, <1>3 DEF CountOK, DeadIsEmpty, Dimmed
<1>7. Emptied(r, s, {}) BY DEF Emptied, Dimmed
<1>8. ~InTable(c, s) BY <1>4 DEF InTable
<1>9. OthersKept(r, s, {}) BY <1>8 DEF OthersKept, Dimmed
<1> QED BY <1>1, <1>5, <1>6, <1>7, <1>9 DEF SInv, Dimmed

(* OnDisconLo for an object that may have its slot gives it up, once. *)
LEMMA Leave ==
  ASSUME NEW s, SInv(s), NEW c \in Conns, NEW r, Dimmed(r, s, c),
         s.slot[s.obj[c].iParentIdx] \in {c, NoConn}
  PROVE  LET t == OnDisconLo(c, r)
         IN \E S \in SUBSET Slots :
              /\ SInv(t) /\ Emptied(t, s, S) /\ OthersKept(t, s, S)
              /\ t.obj[c].hSocket = r.obj[c].hSocket
              /\ S \subseteq {s.obj[c].iParentIdx}
              /\ s.slot[s.obj[c].iParentIdx] = c
                   => S = {s.obj[c].iParentIdx}
<1>1. s.obj[c].iParentIdx \in Slots /\ c # NoConn
  BY ConnsAssumption DEF SInv, Svr, Obj
<1>2. CASE s.slot[s.obj[c].iParentIdx] = c
  <2>1. PICK S \in SUBSET Slots : S = {s.obj[c].iParentIdx} BY <1>1
  <2> QED BY <1>2, <2>1, LeaveOwner
<1>3. CASE s.slot[s.obj[c].iParentIdx] = NoConn
  BY <1>1, <1>3, LeaveStranger
<1> QED BY <1>2, <1>3

(* The handle of connection c is valid. *)
IsOpen(c, s) == s.obj[c].hSocket = TRUE

(* Close of a connection c of which r is the server after other changes to *)
(* its object.                                                             *)
LEMMA CloseLeaves ==
  ASSUME NEW s, SInv(s), NEW c \in Conns, NEW r, Dimmed(r, s, c),
         IsOpen(c, r),
         s.slot[s.obj[c].iParentIdx] \in {c, NoConn}
  PROVE  LET t == Close(c, r)
         IN \E S \in SUBSET Slots :
              /\ SInv(t) /\ Emptied(t, s, S) /\ OthersKept(t, s, S)
              /\ t.obj[c].hSocket = FALSE
              /\ S \subseteq {s.obj[c].iParentIdx}
              /\ s.slot[s.obj[c].iParentIdx] = c
                   => S = {s.obj[c].iParentIdx}
<1>1. PICK q : q = [r EXCEPT !.obj[c].hSocket = FALSE] OBVIOUS
<1>2. Close(c, r) = OnDisconLo(c, q) BY <1>1 DEF Close, IsOpen
<1>3. Dimmed(q, s, c) /\ q.obj[c].hSocket = FALSE
  <2>1. PICK o : o = [r.obj EXCEPT ![c].hSocket = FALSE] OBVIOUS
  <2>2. r \in Svr BY DEF Dimmed
  <2>3. o \in [Conns -> Obj] BY <2>1, <2>2 DEF Svr, Obj
  <2>4. q = [r EXCEPT !.obj = o] BY <1>1, <2>1, <2>2 DEF Svr
  <2>5. q \in Svr BY <2>2, <2>3, <2>4 DEF Svr
  <2>6. /\ q.alive = r.alive /\ q.slot = r.slot /\ q.nClients = r.nClients
        /\ q.calls = r.calls /\ q.obj = o
    BY <2>2, <2>4 DEF Svr
  <2>7. /\ \A d \in Conns : d # c => o[d] = r.obj[d]
        /\ o[c].alive = r.obj[c].alive
        /\ o[c].iParentIdx = r.obj[c].iParentIdx
        /\ o[c].bConnected = r.obj[c].bConnected
        /\ o[c].autoDeleteReq = r.obj[c].autoDeleteReq
        /\ o[c].hSocket = FALSE
    BY <2>1, <2>2 DEF Svr, Obj
  <2> QED BY <2>5, <2>6, <2>7 DEF Dimmed
<1> QED BY <1>2, <1>3, Leave, SMTT(30)

(* disconnect of slot i. *)
LEMMA DisconnectLeaves ==
  ASSUME NEW s, SInv(s), NEW i \in Slots
  PROVE  LET t == Disconnect(i, s)
             S == {i} \cap Taken(s)
         IN /\ SInv(t) /\ Emptied(t, s, S)
            /\ OthersKept(t, s, S) /\ ClosedIn(t, s, S)
<1>1. s \in Svr /\ TableOK(s) BY DEF SInv
<1>2. CASE s.slot[i] = NoConn
  <2>1. Disconnect(i, s) = s BY <1>2 DEF Disconnect
  <2>2. {i} \cap Taken(s) = {} BY <1>2 DEF Taken
  <2>3. Emptied(s, s, {}) BY <1>1 DEF Emptied
  <2>4. OthersKept(s, s, {}) /\ ClosedIn(s, s, {})
    BY DEF OthersKept, ClosedIn
  <2> QED BY <2>1, <2>2, <2>3, <2>4
<1>3. CASE s.slot[i] # NoConn
  <2>1. PICK c \in Conns : s.slot[i] = c BY <1>1, <1>3 DEF Svr
  <2>2. s.obj[c].iParentIdx = i /\ s.obj[c].hSocket = TRUE
    BY <1>1, <2>1 DEF TableOK
  <2>3. PICK r : r = IF s.obj[c].bConnected
                     THEN [s EXCEPT !.obj[c].pending = TRUE] ELSE s
    OBVIOUS
  <2>4. Disconnect(i, s) = Close(c, r)
    BY <1>3, <2>1, <2>3 DEF Disconnect
  <2>5. Dimmed(r, s, c) /\ r.obj[c].hSocket = TRUE
    <3>1. CASE r = s BY <3>1, <1>1, <2>2 DEF Dimmed
    <3>2. CASE r = [s EXCEPT !.obj[c].pending = TRUE]
      <4>1. PICK o : o = [s.obj EXCEPT ![c].pending = TRUE] OBVIOUS
      <4>2. o \in [Conns -> Obj] BY <4>1, <1>1 DEF Svr, Obj
      <4>3. r = [s EXCEPT !.obj = o] BY <3>2, <4>1, <1>1 DEF Svr
      <4>4. r \in Svr BY <1>1, <4>2, <4>3 DEF Svr
      <4>5. /\ r.alive = s.alive /\ r.slot = s.slot
            /\ r.nClients = s.nClients /\ r.calls = s.calls /\ r.obj = o
        BY <1>1, <4>3 DEF Svr
      <4>6. /\ \A d \in Conns : d # c => o[d] = s.obj[d]
            /\ o[c].alive = s.obj[c].alive
            /\ o[c].iParentIdx = s.obj[c].iParentIdx
            /\ o[c].bConnected = s.obj[c].bConnected
            /\ o[c].autoDeleteReq = s.obj[c].autoDeleteReq
            /\ o[c].hSocket = s.obj[c].hSocket
        BY <4>1, <1>1 DEF Svr, Obj
      <4> QED BY <2>2, <4>4, <4>5, <4>6 DEF Dimmed
    <3> QED BY <2>3, <3>1, <3>2
  <2>6. {i} \cap Taken(s) = {i} BY <1>3 DEF Taken
  <2>7. s.slot[s.obj[c].iParentIdx] = c BY <2>1, <2>2
  <2>8. s.slot[s.obj[c].iParentIdx] \in {c, NoConn} BY <2>7
  <2>9. PICK t : t = Close(c, r) OBVIOUS
  <2>10. SInv(s) /\ Dimmed(r, s, c) /\ IsOpen(c, r)
    BY <2>5 DEF IsOpen
  <2>11. \E S \in SUBSET Slots :
          /\ SInv(t) /\ Emptied(t, s, S) /\ OthersKept(t, s, S)
          /\ t.obj[c].hSocket = FALSE
          /\ S \subseteq {s.obj[c].iParentIdx}
          /\ s.slot[s.obj[c].iParentIdx] = c
               => S = {s.obj[c].iParentIdx}
    BY <2>8, <2>9, <2>10, CloseLeaves
  <2>12. SInv(t) /\ Emptied(t, s, {i}) /\ OthersKept(t, s, {i})
         /\ t.obj[c].hSocket = FALSE
    BY <2>2, <2>7, <2>11
  <2>13. ClosedIn(t, s, {i}) BY <2>1, <2>12 DEF ClosedIn
  <2> QED BY <2>4, <2>6, <2>9, <2>12, <2>13
<1> QED BY <1>2, <1>3

-----------------------------------------------------------------------------
(* DisconnectAllClients *)

(* f is the course of disconnects of the slots below k, begun in s. *)
Course(f, s, k) ==
  f = [n \in 0..k |-> IF n = 0 THEN s ELSE Disconnect(n - 1, f[n - 1])]

(* The recursive function in DisconnectAll is what its equation says.      *)
LEMMA DisconnectAllDef ==
  ASSUME NEW s
  PROVE  Course(DisconnectAll(s), s, MaxClients)
<1> DEFINE B == {k \in Nat : \E f : Course(f, s, k)}
<1>1. 0 \in B
  <2>1. Course([n \in 0..0 |-> s], s, 0) BY DEF Course
  <2> QED BY <2>1
<1>2. ASSUME NEW k \in B PROVE k + 1 \in B
  <2>1. PICK f : Course(f, s, k) OBVIOUS
  <2> DEFINE g == [n \in 0..k+1 |-> IF n = k + 1 THEN Disconnect(k, f[k])
                                    ELSE f[n]]
  <2>2. Course(g, s, k + 1)
    <3>1. ASSUME NEW n \in 0..k+1
          PROVE  g[n] = IF n = 0 THEN s ELSE Disconnect(n - 1, g[n - 1])
      <4>1. CASE n = k + 1
        <5>1. n # 0 /\ n - 1 = k /\ k \in 0..k+1 /\ k # k + 1 BY <4>1
        <5> QED BY <4>1, <5>1
      <4>2. CASE n \in 0..k /\ n # 0
        <5>1. n \in 0..k+1 /\ n # k + 1 /\ n - 1 \in 0..k+1 /\ n - 1 # k + 1
          BY <4>2
        <5>2. g[n] = f[n] /\ g[n - 1] = f[n - 1] BY <5>1
        <5> QED BY <2>1, <4>2, <5>2 DEF Course
      <4>3. CASE n = 0
        <5>1. g[n] = f[n] /\ n \in 0..k BY <4>3
        <5> QED BY <2>1, <4>3, <5>1 DEF Course
      <4> QED BY <4>1, <4>2, <4>3
    <3> HIDE DEF g
    <3>2. g = [n \in 0..k+1 |-> g[n]] BY DEF g
    <3> QED BY <3>1, <3>2 DEF Course
  <2> HIDE DEF g
  <2> QED BY <2>2
<1>3. B = Nat
  <2> HIDE DEF B
  <2>1. B \subseteq Nat BY DEF B
  <2> QED BY <1>1, <1>2, <2>1, NatSteps
<1>4. \E f : Course(f, s, MaxClients) BY <1>3, BoundsAssumption
<1> QED BY <1>4 DEF Course, DisconnectAll

(* First the slots of S are emptied, then those of T. *)
LEMMA EmptiedTwice ==
  ASSUME NEW s, SInv(s), NEW t, NEW u,
         NEW S, Emptied(t, s, S), OthersKept(t, s, S), ClosedIn(t, s, S),
         NEW T, Emptied(u, t, T), OthersKept(u, t, T), ClosedIn(u, t, T)
  PROVE  /\ Emptied(u, s, S \cup T) /\ OthersKept(u, s, S \cup T)
         /\ ClosedIn(u, s, S \cup T)
<1>1. /\ S \subseteq Taken(s) /\ T \subseteq Taken(t)
      /\ S \subseteq Slots /\ T \subseteq Slots
      /\ s \in Svr /\ t \in Svr /\ u \in Svr /\ TableOK(s)
  BY DEF Emptied, Taken, SInv
<1>2. \A i \in T : i \notin S /\ t.slot[i] = s.slot[i]
  BY <1>1 DEF Emptied, Taken
<1>3. T \subseteq Taken(s) BY <1>1, <1>2 DEF Taken
<1>4. \A i, j \in Slots : \A c \in Conns :
        s.slot[i] = c /\ s.slot[j] = c => i = j
  BY <1>1 DEF TableOK
<1>5. ASSUME NEW c \in Conns
      PROVE  /\ (\E i \in S \cup T : s.slot[i] = c)
                  <=> (\E i \in S : s.slot[i] = c) \/ (\E i \in T : t.slot[i] = c)
             /\ ~((\E i \in S : s.slot[i] = c) /\ (\E i \in T : t.slot[i] = c))
  BY <1>1, <1>2, <1>4
<1>6. ASSUME NEW i \in Slots
      PROVE  u.slot[i] = IF i \in S \cup T THEN NoConn ELSE s.slot[i]
  BY DEF Emptied
<1>7. ASSUME NEW c \in Conns
      PROVE  u.calls[c] = IF \E i \in S \cup T : s.slot[i] = c
                          THEN [s.calls[c] EXCEPT !.down = @ + 1]
                          ELSE s.calls[c]
  <2>1. CASE \E i \in S : s.slot[i] = c
    <3>1. u.calls[c] = t.calls[c] BY <2>1, <1>5 DEF Emptied
    <3>2. t.calls[c] = [s.calls[c] EXCEPT !.down = @ + 1]
      BY <2>1 DEF Emptied
    <3> QED BY <2>1, <3>1, <3>2
  <2>2. CASE \E i \in T : t.slot[i] = c
    <3>1. t.calls[c] = s.calls[c] BY <2>2, <1>5 DEF Emptied
    <3>2. u.calls[c] = [t.calls[c] EXCEPT !.down = @ + 1]
      BY <2>2 DEF Emptied
    <3> QED BY <2>2, <1>5, <3>1, <3>2
  <2>3. CASE ~(\E i \in S : s.slot[i] = c) /\ ~(\E i \in T : t.slot[i] = c)
    <3>1. t.calls[c] = s.calls[c] BY <2>3 DEF Emptied
    <3>2. u.calls[c] = t.calls[c] BY <2>3 DEF Emptied
    <3> QED BY <2>3, <1>5, <3>1, <3>2
  <2> QED BY <2>1, <2>2, <2>3
<1>8. ASSUME NEW c \in Conns
      PROVE  /\ u.obj[c].alive = s.obj[c].alive
             /\ u.obj[c].iParentIdx = s.obj[c].iParentIdx
             /\ u.obj[c].bConnected = s.obj[c].bConnected
             /\ u.obj[c].autoDeleteReq = IF \E i \in S \cup T : s.slot[i] = c
                                         THEN TRUE ELSE s.obj[c].autoDeleteReq
  <2>1. /\ u.obj[c].alive = s.obj[c].alive
        /\ u.obj[c].iParentIdx = s.obj[c].iParentIdx
        /\ u.obj[c].bConnected = s.obj[c].bConnected
    BY DEF Emptied
  <2>2. /\ t.obj[c].autoDeleteReq = IF \E i \in S : s.slot[i] = c
                                    THEN TRUE ELSE s.obj[c].autoDeleteReq
        /\ u.obj[c].autoDeleteReq = IF \E i \in T : t.slot[i] = c
                                    THEN TRUE ELSE t.obj[c].autoDeleteReq
    BY DEF Emptied
  <2>3. CASE \E i \in S \cup T : s.slot[i] = c
    BY <1>5, <2>1, <2>2, <2>3
  <2>4. CASE ~\E i \in S \cup T : s.slot[i] = c
    BY <1>5, <2>1, <2>2, <2>4
  <2> QED BY <2>3, <2>4
<1>9. Emptied(u, s, S \cup T)
  <2>1. u.alive = s.alive BY DEF Emptied
  <2> QED BY <1>1, <1>3, <1>6, <1>7, <1>8, <2>1 DEF Emptied
<1>10. \A c \in Conns : u.obj[c].hSocket \in BOOLEAN /\ t.obj[c].hSocket \in BOOLEAN
  BY <1>1 DEF Svr, Obj
<1>11. ClosedIn(u, s, S \cup T)
  <2> SUFFICES ASSUME NEW c \in Conns, \E i \in S \cup T : s.slot[i] = c
               PROVE  u.obj[c].hSocket = FALSE
    BY DEF ClosedIn
  <2>1. CASE \E i \in S : s.slot[i] = c
    BY <2>1, <1>10 DEF ClosedIn, OthersKept
  <2>2. CASE \E i \in T : t.slot[i] = c
    BY <2>2 DEF ClosedIn
  <2> QED BY <1>5, <2>1, <2>2
<1>12. OthersKept(u, s, S \cup T)
  <2> SUFFICES ASSUME NEW c \in Conns
               PROVE  /\ u.obj[c].hSocket = TRUE => s.obj[c].hSocket = TRUE
                      /\ (\A i \in S \cup T : s.slot[i] # c)
                           => /\ InTable(c, s)
                                   => u.obj[c].hSocket = s.obj[c].hSocket
                              /\ \/ u.obj[c].outtaHere = s.obj[c].outtaHere
                                 \/ ~InTable(c, s)
    BY DEF OthersKept
  <2>1. u.obj[c].hSocket = TRUE => s.obj[c].hSocket = TRUE
    BY DEF OthersKept
  <2>2. ASSUME \A i \in S \cup T : s.slot[i] # c, InTable(c, s)
        PROVE  /\ u.obj[c].hSocket = s.obj[c].hSocket
               /\ u.obj[c].outtaHere = s.obj[c].outtaHere
    <3>1. /\ t.obj[c].hSocket = s.obj[c].hSocket
          /\ t.obj[c].outtaHere = s.obj[c].outtaHere
      BY <2>2 DEF OthersKept
    <3>2. InTable(c, t)
      <4>1. PICK i \in Slots : s.slot[i] = c BY <2>2 DEF InTable
      <4>2. i \notin S BY <2>2, <4>1
      <4>3. t.slot[i] = c BY <4>1, <4>2 DEF Emptied
      <4> QED BY <4>3 DEF InTable
    <3>3. \A i \in T : t.slot[i] # c BY <2>2, <1>2
    <3> QED BY <3>1, <3>2, <3>3 DEF OthersKept
  <2> QED BY <2>1, <2>2
<1> QED BY <1>9, <1>11, <1>12

(* t is s after some connections have left and were closed. *)
Shrunk(t, s) ==
  SInv(t) /\ \E S \in SUBSET Slots :
               Emptied(t, s, S) /\ OthersKept(t, s, S) /\ ClosedIn(t, s, S)

(* disconnect only takes clients out of the table. *)
LEMMA DisconnectShrinks ==
  ASSUME NEW s, SInv(s), NEW i \in Slots
  PROVE  Shrunk(Disconnect(i, s), s)
<1>1. PICK t : t = Disconnect(i, s) OBVIOUS
<1>2. PICK S : S = {i} \cap Taken(s) OBVIOUS
<1>3. /\ SInv(t) /\ Emptied(t, s, S) /\ OthersKept(t, s, S)
      /\ ClosedIn(t, s, S)
  BY <1>1, <1>2, DisconnectLeaves
<1>4. S \in SUBSET Slots BY <1>2
<1> QED BY <1>1, <1>3, <1>4 DEF Shrunk

(* Taking out some and then others is taking out both. *)
LEMMA ShrunkTwice ==
  ASSUME NEW s, SInv(s), NEW t, Shrunk(t, s), NEW u, Shrunk(u, t)
  PROVE  Shrunk(u, s)
<1>1. PICK S \in SUBSET Slots :
        Emptied(t, s, S) /\ OthersKept(t, s, S) /\ ClosedIn(t, s, S)
  BY DEF Shrunk
<1>2. PICK T \in SUBSET Slots :
        Emptied(u, t, T) /\ OthersKept(u, t, T) /\ ClosedIn(u, t, T)
  BY DEF Shrunk
<1>3. /\ Emptied(u, s, S \cup T) /\ OthersKept(u, s, S \cup T)
      /\ ClosedIn(u, s, S \cup T)
  BY <1>1, <1>2, EmptiedTwice
<1>4. S \cup T \in SUBSET Slots OBVIOUS
<1> QED BY <1>3, <1>4 DEF Shrunk

(* DisconnectAllClients only takes clients out of the table. *)
LEMMA DisconnectAllShrinks ==
  ASSUME NEW s, SInv(s)
  PROVE  Shrunk(DisconnectAll(s)[MaxClients], s)
<1>1. PICK f : f = DisconnectAll(s) OBVIOUS
<1>2. Course(f, s, MaxClients) BY <1>1, DisconnectAllDef
<1>3. MaxClients \in Nat BY BoundsAssumption
<1> DEFINE B == {n \in Nat : n <= MaxClients => Shrunk(f[n], s)}
<1>4. 0 \in B
  <2>1. f[0] = s BY <1>2, <1>3 DEF Course
  <2>2. s \in Svr BY DEF SInv
  <2>3. Emptied(s, s, {}) BY <2>2 DEF Emptied
  <2>4. OthersKept(s, s, {}) /\ ClosedIn(s, s, {})
    BY DEF OthersKept, ClosedIn
  <2>5. Shrunk(s, s) BY <2>3, <2>4 DEF Shrunk
  <2> QED BY <2>1, <2>5
<1>5. ASSUME NEW n \in B PROVE n + 1 \in B
  <2>1. SUFFICES ASSUME n + 1 <= MaxClients PROVE Shrunk(f[n + 1], s)
    OBVIOUS
  <2>2. Shrunk(f[n], s) /\ n \in Slots
    BY <1>3, <2>1 DEF Slots
  <2>3. f[n + 1] = Disconnect(n, f[n])
    <3>1. n + 1 \in 0..MaxClients /\ n + 1 # 0 /\ (n + 1) - 1 = n
      BY <1>3, <2>1
    <3> QED BY <1>2, <3>1 DEF Course
  <2>4. SInv(f[n]) BY <2>2 DEF Shrunk
  <2>5. Shrunk(Disconnect(n, f[n]), f[n]) BY <2>2, <2>4, DisconnectShrinks
  <2> QED BY <2>2, <2>3, <2>5, ShrunkTwice
<1>6. B = Nat
  <2> HIDE DEF B
  <2>1. B \subseteq Nat BY DEF B
  <2> QED BY <1>4, <1>5, <2>1, NatSteps
<1> QED BY <1>1, <1>3, <1>6

-----------------------------------------------------------------------------
(* The inductive invariant *)

BusyType == [who : Conns \cup {NoConn},
             pc : {"idle", "rcv", "write", "end"}, needWrite : BOOLEAN]

(* The thread is inside an object that exists and whose slot is its own or *)
(* empty; any other object with an open handle is in the table.            *)
Inside(b, s) ==
  /\ b \in BusyType
  /\ b.pc = "idle" <=> b.who = NoConn
  /\ b.who # NoConn => s.obj[b.who].alive = TRUE
  /\ b.pc \in {"rcv", "write"} =>
       s.slot[s.obj[b.who].iParentIdx] \in {b.who, NoConn}

HandleIsKnown(b, s) ==
  \A c \in Conns : s.obj[c].hSocket = TRUE => InTable(c, s) \/ b.who = c

(* A connection that was not accepted yet has no object and no callback.   *)
Unborn(c, s) ==
  /\ s.obj[c].alive = FALSE
  /\ s.obj[c].hSocket = FALSE
  /\ s.obj[c].autoDeleteReq = FALSE
  /\ s.calls[c].up = 0

UnbornOK(l, s) ==
  \A c \in Conns : l[c].link \in InBacklog \cup {"none"} => Unborn(c, s)

(* The backlog holds connections that wait in it, each once.               *)
BacklogOK(b, l) ==
  /\ b \in Seq(Conns)
  /\ \A m \in 1..Len(b) : l[b[m]].link \in InBacklog
  /\ \A m, n \in 1..Len(b) : b[m] = b[n] => m = n

ListenerType == [started : BOOLEAN, hSocket : BOOLEAN,
                 holdoff : 0..Holdoff, keepalive : BOOLEAN]

IInv ==
  /\ SInv(svr)
  /\ listener \in ListenerType
  /\ Inside(busy, svr) /\ HandleIsKnown(busy, svr)
  /\ net \in [Conns -> Net] /\ UnbornOK(net, svr)
  /\ BacklogOK(backlog, net)

(* What a step may do to the table and to the callbacks. *)
Accepted(i, c) ==
  /\ svr.slot[i] = NoConn /\ svr.alive = TRUE /\ Unborn(c, svr)
  /\ svr'.slot = [svr.slot EXCEPT ![i] = c]
  /\ svr'.calls = [svr.calls EXCEPT ![c].up = 1, ![c].id = i]

Received(i, c) ==
  /\ svr.slot[i] = c
  /\ svr'.slot = svr.slot
  /\ svr'.calls = [svr.calls EXCEPT ![c].rcv = @ + 1, ![c].id = i]

Kind ==
  \/ \E S \in SUBSET Slots : Emptied(svr', svr, S)
  \/ \E i \in Slots, c \in Conns : Accepted(i, c) \/ Received(i, c)
  \/ /\ svr'.slot = [i \in Slots |-> NoConn] /\ svr'.calls = svr.calls
     /\ svr'.alive = FALSE
  \/ svr'.slot = svr.slot /\ svr'.calls = svr.calls

-----------------------------------------------------------------------------
(* Steps *)

(* A connection in the table is open and alive; the table of a deleted     *)
(* server is empty.                                                        *)
LEMMA InTableFacts ==
  ASSUME NEW s, SInv(s), NEW c \in Conns, InTable(c, s)
  PROVE  /\ s.alive = TRUE
         /\ s.obj[c].alive = TRUE
         /\ s.obj[c].hSocket = TRUE
         /\ s.obj[c].autoDeleteReq = FALSE
         /\ s.slot[s.obj[c].iParentIdx] = c
         /\ s.calls[c].id = s.obj[c].iParentIdx
<1>1. PICK i \in Slots : s.slot[i] = c BY DEF InTable
<1>2. s.alive \in BOOLEAN /\ c # NoConn
  BY ConnsAssumption DEF SInv, Svr
<1>3. i \in Taken(s) BY <1>1, <1>2 DEF Taken
<1> QED BY <1>1, <1>2, <1>3 DEF SInv, TableOK, DeadIsEmpty

(* The links after handles were closed: a client that waits still waits.   *)
LEMMA ShutKeeps ==
  ASSUME NEW s, net' = Shut(s), net \in [Conns -> Net], svr \in Svr,
         UnbornOK(net, svr), BacklogOK(backlog, net), backlog' = backlog
  PROVE  /\ net' \in [Conns -> Net]
         /\ BacklogOK(backlog', net')
         /\ \A c \in Conns : net'[c].link \in InBacklog \cup {"none"}
                               => net'[c] = net[c]
<1>1. \A c \in Conns : net'[c] = IF svr.obj[c].hSocket /\ ~s.obj[c].hSocket
                                 THEN [net[c] EXCEPT !.link = "shut", !.inbox = 0]
                                 ELSE net[c]
  BY DEF Shut
<1>2. ASSUME NEW c \in Conns
      PROVE  /\ net'[c] \in Net
             /\ net'[c] = net[c] \/ net'[c].link = "shut"
             /\ net[c].link \in InBacklog => net'[c] = net[c]
  <2>1. net[c] \in Net OBVIOUS
  <2>2. net[c].link \in InBacklog => svr.obj[c].hSocket = FALSE
    BY DEF UnbornOK, Unborn
  <2>3. CASE net'[c] = net[c] BY <2>1, <2>3
  <2>4. CASE net'[c] = [net[c] EXCEPT !.link = "shut", !.inbox = 0]
             /\ svr.obj[c].hSocket
    <3>1. net'[c] \in Net /\ net'[c].link = "shut"
      <4>1. PICK n : n = net[c] OBVIOUS
      <4>2. PICK m : m = [n EXCEPT !.link = "shut", !.inbox = 0] OBVIOUS
      <4>3. n \in Net /\ net'[c] = m BY <2>1, <2>4, <4>1, <4>2
      <4>4. m = [link |-> "shut", sent |-> n.sent, inbox |-> 0] /\ n.sent \in Nat
        BY <4>2, <4>3 DEF Net
      <4>5. "shut" \in Link BY DEF Link
      <4>6. m \in Net /\ m.link = "shut" BY <4>4, <4>5 DEF Net
      <4> QED BY <4>3, <4>6
    <3>2. svr.obj[c].hSocket # FALSE BY <2>4
    <3> QED BY <2>2, <3>1, <3>2
  <2> QED BY <1>1, <2>3, <2>4
<1>3. net' \in [Conns -> Net]
  <2>1. net' = [c \in Conns |-> net'[c]] BY DEF Shut
  <2> QED BY <1>2, <2>1
<1>4. BacklogOK(backlog', net')
  <2>1. \A m \in 1..Len(backlog) : backlog[m] \in Conns
    BY DEF BacklogOK
  <2> QED BY <1>2, <2>1 DEF BacklogOK
<1>5. "shut" \notin InBacklog \cup {"none"} BY DEF InBacklog
<1> QED BY <1>2, <1>3, <1>4, <1>5

(* A step in which the connections in the slots of S leave.                *)
LEMMA ShrinkStep ==
  ASSUME IInv, NEW S \in SUBSET Slots,
         SInv(svr'), Emptied(svr', svr, S), OthersKept(svr', svr, S),
         net' = Shut(svr'), backlog' = backlog, listener' \in ListenerType,
         Inside(busy', svr'),
         busy.who # NoConn => busy'.who = busy.who,
         \A c \in Conns : (\E i \in S : svr.slot[i] = c)
                            => ~IsOpen(c, svr') \/ busy'.who = c
  PROVE  IInv' /\ Kind
<1>1. /\ net' \in [Conns -> Net] /\ BacklogOK(backlog', net')
      /\ \A c \in Conns : net'[c].link \in InBacklog \cup {"none"}
                            => net'[c] = net[c]
  <2>1. /\ net \in [Conns -> Net] /\ svr \in Svr /\ UnbornOK(net, svr)
        /\ BacklogOK(backlog, net)
    BY DEF IInv, SInv
  <2> QED BY <2>1, ShutKeeps
<1>2. UnbornOK(net', svr')
  <2> SUFFICES ASSUME NEW c \in Conns,
                      net'[c].link \in InBacklog \cup {"none"}
               PROVE  Unborn(c, svr')
    BY DEF UnbornOK
  <2>1. Unborn(c, svr) BY <1>1 DEF IInv, UnbornOK
  <2>2. ~InTable(c, svr) BY <2>1, InTableFacts DEF IInv, Unborn
  <2>3. ~\E i \in S : svr.slot[i] = c BY <2>2 DEF InTable
  <2>4. svr.obj[c].hSocket = FALSE /\ svr'.obj[c].hSocket \in BOOLEAN
    BY <2>1 DEF Unborn, Emptied, Svr, Obj
  <2>5. svr'.obj[c].hSocket = FALSE BY <2>4 DEF OthersKept
  <2> QED BY <2>1, <2>3, <2>5 DEF Unborn, Emptied
<1>3. HandleIsKnown(busy', svr')
  <2> SUFFICES ASSUME NEW c \in Conns, svr'.obj[c].hSocket = TRUE
               PROVE  InTable(c, svr') \/ busy'.who = c
    BY DEF HandleIsKnown
  <2>1. svr.obj[c].hSocket = TRUE BY DEF OthersKept
  <2>2. CASE InTable(c, svr)
    <3>1. PICK i \in Slots : svr.slot[i] = c BY <2>2 DEF InTable
    <3>2. CASE i \in S
      BY <3>1, <3>2 DEF IsOpen
    <3>3. CASE i \notin S
      <4>1. svr'.slot[i] = c BY <3>1, <3>3 DEF Emptied
      <4> QED BY <4>1 DEF InTable
    <3> QED BY <3>2, <3>3
  <2>3. CASE busy.who = c
    BY <2>3, ConnsAssumption
  <2> QED BY <2>1, <2>2, <2>3 DEF IInv, HandleIsKnown
<1> QED BY <1>1, <1>2, <1>3 DEF IInv, Kind

(* What only adds to what is pending changes nothing that matters here.    *)
LEMMA PendingKeeps ==
  ASSUME NEW s, SInv(s), NEW t, t \in Svr,
         t.alive = s.alive, t.slot = s.slot, t.nClients = s.nClients,
         t.calls = s.calls,
         \A c \in Conns : /\ t.obj[c].alive = s.obj[c].alive
                          /\ t.obj[c].hSocket = s.obj[c].hSocket
                          /\ t.obj[c].bConnected = s.obj[c].bConnected
                          /\ t.obj[c].outtaHere = s.obj[c].outtaHere
                          /\ t.obj[c].autoDeleteReq = s.obj[c].autoDeleteReq
                          /\ t.obj[c].iParentIdx = s.obj[c].iParentIdx
  PROVE  SInv(t) /\ Emptied(t, s, {}) /\ OthersKept(t, s, {})
<1>1. Taken(t) = Taken(s) BY DEF Taken
<1>2. \A c \in Conns : InTable(c, t) <=> InTable(c, s) BY DEF InTable
<1>3. TableOK(t) BY <1>2 DEF SInv, TableOK
<1>4. CountOK(t) /\ DeadIsEmpty(t)
  BY <1>1 DEF SInv, CountOK, DeadIsEmpty
<1>5. Emptied(t, s, {}) BY DEF Emptied
<1>6. OthersKept(t, s, {}) BY DEF OthersKept
<1> QED BY <1>3, <1>4, <1>5, <1>6 DEF SInv

-----------------------------------------------------------------------------
(* Steps that leave the server alone *)

(* A step of the thread that changes neither the server nor a link.        *)
LEMMA ThreadStep ==
  ASSUME IInv, svr' = svr, net' = net, backlog' = backlog,
         listener' \in ListenerType, Inside(busy', svr),
         busy.who # NoConn => busy'.who = busy.who
  PROVE  IInv' /\ Kind
<1>1. HandleIsKnown(busy', svr')
  BY ConnsAssumption DEF IInv, HandleIsKnown
<1> QED BY <1>1 DEF IInv, Kind

(* A step of a client or of TCP at connection c.                           *)
LEMMA LinkStep ==
  ASSUME IInv, NEW c \in Conns, UNCHANGED <<svr, listener, busy>>,
         backlog' = backlog, NEW n \in Net, net' = [net EXCEPT ![c] = n],
         n.link \in InBacklog \cup {"none"} =>
           net[c].link \in InBacklog \cup {"none"},
         net[c].link \in InBacklog => n.link \in InBacklog
  PROVE  IInv' /\ Kind
<1>1. net' \in [Conns -> Net] BY DEF IInv
<1>2. net'[c] = n /\ \A d \in Conns : d # c => net'[d] = net[d]
  BY DEF IInv
<1>3. UnbornOK(net', svr') BY <1>2 DEF IInv, UnbornOK
<1>4. BacklogOK(backlog', net')
  <2>1. \A m \in 1..Len(backlog) : backlog[m] \in Conns
    BY DEF IInv, BacklogOK
  <2> QED BY <1>2, <2>1 DEF IInv, BacklogOK
<1> QED BY <1>1, <1>3, <1>4 DEF IInv, Kind

(* StartService keeps the invariant and is one of the kinds of steps. *)
LEMMA StartServiceStep == IInv /\ StartService => IInv' /\ Kind
<1> SUFFICES ASSUME IInv, StartService PROVE IInv' /\ Kind OBVIOUS
<1>1. listener' \in ListenerType BY DEF StartService, IInv, ListenerType
<1> QED BY <1>1, ThreadStep DEF StartService, IInv

(* RcvDone keeps the invariant and is one of the kinds of steps. *)
LEMMA RcvDoneStep == IInv /\ RcvDone => IInv' /\ Kind
<1> SUFFICES ASSUME IInv, RcvDone PROVE IInv' /\ Kind OBVIOUS
<1>1. busy \in BusyType /\ busy.pc = "rcv" /\ busy.who # NoConn
  BY DEF RcvDone, IInv, Inside
<1>2. busy.who \in Conns BY <1>1 DEF BusyType
<1>3. /\ busy'.who = busy.who /\ busy'.pc \in {"write", "end"}
      /\ busy' \in BusyType
  BY <1>1, <1>2 DEF RcvDone, AfterRead, BusyType
<1>4. Inside(busy', svr) BY <1>1, <1>3 DEF IInv, Inside
<1> QED BY <1>3, <1>4, ThreadStep DEF RcvDone, IInv

(* ClientConnect keeps the invariant and is one of the kinds of steps. *)
LEMMA ClientConnectStep ==
  ASSUME IInv, NEW c \in Conns, ClientConnect(c)
  PROVE  IInv' /\ Kind
<1>1. net[c].link = "none" /\ backlog' = Append(backlog, c)
      /\ UNCHANGED <<svr, listener, busy>>
  BY DEF ClientConnect
<1>2. PICK n : n = [net[c] EXCEPT !.link = "waiting"] OBVIOUS
<1>3. net' = [net EXCEPT ![c] = n] /\ n \in Net /\ n.link = "waiting"
  BY <1>2 DEF ClientConnect, IInv, Net, Link, InBacklog
<1>4. net' \in [Conns -> Net] BY <1>3 DEF IInv
<1>5. net'[c] = n /\ \A d \in Conns : d # c => net'[d] = net[d]
  BY <1>3 DEF IInv
<1>6. UnbornOK(net', svr') BY <1>1, <1>5 DEF IInv, UnbornOK
<1>7. /\ backlog \in Seq(Conns)
      /\ \A m \in 1..Len(backlog) : net[backlog[m]].link \in InBacklog
      /\ \A m, k \in 1..Len(backlog) : backlog[m] = backlog[k] => m = k
  BY DEF IInv, BacklogOK
<1>8. /\ backlog' \in Seq(Conns) /\ Len(backlog') = Len(backlog) + 1
      /\ backlog'[Len(backlog) + 1] = c
      /\ \A m \in 1..Len(backlog) :
           backlog'[m] = backlog[m] /\ backlog[m] \in Conns
  BY <1>1, <1>7
<1>9. \A m \in 1..Len(backlog) : backlog[m] # c
  BY <1>1, <1>7 DEF InBacklog
<1>10. \A m \in 1..Len(backlog') : net'[backlog'[m]].link \in InBacklog
  <2> SUFFICES ASSUME NEW m \in 1..Len(backlog')
               PROVE  net'[backlog'[m]].link \in InBacklog
    OBVIOUS
  <2>1. CASE m = Len(backlog) + 1
    BY <1>3, <1>5, <1>8, <2>1 DEF InBacklog
  <2>2. CASE m \in 1..Len(backlog)
    BY <1>5, <1>7, <1>8, <1>9, <2>2
  <2> QED BY <1>7, <1>8, <2>1, <2>2
<1>11. \A m, k \in 1..Len(backlog') : backlog'[m] = backlog'[k] => m = k
  <2> SUFFICES ASSUME NEW m \in 1..Len(backlog'), NEW k \in 1..Len(backlog'),
                      backlog'[m] = backlog'[k]
               PROVE  m = k
    OBVIOUS
  <2>1. m \in 1..Len(backlog) \/ m = Len(backlog) + 1 BY <1>7, <1>8
  <2>2. k \in 1..Len(backlog) \/ k = Len(backlog) + 1 BY <1>7, <1>8
  <2> QED BY <1>7, <1>8, <1>9, <2>1, <2>2
<1>12. BacklogOK(backlog', net') BY <1>8, <1>10, <1>11 DEF BacklogOK
<1> QED BY <1>1, <1>4, <1>6, <1>12 DEF IInv, Kind

(* ClientSend keeps the invariant and is one of the kinds of steps. *)
LEMMA ClientSendStep ==
  ASSUME IInv, NEW c \in Conns, ClientSend(c)
  PROVE  IInv' /\ Kind
<1>1. PICK l : l = net[c] OBVIOUS
<1>2. l \in Net BY <1>1 DEF IInv
<1>3. PICK n : n = [l EXCEPT !.sent = @ + 1, !.inbox = @ + 1] OBVIOUS
<1>4. n \in Net /\ n.link = l.link
  <2>1. l.link \in Link /\ l.sent + 1 \in Nat /\ l.inbox + 1 \in Nat
    BY <1>2 DEF Net
  <2>2. n = [link |-> l.link, sent |-> l.sent + 1, inbox |-> l.inbox + 1]
    BY <1>2, <1>3 DEF Net
  <2> QED BY <2>1, <2>2 DEF Net
<1>5. net' = [net EXCEPT ![c] = n]
  BY <1>1, <1>2, <1>3 DEF ClientSend, IInv, Net
<1> QED BY <1>1, <1>4, <1>5, LinkStep DEF ClientSend

(* ClientClose keeps the invariant and is one of the kinds of steps. *)
LEMMA ClientCloseStep ==
  ASSUME IInv, NEW c \in Conns, ClientClose(c)
  PROVE  IInv' /\ Kind
<1>1. PICK l : l = net[c] OBVIOUS
<1>2. l \in Net BY <1>1 DEF IInv
<1>3. UNCHANGED <<svr, listener, busy>> /\ backlog' = backlog
  BY DEF ClientClose
<1>4. CASE l.link = "waiting" /\ net' = [net EXCEPT ![c].link = "leaving"]
  <2>1. PICK n : n = [l EXCEPT !.link = "leaving"] OBVIOUS
  <2>2. n \in Net /\ n.link = "leaving"
    BY <1>2, <2>1 DEF Net, Link, InBacklog
  <2>3. net' = [net EXCEPT ![c] = n] BY <1>1, <1>4, <2>1
  <2>4. n.link \in InBacklog /\ net[c].link \in InBacklog
    BY <1>1, <1>4, <2>2 DEF InBacklog
  <2> QED BY <1>3, <2>2, <2>3, <2>4, LinkStep
<1>5. CASE /\ l.link = "waiting"
           /\ net' = [net EXCEPT ![c].link = "aborted", ![c].inbox = 0]
  <2>1. PICK n : n = [l EXCEPT !.link = "aborted", !.inbox = 0] OBVIOUS
  <2>2. n \in Net /\ n.link = "aborted"
    BY <1>2, <2>1 DEF Net, Link, InBacklog
  <2>3. net' = [net EXCEPT ![c] = n]
    BY <1>1, <1>2, <1>5, <2>1 DEF IInv, Net
  <2>4. n.link \in InBacklog /\ net[c].link \in InBacklog
    BY <1>1, <1>5, <2>2 DEF InBacklog
  <2> QED BY <1>3, <2>2, <2>3, <2>4, LinkStep
<1>6. CASE l.link = "up" /\ net' = [net EXCEPT ![c].link = "eof"]
  <2>1. PICK n : n = [l EXCEPT !.link = "eof"] OBVIOUS
  <2>2. n \in Net /\ n.link = "eof" BY <1>2, <2>1 DEF Net, Link
  <2>3. net' = [net EXCEPT ![c] = n] BY <1>1, <1>6, <2>1
  <2>4. n.link \notin InBacklog \cup {"none"} /\ net[c].link \notin InBacklog
    BY <1>1, <1>6, <2>2 DEF InBacklog
  <2> QED BY <1>3, <2>2, <2>3, <2>4, LinkStep
<1> QED BY <1>1, <1>4, <1>5, <1>6 DEF ClientClose

(* Lose keeps the invariant and is one of the kinds of steps. *)
LEMMA LoseStep ==
  ASSUME IInv, NEW c \in Conns, NEW how \in {"reset", "broken"}, Lose(c, how)
  PROVE  IInv' /\ Kind
<1>1. PICK l : l = net[c] OBVIOUS
<1>2. l \in Net /\ l.link \in {"up", "eof"} BY <1>1 DEF IInv, Lose
<1>3. PICK n : n = [l EXCEPT !.link = how, !.inbox = 0] OBVIOUS
<1>4. n \in Net /\ n.link = how
  <2>1. how \in Link BY DEF Link
  <2>2. n = [link |-> how, sent |-> l.sent, inbox |-> 0] /\ l.sent \in Nat
    BY <1>2, <1>3 DEF Net
  <2> QED BY <2>1, <2>2 DEF Net
<1>5. net' = [net EXCEPT ![c] = n]
  BY <1>1, <1>2, <1>3 DEF Lose, IInv, Net
<1>6. n.link \notin InBacklog \cup {"none"} /\ net[c].link \notin InBacklog
  BY <1>1, <1>2, <1>4 DEF InBacklog
<1> QED BY <1>4, <1>5, <1>6, LinkStep DEF Lose

-----------------------------------------------------------------------------
(* Steps that empty slots, or none *)

(* Where no handle is closed, no link is.                                  *)
LEMMA ShutNothing ==
  ASSUME IInv, NEW s \in Svr,
         \A c \in Conns : s.obj[c].hSocket = svr.obj[c].hSocket
  PROVE  net = Shut(s)
<1>1. \A c \in Conns : s.obj[c].hSocket \in BOOLEAN BY DEF Svr, Obj
<1>2. \A c \in Conns : Shut(s)[c] = net[c] BY <1>1 DEF Shut
<1>3. Shut(s) = [c \in Conns |-> Shut(s)[c]] BY DEF Shut
<1>4. net = [c \in Conns |-> net[c]] BY DEF IInv
<1> QED BY <1>2, <1>3, <1>4

(* The thread stays where it is when slots are emptied around it.          *)
LEMMA InsideKept ==
  ASSUME NEW b, NEW s, Inside(b, s), s \in Svr, NEW t, NEW S \in SUBSET Slots,
         Emptied(t, s, S)
  PROVE  Inside(b, t)
<1>1. b \in BusyType BY DEF Inside
<1>2. CASE b.who = NoConn BY <1>2, <1>1 DEF Inside
<1>3. CASE b.who \in Conns
  <2>1. s.obj[b.who].iParentIdx \in Slots BY <1>3 DEF Svr, Obj
  <2> QED BY <1>3, <2>1, ZenonT(60) DEF Inside, Emptied
<1> QED BY <1>1, <1>2, <1>3 DEF BusyType

(* A step that only changes what objects have pending. *)
LEMMA PendingStep ==
  ASSUME IInv, UNCHANGED <<listener, busy, backlog, net>>,
         NEW o \in [Conns -> Obj],
         svr' = [svr EXCEPT !.obj = o],
         \A c \in Conns : /\ o[c].alive = svr.obj[c].alive
                          /\ o[c].hSocket = svr.obj[c].hSocket
                          /\ o[c].bConnected = svr.obj[c].bConnected
                          /\ o[c].outtaHere = svr.obj[c].outtaHere
                          /\ o[c].autoDeleteReq = svr.obj[c].autoDeleteReq
                          /\ o[c].iParentIdx = svr.obj[c].iParentIdx
  PROVE  IInv' /\ Kind
<1>1. svr \in Svr /\ SInv(svr) BY DEF IInv, SInv
<1>2. /\ svr' \in Svr /\ svr'.alive = svr.alive /\ svr'.slot = svr.slot
      /\ svr'.nClients = svr.nClients /\ svr'.calls = svr.calls
      /\ svr'.obj = o
  BY <1>1 DEF Svr
<1>3. SInv(svr') /\ Emptied(svr', svr, {}) /\ OthersKept(svr', svr, {})
  BY <1>1, <1>2, PendingKeeps
<1>4. net' = Shut(svr') BY <1>2, ShutNothing
<1>5. Inside(busy', svr') BY <1>1, <1>3, InsideKept DEF IInv
<1>6. listener' \in ListenerType /\ backlog' = backlog BY DEF IInv
<1>7. {} \in SUBSET Slots OBVIOUS
<1> QED BY <1>3, <1>4, <1>5, <1>6, <1>7, ShrinkStep

(* AppSend keeps the invariant and is one of the kinds of steps. *)
LEMMA AppSendStep ==
  ASSUME IInv, NEW i \in Slots, AppSend(i)
  PROVE  IInv' /\ Kind
<1>1. PICK c : c = svr.slot[i] OBVIOUS
<1>2. svr \in Svr BY DEF IInv, SInv
<1>3. c \in Conns BY <1>1, <1>2 DEF AppSend, Taken, Svr
<1>4. PICK p : p = (svr.obj[c].pending \/ svr.obj[c].bConnected) OBVIOUS
<1>5. p \in BOOLEAN BY <1>4
<1>6. PICK o : o = [svr.obj EXCEPT ![c].pending = p] OBVIOUS
<1>7. o \in [Conns -> Obj] BY <1>2, <1>5, <1>6, ZenonT(60) DEF Svr, Obj
<1>8. svr' = [svr EXCEPT !.obj = o]
  BY <1>1, <1>2, <1>3, <1>4, <1>6 DEF AppSend, Svr
<1>9. \A d \in Conns : /\ o[d].alive = svr.obj[d].alive
                       /\ o[d].hSocket = svr.obj[d].hSocket
                       /\ o[d].bConnected = svr.obj[d].bConnected
                       /\ o[d].outtaHere = svr.obj[d].outtaHere
                       /\ o[d].autoDeleteReq = svr.obj[d].autoDeleteReq
                       /\ o[d].iParentIdx = svr.obj[d].iParentIdx
  BY <1>2, <1>6 DEF Svr, Obj
<1> QED BY <1>7, <1>8, <1>9, PendingStep DEF AppSend

(* AppSendAll keeps the invariant and is one of the kinds of steps. *)
LEMMA AppSendAllStep ==
  ASSUME IInv, AppSendAll
  PROVE  IInv' /\ Kind
<1>1. svr \in Svr BY DEF IInv, SInv
<1>2. PICK o : o = [c \in Conns |->
               [svr.obj[c] EXCEPT !.pending =
                  \/ @
                  \/ (svr.obj[c].bConnected
                      /\ \E i \in Slots : svr.slot[i] = c)]]
  OBVIOUS
<1>3. svr' = [svr EXCEPT !.obj = o] BY <1>2 DEF AppSendAll
<1>4. ASSUME NEW c \in Conns
      PROVE  /\ o[c] \in Obj
             /\ o[c].alive = svr.obj[c].alive
             /\ o[c].hSocket = svr.obj[c].hSocket
             /\ o[c].bConnected = svr.obj[c].bConnected
             /\ o[c].outtaHere = svr.obj[c].outtaHere
             /\ o[c].autoDeleteReq = svr.obj[c].autoDeleteReq
             /\ o[c].iParentIdx = svr.obj[c].iParentIdx
  <2>1. PICK p : p = (svr.obj[c].pending
                      \/ (svr.obj[c].bConnected
                          /\ \E i \in Slots : svr.slot[i] = c))
    OBVIOUS
  <2>2. p \in BOOLEAN BY <2>1
  <2>3. svr.obj[c] \in Obj BY <1>1 DEF Svr
  <2>4. o[c] = [svr.obj[c] EXCEPT !.pending = p] BY <1>2, <2>1
  <2> QED BY <2>2, <2>3, <2>4 DEF Obj
<1>5. o \in [Conns -> Obj]
  <2>1. o = [c \in Conns |-> o[c]] BY <1>2
  <2> QED BY <1>4, <2>1
<1> QED BY <1>3, <1>4, <1>5, PendingStep DEF AppSendAll

(* A step of the application that empties slots and closes their owners.   *)
LEMMA ShrunkStep ==
  ASSUME IInv, Shrunk(svr', svr), net' = Shut(svr'),
         UNCHANGED <<listener, busy, backlog>>
  PROVE  IInv' /\ Kind
<1>1. PICK S \in SUBSET Slots :
        /\ Emptied(svr', svr, S) /\ OthersKept(svr', svr, S)
        /\ ClosedIn(svr', svr, S)
  BY DEF Shrunk
<1>2. SInv(svr') BY DEF Shrunk
<1>3. Inside(busy', svr') BY <1>1, InsideKept DEF IInv, SInv
<1>4. \A c \in Conns : (\E i \in S : svr.slot[i] = c) => ~IsOpen(c, svr')
  BY <1>1 DEF ClosedIn, IsOpen
<1>5. listener' \in ListenerType /\ backlog' = backlog BY DEF IInv
<1> QED BY <1>1, <1>2, <1>3, <1>4, <1>5, ShrinkStep

(* AppDisconnect keeps the invariant and is one of the kinds of steps. *)
LEMMA AppDisconnectStep ==
  ASSUME IInv, NEW i \in Slots, AppDisconnect(i)
  PROVE  IInv' /\ Kind
<1>1. Shrunk(svr', svr)
  BY DisconnectShrinks DEF AppDisconnect, Become, IInv
<1> QED BY <1>1, ShrunkStep DEF AppDisconnect, Become

(* AppDisconnectAll keeps the invariant and is one of the kinds of steps.  *)
LEMMA AppDisconnectAllStep ==
  ASSUME IInv, AppDisconnectAll
  PROVE  IInv' /\ Kind
<1>1. Shrunk(svr', svr)
  BY DisconnectAllShrinks DEF AppDisconnectAll, Become, IInv
<1> QED BY <1>1, ShrunkStep DEF AppDisconnectAll, Become

-----------------------------------------------------------------------------
(* Steps of the thread in an object's OnTimer *)

(* Between two passes an open handle belongs to the owner of a slot.       *)
LEMMA OpenIsInTable ==
  ASSUME IInv, busy = Idle, NEW c \in Conns, IsOpen(c, svr)
  PROVE  InTable(c, svr) /\ svr.slot[svr.obj[c].iParentIdx] = c
<1>1. busy.who # c BY ConnsAssumption DEF Idle
<1>2. InTable(c, svr) BY <1>1 DEF IInv, HandleIsKnown, IsOpen
<1> QED BY <1>2, InTableFacts DEF IInv

(* The pass of c closes it, or runs its OnClose. *)
LEMMA LeaveStep ==
  ASSUME IInv, NEW c \in Conns, busy.who \in {NoConn, c},
         svr.obj[c].alive = TRUE,
         svr.slot[svr.obj[c].iParentIdx] \in {c, NoConn},
         NEW r, Dimmed(r, svr, c),
         \/ svr' = Close(c, r) /\ IsOpen(c, r)
         \/ svr' = OnDisconLo(c, r),
         net' = Shut(svr'), UNCHANGED <<listener, backlog>>,
         busy' \in BusyType, busy'.who = c, busy'.pc # "idle"
  PROVE  IInv' /\ Kind
<1>1. SInv(svr) /\ svr \in Svr BY DEF IInv, SInv
<1>2. PICK S \in SUBSET Slots :
        /\ SInv(svr') /\ Emptied(svr', svr, S) /\ OthersKept(svr', svr, S)
        /\ S \subseteq {svr.obj[c].iParentIdx}
  <2>1. CASE svr' = Close(c, r) /\ IsOpen(c, r)
    <3>1. PICK t : t = Close(c, r) OBVIOUS
    <3>2. \E S \in SUBSET Slots :
            /\ SInv(t) /\ Emptied(t, svr, S) /\ OthersKept(t, svr, S)
            /\ S \subseteq {svr.obj[c].iParentIdx}
      BY <1>1, <2>1, <3>1, CloseLeaves
    <3> QED BY <2>1, <3>1, <3>2
  <2>2. CASE svr' = OnDisconLo(c, r)
    <3>1. PICK t : t = OnDisconLo(c, r) OBVIOUS
    <3>2. \E S \in SUBSET Slots :
            /\ SInv(t) /\ Emptied(t, svr, S) /\ OthersKept(t, svr, S)
            /\ S \subseteq {svr.obj[c].iParentIdx}
      BY <1>1, <3>1, Leave
    <3> QED BY <2>2, <3>1, <3>2
  <2> QED BY <2>1, <2>2
<1>3. svr.obj[c].iParentIdx \in Slots BY <1>1 DEF Svr, Obj
<1>4. /\ svr'.obj[c].alive = TRUE
      /\ svr'.obj[c].iParentIdx = svr.obj[c].iParentIdx
      /\ svr'.slot[svr.obj[c].iParentIdx] \in {c, NoConn}
  <2>1. /\ svr'.obj[c].alive = svr.obj[c].alive
        /\ svr'.obj[c].iParentIdx = svr.obj[c].iParentIdx
    BY <1>2 DEF Emptied
  <2>2. \A i \in Slots : svr'.slot[i] \in {svr.slot[i], NoConn}
    BY <1>2 DEF Emptied
  <2> QED BY <1>3, <2>1, <2>2
<1>5. Inside(busy', svr')
  <2>1. c # NoConn BY ConnsAssumption
  <2> QED BY <1>4, <2>1 DEF Inside
<1>6. ASSUME NEW d \in Conns, \E i \in S : svr.slot[i] = d
      PROVE  busy'.who = d
  <2>1. svr.slot[svr.obj[c].iParentIdx] = d BY <1>2, <1>6
  <2>2. d # NoConn BY ConnsAssumption
  <2> QED BY <2>1, <2>2
<1>7. listener' \in ListenerType /\ backlog' = backlog BY DEF IInv
<1>8. busy.who # NoConn => busy'.who = busy.who OBVIOUS
<1> QED BY <1>2, <1>5, <1>6, <1>7, <1>8, ShrinkStep

(* A server is itself, dimmed by nothing. *)
LEMMA DimmedSelf ==
  ASSUME NEW s \in Svr, NEW c \in Conns
  PROVE  Dimmed(s, s, c)
BY DEF Dimmed

(* Where the thread is after the read event of a pass. *)
LEMMA AfterReadType ==
  ASSUME NEW c \in Conns, NEW s, NEW nw
  PROVE  /\ AfterRead(c, s, nw) \in BusyType
         /\ AfterRead(c, s, nw).who = c
         /\ AfterRead(c, s, nw).pc # "idle"
BY DEF AfterRead, BusyType

(* A message goes to the application. *)
LEMMA ReceiveStep ==
  ASSUME IInv, busy = Idle, NEW c \in Conns, svr.obj[c].alive = TRUE,
         IsOpen(c, svr), NEW nw \in BOOLEAN, net[c].inbox > 0,
         svr' = [svr EXCEPT !.calls[c].rcv = @ + 1,
                            !.calls[c].id = svr.obj[c].iParentIdx],
         net' = [net EXCEPT ![c].inbox = @ - 1],
         busy' = [who |-> c, pc |-> "rcv", needWrite |-> nw],
         UNCHANGED <<listener, backlog>>
  PROVE  IInv' /\ Kind
<1>1. /\ svr \in Svr /\ TableOK(svr) /\ CountOK(svr) /\ DeadIsEmpty(svr)
      /\ net \in [Conns -> Net] /\ UnbornOK(net, svr)
      /\ BacklogOK(backlog, net)
  BY DEF IInv, SInv
<1>2. PICK i : i = svr.obj[c].iParentIdx OBVIOUS
<1>3. i \in Slots /\ svr.slot[i] = c
  BY <1>1, <1>2, OpenIsInTable DEF Svr, Obj
<1>4. PICK k : k = [svr.calls EXCEPT ![c].rcv = @ + 1, ![c].id = i] OBVIOUS
<1>5. svr' = [svr EXCEPT !.calls = k] BY <1>1, <1>2, <1>4 DEF Svr
<1>6. /\ k \in [Conns -> Calls] /\ k[c].id = i
      /\ k[c].up = svr.calls[c].up
      /\ \A d \in Conns : d # c => k[d] = svr.calls[d]
  BY <1>1, <1>3, <1>4 DEF Svr, Calls
<1>7. /\ svr' \in Svr /\ svr'.calls = k /\ svr'.slot = svr.slot
      /\ svr'.alive = svr.alive /\ svr'.obj = svr.obj
      /\ svr'.nClients = svr.nClients
  BY <1>1, <1>5, <1>6 DEF Svr
<1>8. SInv(svr')
  <2>1. \A d \in Conns : InTable(d, svr') <=> InTable(d, svr)
    BY <1>7 DEF InTable
  <2>2. \A j \in Slots : svr.slot[j] = c => j = i
    BY <1>1, <1>2 DEF TableOK
  <2>3. TableOK(svr') BY <1>1, <1>6, <1>7, <2>1, <2>2 DEF TableOK
  <2>4. Taken(svr') = Taken(svr) BY <1>7 DEF Taken
  <2>5. CountOK(svr') /\ DeadIsEmpty(svr')
    BY <1>1, <1>7, <2>4 DEF CountOK, DeadIsEmpty
  <2> QED BY <1>7, <2>3, <2>5 DEF SInv
<1>9. c # NoConn BY ConnsAssumption
<1>10. Inside(busy', svr')
  <2>1. busy' \in BusyType BY DEF BusyType
  <2> QED BY <1>2, <1>3, <1>7, <1>9, <2>1 DEF Inside
<1>11. HandleIsKnown(busy', svr')
  <2>1. busy.who = NoConn BY DEF Idle
  <2>2. \A d \in Conns : d # NoConn BY ConnsAssumption
  <2> QED BY <1>7, <2>1, <2>2 DEF IInv, HandleIsKnown, InTable
<1>12. /\ net' \in [Conns -> Net]
       /\ \A d \in Conns : net'[d].link = net[d].link
  <2>1. PICK l : l = net[c] OBVIOUS
  <2>2. l \in Net /\ l.inbox > 0 BY <1>1, <2>1
  <2>3. PICK n : n = [l EXCEPT !.inbox = @ - 1] OBVIOUS
  <2>4. n = [link |-> l.link, sent |-> l.sent, inbox |-> l.inbox - 1]
    BY <2>2, <2>3 DEF Net
  <2>5. n \in Net /\ n.link = l.link BY <2>2, <2>4 DEF Net
  <2>6. net' = [net EXCEPT ![c] = n] BY <1>1, <2>1, <2>2, <2>3 DEF Net
  <2> QED BY <1>1, <2>1, <2>5, <2>6
<1>13. UnbornOK(net', svr')
  <2>1. svr.obj[c].alive # FALSE OBVIOUS
  <2>2. \A d \in Conns : svr'.calls[d].up = svr.calls[d].up
    BY <1>6, <1>7
  <2> QED BY <1>1, <1>7, <1>12, <2>1, <2>2 DEF UnbornOK, Unborn
<1>14. BacklogOK(backlog', net')
  <2>1. \A m \in 1..Len(backlog) : backlog[m] \in Conns
    BY <1>1 DEF BacklogOK
  <2> QED BY <1>1, <1>12, <2>1 DEF BacklogOK
<1>15. Received(i, c) BY <1>3, <1>4, <1>7 DEF Received
<1> QED BY <1>3, <1>8, <1>10, <1>11, <1>12, <1>13, <1>14, <1>15
        DEF IInv, Kind

(* SockTimer keeps the invariant and is one of the kinds of steps. *)
LEMMA SockTimerStep ==
  ASSUME IInv, NEW c \in Conns, SockTimer(c)
  PROVE  IInv' /\ Kind
<1>1. /\ busy = Idle /\ svr.obj[c].alive = TRUE /\ c # NoConn
      /\ listener' \in ListenerType /\ UNCHANGED <<listener, backlog>>
      /\ svr \in Svr /\ busy.who = NoConn
  <2>1. svr \in Svr BY DEF IInv, SInv
  <2>2. svr.obj[c].alive \in BOOLEAN BY <2>1 DEF Svr, Obj
  <2> QED BY <2>1, <2>2, ConnsAssumption DEF SockTimer, IInv, Idle
<1>2. ASSUME svr' = svr, net' = net, busy' \in BusyType, busy'.who = c,
             busy'.pc \in {"write", "end"},
             busy'.pc = "write" => svr.slot[svr.obj[c].iParentIdx] = c
      PROVE  IInv' /\ Kind
  <2>1. Inside(busy', svr) BY <1>1, <1>2 DEF Inside
  <2>2. backlog' = backlog BY <1>1
  <2> QED BY <1>1, <1>2, <2>1, <2>2, ThreadStep
<1>3. CASE /\ ~svr.obj[c].hSocket
           /\ busy' = [who |-> c, pc |-> "end", needWrite |-> FALSE]
           /\ UNCHANGED <<svr, net>>
  <2>1. busy' \in BusyType /\ busy'.who = c /\ busy'.pc = "end"
    BY <1>3 DEF BusyType
  <2> QED BY <1>2, <1>3, <2>1
<1>4. CASE svr.obj[c].hSocket
  <2>1. IsOpen(c, svr)
    BY <1>1, <1>4 DEF IsOpen, Svr, Obj
  <2>2. svr.slot[svr.obj[c].iParentIdx] = c BY <1>1, <2>1, OpenIsInTable
  <2>3. PICK nw \in {FALSE, svr.obj[c].pending} :
          \/ DoRcv(c, nw)
          \/ busy' = AfterRead(c, svr, nw) /\ UNCHANGED <<svr, net>>
    BY <1>4 DEF SockTimer
  <2>4. nw \in BOOLEAN BY <1>1 DEF Svr, Obj
  <2>5. CASE busy' = AfterRead(c, svr, nw) /\ UNCHANGED <<svr, net>>
    <3>1. /\ busy' \in BusyType /\ busy'.who = c
          /\ busy'.pc \in {"write", "end"}
      BY <2>5 DEF AfterRead, BusyType
    <3> QED BY <1>2, <2>2, <2>5, <3>1
  <2>6. CASE DoRcv(c, nw)
    <3>1. CASE /\ net[c].inbox > 0
               /\ svr' = [svr EXCEPT !.calls[c].rcv = @ + 1,
                                     !.calls[c].id = svr.obj[c].iParentIdx]
               /\ net' = [net EXCEPT ![c].inbox = @ - 1]
               /\ busy' = [who |-> c, pc |-> "rcv", needWrite |-> nw]
      BY <1>1, <2>1, <2>4, <3>1, ReceiveStep
    <3>2. CASE \/ Become(Close(c, svr)) /\ busy' = AfterRead(c, svr', nw)
               \/ Become(OnDisconLo(c, svr)) /\ busy' = AfterRead(c, svr', nw)
      <4>1. Dimmed(svr, svr, c) BY <1>1, DimmedSelf
      <4>2. \/ svr' = Close(c, svr) /\ IsOpen(c, svr)
            \/ svr' = OnDisconLo(c, svr)
        BY <2>1, <3>2 DEF Become
      <4>3. net' = Shut(svr') BY <3>2 DEF Become
      <4>4. /\ busy' \in BusyType /\ busy'.who = c /\ busy'.pc # "idle"
        BY <3>2, AfterReadType
      <4>5. svr.slot[svr.obj[c].iParentIdx] \in {c, NoConn} BY <2>2
      <4>6. busy.who \in {NoConn, c} BY <1>1
      <4> QED BY <1>1, <4>1, <4>2, <4>3, <4>4, <4>5, <4>6, LeaveStep
    <3>3. CASE busy' = AfterRead(c, svr, nw) /\ UNCHANGED <<svr, net>>
      BY <2>5, <3>3
    <3> QED BY <2>6, <3>1, <3>2, <3>3 DEF DoRcv
  <2> QED BY <2>3, <2>5, <2>6
<1> QED BY <1>3, <1>4 DEF SockTimer

(* SockError keeps the invariant and is one of the kinds of steps. *)
LEMMA SockErrorStep ==
  ASSUME IInv, NEW c \in Conns, SockError(c)
  PROVE  IInv' /\ Kind
<1>1. svr \in Svr BY DEF IInv, SInv
<1>2. svr.obj[c].alive = TRUE /\ IsOpen(c, svr)
  BY <1>1 DEF SockError, IsOpen, Svr, Obj
<1>3. busy = Idle /\ busy.who \in {NoConn, c} BY DEF SockError, Idle
<1>4. svr.slot[svr.obj[c].iParentIdx] \in {c, NoConn}
  BY <1>2, <1>3, OpenIsInTable
<1>5. Dimmed(svr, svr, c) BY <1>1, DimmedSelf
<1>6. svr' = Close(c, svr) /\ net' = Shut(svr')
  BY DEF SockError, Become
<1>7. busy' \in BusyType /\ busy'.who = c /\ busy'.pc # "idle"
  BY AfterReadType DEF SockError
<1>8. UNCHANGED <<listener, backlog>> BY DEF SockError
<1> QED BY <1>2, <1>3, <1>4, <1>5, <1>6, <1>7, <1>8, LeaveStep

(* What the write event leaves pending.                                    *)
LEMMA SentStep ==
  ASSUME IInv, NEW c \in Conns, NEW rest \in BOOLEAN,
         svr' = [svr EXCEPT !.obj[c].pending = rest],
         UNCHANGED <<listener, backlog, net>>,
         busy' \in BusyType, busy'.who = c, busy.who = c, busy'.pc = "end"
  PROVE  IInv' /\ Kind
<1>1. svr \in Svr /\ SInv(svr) BY DEF IInv, SInv
<1>2. PICK o : o = [svr.obj EXCEPT ![c].pending = rest] OBVIOUS
<1>3. o \in [Conns -> Obj] BY <1>1, <1>2 DEF Svr, Obj
<1>4. \A d \in Conns : /\ o[d].alive = svr.obj[d].alive
                       /\ o[d].hSocket = svr.obj[d].hSocket
                       /\ o[d].bConnected = svr.obj[d].bConnected
                       /\ o[d].outtaHere = svr.obj[d].outtaHere
                       /\ o[d].autoDeleteReq = svr.obj[d].autoDeleteReq
                       /\ o[d].iParentIdx = svr.obj[d].iParentIdx
  BY <1>1, <1>2 DEF Svr, Obj
<1>5. svr' = [svr EXCEPT !.obj = o] BY <1>1, <1>2 DEF Svr
<1>6. /\ svr' \in Svr /\ svr'.alive = svr.alive /\ svr'.slot = svr.slot
      /\ svr'.nClients = svr.nClients /\ svr'.calls = svr.calls
      /\ svr'.obj = o
  BY <1>1, <1>3, <1>5 DEF Svr
<1>7. SInv(svr') /\ Emptied(svr', svr, {}) /\ OthersKept(svr', svr, {})
  BY <1>1, <1>4, <1>6, PendingKeeps
<1>8. net' = Shut(svr') BY <1>4, <1>6, ShutNothing
<1>9. c # NoConn BY ConnsAssumption
<1>10. svr'.obj[c].alive = TRUE BY <1>4, <1>6, <1>9 DEF IInv, Inside
<1>11. Inside(busy', svr') BY <1>9, <1>10 DEF Inside
<1>12. listener' \in ListenerType /\ backlog' = backlog BY DEF IInv
<1>13. {} \in SUBSET Slots OBVIOUS
<1> QED BY <1>7, <1>8, <1>11, <1>12, <1>13, ShrinkStep

(* Write keeps the invariant and is one of the kinds of steps. *)
LEMMA WriteStep == IInv /\ Write => IInv' /\ Kind
<1> SUFFICES ASSUME IInv, Write PROVE IInv' /\ Kind OBVIOUS
<1>1. PICK c : c = busy.who OBVIOUS
<1>2. /\ svr \in Svr /\ busy \in BusyType /\ busy.pc = "write"
      /\ busy.who # NoConn /\ svr.obj[c].alive = TRUE
      /\ svr.slot[svr.obj[c].iParentIdx] \in {c, NoConn}
  BY <1>1 DEF IInv, SInv, Inside, Write
<1>3. c \in Conns BY <1>1, <1>2 DEF BusyType
<1>4. /\ busy' \in BusyType /\ busy'.who = c /\ busy'.pc = "end"
      /\ UNCHANGED <<listener, backlog>>
  <2>1. busy' = [busy EXCEPT !.pc = "end"] BY DEF Write
  <2> QED BY <1>1, <1>2, <2>1 DEF Write, BusyType
<1>5. CASE UNCHANGED <<svr, net>>
  <2>1. Inside(busy', svr) BY <1>2, <1>3, <1>4, ConnsAssumption DEF Inside
  <2>2. /\ svr' = svr /\ net' = net /\ backlog' = backlog
        /\ listener' \in ListenerType
    BY <1>4, <1>5 DEF IInv
  <2> QED BY <1>1, <1>4, <2>1, <2>2, ThreadStep
<1>6. CASE /\ \E rest \in BOOLEAN :
                svr' = [svr EXCEPT !.obj[c].pending = rest]
           /\ UNCHANGED net
  <2>1. PICK rest \in BOOLEAN : svr' = [svr EXCEPT !.obj[c].pending = rest]
    BY <1>6
  <2> QED BY <1>1, <1>3, <1>4, <1>6, <2>1, SentStep
<1>7. CASE \E aborted \in {FALSE, net[c].link = "broken"} :
             Become(Close(c, [svr EXCEPT !.obj[c].outtaHere = @ \/ ~aborted]))
  <2>1. PICK aborted \in {FALSE, net[c].link = "broken"} :
          Become(Close(c, [svr EXCEPT !.obj[c].outtaHere = @ \/ ~aborted]))
    BY <1>7
  <2>2. PICK p : p = (svr.obj[c].outtaHere \/ ~aborted) OBVIOUS
  <2>3. PICK o : o = [svr.obj EXCEPT ![c].outtaHere = p] OBVIOUS
  <2>4. PICK r : r = [svr EXCEPT !.obj = o] OBVIOUS
  <2>5. p \in BOOLEAN BY <2>2
  <2>6. o \in [Conns -> Obj] BY <1>2, <2>3, <2>5, ZenonT(60) DEF Svr, Obj
  <2>7. Become(Close(c, r)) BY <1>2, <1>3, <2>1, <2>2, <2>3, <2>4 DEF Svr
  <2>8. /\ r \in Svr /\ r.alive = svr.alive /\ r.slot = svr.slot
        /\ r.nClients = svr.nClients /\ r.calls = svr.calls /\ r.obj = o
    BY <1>2, <2>4, <2>6 DEF Svr
  <2>9. /\ \A d \in Conns : d # c => o[d] = svr.obj[d]
        /\ o[c].alive = svr.obj[c].alive
        /\ o[c].iParentIdx = svr.obj[c].iParentIdx
        /\ o[c].bConnected = svr.obj[c].bConnected
        /\ o[c].autoDeleteReq = svr.obj[c].autoDeleteReq
        /\ o[c].hSocket = svr.obj[c].hSocket
    BY <1>2, <1>3, <2>3 DEF Svr, Obj
  <2>10. Dimmed(r, svr, c) BY <2>8, <2>9 DEF Dimmed
  <2>11. svr' = Close(c, r) /\ net' = Shut(svr') BY <2>7 DEF Become
  <2>12. busy.who \in {NoConn, c} BY <1>1
  <2>13. CASE r.obj[c].hSocket
    <3>1. IsOpen(c, r) BY <1>3, <2>6, <2>8, <2>13 DEF IsOpen, Obj
    <3> QED BY <1>2, <1>3, <1>4, <2>10, <2>11, <2>12, <3>1, LeaveStep
  <2>14. CASE ~r.obj[c].hSocket
    <3>1. svr.slot[svr.obj[c].iParentIdx] # c
      <4>1. svr.obj[c].hSocket # TRUE BY <2>8, <2>9, <2>14
      <4>2. svr.obj[c].iParentIdx \in Slots BY <1>2, <1>3 DEF Svr, Obj
      <4> QED BY <4>1, <4>2, <1>3 DEF IInv, SInv, TableOK
    <3>2. r.slot[r.obj[c].iParentIdx] = NoConn
      BY <1>2, <2>8, <2>9, <3>1
    <3>3. OnDisconLo(c, r) = r BY <3>2 DEF OnDisconLo
    <3>4. Close(c, r) = r BY <2>14 DEF Close
    <3>5. svr' = OnDisconLo(c, r) BY <2>11, <3>3, <3>4
    <3> QED BY <1>2, <1>3, <1>4, <2>10, <2>11, <2>12, <3>5, LeaveStep
  <2> QED BY <2>13, <2>14
<1> QED BY <1>1, <1>5, <1>6, <1>7 DEF Write

(* TimerEnd keeps the invariant and is one of the kinds of steps. *)
LEMMA TimerEndStep == IInv /\ TimerEnd => IInv' /\ Kind
<1> SUFFICES ASSUME IInv, TimerEnd PROVE IInv' /\ Kind OBVIOUS
<1>1. PICK c : c = busy.who OBVIOUS
<1>2. /\ svr \in Svr /\ TableOK(svr) /\ CountOK(svr) /\ DeadIsEmpty(svr)
      /\ SInv(svr) /\ busy \in BusyType /\ busy.pc = "end"
      /\ busy.who # NoConn /\ svr.obj[c].alive = TRUE
      /\ UnbornOK(net, svr) /\ net \in [Conns -> Net]
      /\ BacklogOK(backlog, net)
  BY <1>1 DEF IInv, SInv, Inside, TimerEnd
<1>3. c \in Conns BY <1>1, <1>2 DEF BusyType
<1>4. /\ busy' = Idle /\ listener' \in ListenerType /\ backlog' = backlog
  BY DEF TimerEnd, IInv
<1>5. \A s : Inside(busy', s) BY <1>4 DEF Inside, Idle, BusyType
<1>6. \A d \in Conns : svr.obj[d].autoDeleteReq \in BOOLEAN
  BY <1>2 DEF Svr, Obj
<1>7. CASE ~svr.obj[c].autoDeleteReq
  <2>1. svr' = svr /\ net' = Shut(svr)
    BY <1>1, <1>7 DEF TimerEnd, Become
  <2>2. net' = net BY <1>2, <2>1, ShutNothing
  <2>3. HandleIsKnown(busy', svr')
    <3>1. InTable(c, svr) BY <1>2, <1>3, <1>7 DEF TableOK
    <3> QED BY <1>1, <2>1, <3>1 DEF IInv, HandleIsKnown
  <2> QED BY <1>2, <1>4, <1>5, <2>1, <2>2, <2>3 DEF IInv, Kind
<1>8. CASE svr.obj[c].autoDeleteReq
  <2>1. PICK o : o = [svr.obj EXCEPT ![c].alive = FALSE, ![c].hSocket = FALSE]
    OBVIOUS
  <2>2. svr' = [svr EXCEPT !.obj = o] /\ net' = Shut(svr')
    BY <1>1, <1>2, <1>3, <1>8, <2>1 DEF TimerEnd, Become, Svr, Obj
  <2>3. /\ o \in [Conns -> Obj]
        /\ \A d \in Conns : d # c => o[d] = svr.obj[d]
        /\ o[c].alive = FALSE /\ o[c].hSocket = FALSE
    BY <1>2, <1>3, <2>1, ZenonT(60) DEF Svr, Obj
  <2>4. /\ svr' \in Svr /\ svr'.alive = svr.alive /\ svr'.slot = svr.slot
        /\ svr'.nClients = svr.nClients /\ svr'.calls = svr.calls
        /\ svr'.obj = o
    BY <1>2, <2>2, <2>3 DEF Svr
  <2>5. \A d \in Conns : InTable(d, svr') <=> InTable(d, svr)
    BY <2>4 DEF InTable
  <2>6. svr.obj[c].autoDeleteReq # FALSE BY <1>8
  <2>7. \A i \in Slots : svr.slot[i] # c BY <1>2, <1>3, <2>6 DEF TableOK
  <2>8. TableOK(svr') BY <1>2, <2>3, <2>4, <2>5, <2>7 DEF TableOK
  <2>9. CountOK(svr') /\ DeadIsEmpty(svr')
    BY <1>2, <2>4 DEF CountOK, DeadIsEmpty, Taken
  <2>10. /\ net' \in [Conns -> Net] /\ BacklogOK(backlog', net')
         /\ \A d \in Conns : net'[d].link \in InBacklog \cup {"none"}
                               => net'[d] = net[d]
    BY <1>2, <1>4, <2>2, ShutKeeps
  <2>11. ~Unborn(c, svr) BY <2>6 DEF Unborn
  <2>12. UnbornOK(net', svr')
    BY <1>2, <2>3, <2>4, <2>10, <2>11 DEF UnbornOK, Unborn
  <2>13. HandleIsKnown(busy', svr')
    BY <1>1, <2>3, <2>4, <2>5 DEF IInv, HandleIsKnown
  <2> QED BY <1>4, <1>5, <2>4, <2>8, <2>9, <2>10, <2>12, <2>13
          DEF IInv, SInv, Kind
<1> QED BY <1>7, <1>8

-----------------------------------------------------------------------------
(* Steps of the listening socket, and the end of the server *)

(* A step that leaves the server and the thread alone. *)
LEMMA OutsideStep ==
  ASSUME IInv, svr' = svr, busy' = busy, listener' \in ListenerType,
         net' \in [Conns -> Net], BacklogOK(backlog', net'),
         \A c \in Conns : net'[c].link \in InBacklog \cup {"none"}
                          => net[c].link \in InBacklog \cup {"none"}
  PROVE  IInv' /\ Kind
<1>1. UnbornOK(net', svr') BY DEF IInv, UnbornOK
<1> QED BY <1>1 DEF IInv, Kind

(* Every client that waits is turned away. *)
TurnedAway == [c \in Conns |-> IF net[c].link \in InBacklog
                               THEN [net[c] EXCEPT !.link = "shut"] ELSE net[c]]

(* The connections that a closed listening socket turns away. *)
LEMMA TurnedAwayFacts ==
  ASSUME net \in [Conns -> Net]
  PROVE  /\ TurnedAway \in [Conns -> Net]
         /\ \A c \in Conns : TurnedAway[c].link \notin InBacklog
         /\ \A c \in Conns : TurnedAway[c].link = "none" => net[c].link = "none"
<1>1. ASSUME NEW c \in Conns
      PROVE  /\ TurnedAway[c] \in Net
             /\ TurnedAway[c].link \notin InBacklog
             /\ TurnedAway[c].link = "none" => net[c].link = "none"
  <2>1. PICK n : n = net[c] OBVIOUS
  <2>2. n \in Net BY <2>1
  <2>3. TurnedAway[c] = IF n.link \in InBacklog
                        THEN [n EXCEPT !.link = "shut"] ELSE n
    BY <2>1 DEF TurnedAway
  <2>4. CASE n.link \in InBacklog
    <3>1. PICK m : m = [n EXCEPT !.link = "shut"] OBVIOUS
    <3>2. m \in Net /\ m.link = "shut" BY <2>2, <3>1 DEF Net, Link
    <3> QED BY <2>3, <2>4, <3>1, <3>2 DEF InBacklog
  <2> QED BY <2>1, <2>2, <2>3, <2>4
<1>2. TurnedAway = [c \in Conns |-> TurnedAway[c]] BY DEF TurnedAway
<1> QED BY <1>1, <1>2

(* An empty backlog is in order. *)
LEMMA EmptyBacklog == ASSUME NEW l PROVE BacklogOK(<<>>, l)
<1>1. <<>> \in Seq(Conns) /\ Len(<<>>) = 0 OBVIOUS
<1>2. 1..0 = {} OBVIOUS
<1> QED BY <1>1, <1>2 DEF BacklogOK

(* ListenError keeps the invariant and is one of the kinds of steps. *)
LEMMA ListenErrorStep == IInv /\ ListenError => IInv' /\ Kind
<1> SUFFICES ASSUME IInv, ListenError PROVE IInv' /\ Kind OBVIOUS
<1>1. net' = TurnedAway BY DEF ListenError, TurnedAway
<1>2. net \in [Conns -> Net] BY DEF IInv
<1>3. /\ net' \in [Conns -> Net]
      /\ \A c \in Conns : net'[c].link \in InBacklog \cup {"none"}
                          => net[c].link \in InBacklog \cup {"none"}
  BY <1>1, <1>2, TurnedAwayFacts
<1>4. BacklogOK(backlog', net') BY EmptyBacklog DEF ListenError
<1>5. listener' \in ListenerType BY DEF ListenError, IInv, ListenerType
<1>6. svr' = svr /\ busy' = busy BY DEF ListenError
<1> QED BY <1>3, <1>4, <1>5, <1>6, OutsideStep

(* AppDelete keeps the invariant and is one of the kinds of steps. *)
LEMMA AppDeleteStep == IInv /\ AppDelete => IInv' /\ Kind
<1> SUFFICES ASSUME IInv, AppDelete PROVE IInv' /\ Kind OBVIOUS
<1>1. /\ svr \in Svr /\ TableOK(svr) /\ net \in [Conns -> Net]
      /\ UnbornOK(net, svr) /\ HandleIsKnown(busy, svr)
  BY DEF IInv, SInv
<1>2. PICK gone : gone = {svr.slot[i] : i \in Taken(svr)} OBVIOUS
<1>3. PICK o : o = [c \in Conns |->
                     IF c \in gone
                     THEN [svr.obj[c] EXCEPT !.alive = FALSE, !.hSocket = FALSE]
                     ELSE svr.obj[c]]
  OBVIOUS
<1>4. PICK e : e = [i \in Slots |-> NoConn] OBVIOUS
<1>5. PICK s : s = [svr EXCEPT !.alive = FALSE, !.slot = e, !.obj = o] OBVIOUS
<1>6. /\ svr' = s /\ busy' = Idle /\ busy = Idle /\ backlog' = <<>>
      /\ net' = [c \in Conns |->
                   IF net[c].link \in InBacklog
                   THEN [net[c] EXCEPT !.link = "shut"] ELSE Shut(s)[c]]
  BY <1>2, <1>3, <1>4, <1>5 DEF AppDelete
<1>7. \A c \in Conns : c \in gone <=> InTable(c, svr)
  <2>1. NoConn \notin Conns BY ConnsAssumption
  <2> QED BY <1>2, <2>1 DEF InTable, Taken
<1>8. ASSUME NEW c \in Conns
      PROVE  /\ o[c] \in Obj
             /\ c \in gone => o[c].alive = FALSE /\ o[c].hSocket = FALSE
             /\ c \notin gone => o[c] = svr.obj[c]
  <2>1. PICK b : b = svr.obj[c] OBVIOUS
  <2>2. b \in Obj BY <1>1, <2>1 DEF Svr
  <2>3. o[c] = IF c \in gone THEN [b EXCEPT !.alive = FALSE, !.hSocket = FALSE]
               ELSE b
    BY <1>3, <2>1
  <2> QED BY <2>1, <2>2, <2>3 DEF Obj
<1>9. /\ s \in Svr /\ s.alive = FALSE /\ s.slot = e /\ s.obj = o
      /\ s.calls = svr.calls
  <2>1. o = [c \in Conns |-> o[c]] BY <1>3
  <2>2. o \in [Conns -> Obj] BY <1>8, <2>1
  <2>3. e \in [Slots -> Conns \cup {NoConn}] BY <1>4
  <2> QED BY <1>1, <1>5, <2>2, <2>3 DEF Svr
<1>10. \A i \in Slots : s.slot[i] = NoConn BY <1>4, <1>9
<1>11. TableOK(s)
  <2> SUFFICES ASSUME NEW c \in Conns
               PROVE  /\ \A i \in Slots : s.slot[i] # c
                      /\ s.obj[c].alive = TRUE => s.obj[c].autoDeleteReq = TRUE
                      /\ s.obj[c].hSocket = TRUE => s.obj[c].alive = TRUE
    BY DEF TableOK
  <2>1. \A i \in Slots : s.slot[i] # c BY <1>10, ConnsAssumption
  <2>2. CASE c \in gone BY <2>1, <2>2, <1>8, <1>9
  <2>3. CASE c \notin gone BY <2>1, <2>3, <1>1, <1>7, <1>8, <1>9 DEF TableOK
  <2> QED BY <2>2, <2>3
<1>12. Taken(s) = {} BY <1>10 DEF Taken
<1>13. SInv(s) BY <1>9, <1>11, <1>12 DEF SInv, CountOK, DeadIsEmpty
<1>14. ASSUME NEW c \in Conns
       PROVE  /\ net'[c] \in Net
              /\ net'[c].link \in InBacklog \cup {"none"}
                   => net[c].link = "none" /\ c \notin gone
  <2>1. PICK n : n = net[c] OBVIOUS
  <2>2. n \in Net BY <1>1, <2>1
  <2>3. PICK m : m = [n EXCEPT !.link = "shut"] OBVIOUS
  <2>4. PICK k : k = [n EXCEPT !.link = "shut", !.inbox = 0] OBVIOUS
  <2>5. m \in Net /\ m.link = "shut" BY <2>2, <2>3 DEF Net, Link
  <2>6. k \in Net /\ k.link = "shut"
    <3>1. k = [link |-> "shut", sent |-> n.sent, inbox |-> 0]
      BY <2>2, <2>4 DEF Net
    <3> QED BY <2>2, <3>1 DEF Net, Link
  <2>7. \/ net'[c] = m \/ net'[c] = k
        \/ net'[c] = n /\ n.link \notin InBacklog
    BY <1>6, <2>1, <2>3, <2>4 DEF Shut
  <2>8. n.link = "none" => c \notin gone
    <3>1. ASSUME n.link = "none" PROVE ~InTable(c, svr)
      <4>1. svr.obj[c].alive = FALSE
        BY <1>1, <2>1, <3>1 DEF UnbornOK, Unborn
      <4> QED BY <1>1, <4>1 DEF InTable, TableOK
    <3> QED BY <1>7, <3>1
  <2> QED BY <2>1, <2>2, <2>5, <2>6, <2>7, <2>8 DEF InBacklog
<1>15. net' \in [Conns -> Net]
  <2>1. net' = [c \in Conns |-> net'[c]] BY <1>6
  <2> QED BY <1>14, <2>1
<1>16. UnbornOK(net', svr')
  BY <1>1, <1>6, <1>8, <1>9, <1>14 DEF UnbornOK, Unborn
<1>17. HandleIsKnown(busy', svr')
  <2> SUFFICES ASSUME NEW c \in Conns, s.obj[c].hSocket = TRUE PROVE FALSE
    BY <1>6 DEF HandleIsKnown
  <2>1. c \notin gone BY <1>8, <1>9
  <2>2. svr.obj[c].hSocket = TRUE BY <1>8, <1>9, <2>1
  <2>3. busy.who # c BY <1>6, ConnsAssumption DEF Idle
  <2> QED BY <1>1, <1>7, <2>1, <2>2, <2>3 DEF HandleIsKnown
<1>18. Inside(busy', svr') BY <1>6 DEF Inside, Idle, BusyType
<1>19. BacklogOK(backlog', net') BY <1>6, EmptyBacklog
<1>20. listener' \in ListenerType BY DEF AppDelete, IInv, ListenerType
<1>21. Kind BY <1>4, <1>6, <1>9 DEF Kind
<1> QED BY <1>6, <1>13, <1>15, <1>16, <1>17, <1>18, <1>19, <1>20, <1>21
        DEF IInv

(* The first of the backlog leaves it. *)
LEMMA BacklogTail ==
  ASSUME NEW l, BacklogOK(backlog, net), backlog # <<>>,
         \A d \in Conns : d # Head(backlog) => l[d] = net[d]
  PROVE  /\ Head(backlog) \in Conns /\ net[Head(backlog)].link \in InBacklog
         /\ BacklogOK(Tail(backlog), l)
<1>1. /\ backlog \in Seq(Conns)
      /\ \A m \in 1..Len(backlog) : net[backlog[m]].link \in InBacklog
      /\ \A m, n \in 1..Len(backlog) : backlog[m] = backlog[n] => m = n
  BY DEF BacklogOK
<1>2. PICK t : t = Tail(backlog) OBVIOUS
<1>3. /\ Len(backlog) >= 1 /\ Head(backlog) = backlog[1]
      /\ t \in Seq(Conns) /\ Len(t) = Len(backlog) - 1
      /\ Len(backlog) \in Nat
      /\ \A m \in 1..Len(t) : t[m] = backlog[m + 1]
  BY <1>1, <1>2
<1>4. Head(backlog) \in Conns /\ net[Head(backlog)].link \in InBacklog
  BY <1>1, <1>3
<1>5. ASSUME NEW m \in 1..Len(t)
      PROVE  /\ m + 1 \in 1..Len(backlog) /\ t[m] = backlog[m + 1]
             /\ t[m] # Head(backlog) /\ t[m] \in Conns
  <2>1. m + 1 \in 1..Len(backlog) /\ 1 \in 1..Len(backlog) /\ m + 1 # 1
    BY <1>3
  <2> QED BY <1>1, <1>3, <2>1
<1>6. ASSUME NEW m \in 1..Len(t) PROVE l[t[m]].link \in InBacklog
  BY <1>1, <1>5
<1>7. ASSUME NEW m \in 1..Len(t), NEW n \in 1..Len(t), t[m] = t[n]
      PROVE  m = n
  <2>1. m + 1 = n + 1 BY <1>1, <1>5, <1>7
  <2> QED BY <2>1, <1>3
<1> QED BY <1>2, <1>3, <1>4, <1>6, <1>7 DEF BacklogOK

(* A client that was accepted enters the table. *)
LEMMA AcceptStep ==
  ASSUME IInv, busy = Idle, svr.alive = TRUE, UNCHANGED busy,
         listener' \in ListenerType, NEW c \in Conns, NEW i \in Slots,
         svr.slot[i] = NoConn, Unborn(c, svr),
         svr' = [svr EXCEPT !.slot[i] = c, !.nClients = @ + 1,
                   !.calls[c].up = @ + 1, !.calls[c].id = i,
                   !.obj[c] = [NewObj EXCEPT !.alive = TRUE, !.hSocket = TRUE,
                                !.bConnected = TRUE, !.iParentIdx = i,
                                !.keepalive = listener.keepalive]],
         net' \in [Conns -> Net], BacklogOK(backlog', net'),
         \A d \in Conns : d # c => net'[d] = net[d],
         net'[c].link \notin InBacklog \cup {"none"}
  PROVE  IInv' /\ Kind
<1>1. /\ svr \in Svr /\ TableOK(svr) /\ CountOK(svr)
      /\ UnbornOK(net, svr) /\ HandleIsKnown(busy, svr)
      /\ listener \in ListenerType /\ c # NoConn
  BY ConnsAssumption DEF IInv, SInv
<1>2. PICK b : b = [NewObj EXCEPT !.alive = TRUE, !.hSocket = TRUE,
                     !.bConnected = TRUE, !.iParentIdx = i,
                     !.keepalive = listener.keepalive]
  OBVIOUS
<1>3. b = [alive |-> TRUE, hSocket |-> TRUE, bConnected |-> TRUE,
           outtaHere |-> FALSE, autoDeleteReq |-> FALSE, iParentIdx |-> i,
           keepalive |-> listener.keepalive, pending |-> FALSE]
  BY <1>2 DEF NewObj
<1>4. b \in Obj BY <1>1, <1>3 DEF Obj, ListenerType
<1>5. PICK o : o = [svr.obj EXCEPT ![c] = b] OBVIOUS
<1>6. PICK l : l = [svr.slot EXCEPT ![i] = c] OBVIOUS
<1>7. PICK k : k = [svr.calls EXCEPT ![c].up = @ + 1, ![c].id = i] OBVIOUS
<1>8. /\ o \in [Conns -> Obj] /\ o[c] = b
      /\ \A d \in Conns : d # c => o[d] = svr.obj[d]
  BY <1>1, <1>4, <1>5 DEF Svr
<1>9. /\ l \in [Slots -> Conns \cup {NoConn}] /\ l[i] = c
      /\ \A j \in Slots : j # i => l[j] = svr.slot[j]
  BY <1>1, <1>6 DEF Svr
<1>10. /\ k \in [Conns -> Calls] /\ k[c].id = i
       /\ \A d \in Conns : d # c => k[d] = svr.calls[d]
       /\ k = [svr.calls EXCEPT ![c].up = 1, ![c].id = i]
  <2>1. svr.calls \in [Conns -> Calls] /\ svr.calls[c].up = 0
    BY <1>1 DEF Svr, Unborn
  <2>2. svr.calls[c].up + 1 = 1 BY <2>1
  <2>3. k = [svr.calls EXCEPT ![c].up = 1, ![c].id = i] BY <1>7, <2>1, <2>2
  <2> QED BY <2>1, <2>3 DEF Calls
<1>11. svr.nClients \in Nat BY <1>1 DEF Svr
<1>12. svr' = [alive |-> svr.alive, slot |-> l, nClients |-> svr.nClients + 1,
               obj |-> o, calls |-> k]
  BY <1>1, <1>2, <1>5, <1>6, <1>7 DEF Svr
<1>13. /\ svr' \in Svr /\ svr'.slot = l /\ svr'.obj = o /\ svr'.calls = k
       /\ svr'.alive = svr.alive /\ svr'.nClients = svr.nClients + 1
  <2>1. PICK a : a = svr.alive OBVIOUS
  <2>2. PICK n : n = svr.nClients + 1 OBVIOUS
  <2>3. a \in BOOLEAN /\ n \in Nat BY <1>1, <1>11, <2>1, <2>2 DEF Svr
  <2>4. PICK s : s = [alive |-> a, slot |-> l, nClients |-> n, obj |-> o,
                      calls |-> k]
    OBVIOUS
  <2>5. svr' = s BY <1>12, <2>1, <2>2, <2>4
  <2>6. s \in Svr BY <1>8, <1>9, <1>10, <2>3, <2>4 DEF Svr
  <2>7. s.slot = l /\ s.obj = o /\ s.calls = k /\ s.alive = a /\ s.nClients = n
    BY <2>4, Zenon
  <2> QED BY <2>1, <2>2, <2>5, <2>6, <2>7
<1>14. ~InTable(c, svr) BY <1>1 DEF Unborn, TableOK, InTable
<1>15. \A d \in Conns : d # c => (InTable(d, svr') <=> InTable(d, svr))
  BY <1>1, <1>9, <1>13, ConnsAssumption DEF InTable
<1>16. InTable(c, svr') BY <1>9, <1>13 DEF InTable
<1>17. TableOK(svr')
  <2>1. PICK s : s = svr' OBVIOUS
  <2>2. s.slot = l /\ s.obj = o /\ s.calls = k BY <1>13, <2>1
  <2>3. InTable(c, s) BY <1>16, <2>1
  <2>4. \A d \in Conns : d # c => (InTable(d, s) <=> InTable(d, svr))
    BY <1>15, <2>1
  <2>5. ASSUME NEW d \in Conns
        PROVE  /\ \A j \in Slots :
                    s.slot[j] = d => /\ s.obj[d].alive = TRUE
                                /\ s.obj[d].hSocket = TRUE
                                /\ s.obj[d].bConnected = TRUE
                                /\ s.obj[d].iParentIdx = j
                                /\ s.obj[d].autoDeleteReq = FALSE
                                /\ s.obj[d].outtaHere = FALSE
                                /\ s.calls[d].id = j
               /\ s.obj[d].alive = TRUE
                    => InTable(d, s) \/ s.obj[d].autoDeleteReq = TRUE
               /\ s.obj[d].hSocket = TRUE => s.obj[d].alive = TRUE
    <3>1. CASE d = c
      <4>1. \A j \in Slots : l[j] = c => j = i BY <1>9, <1>14 DEF InTable
      <4> QED BY <3>1, <4>1, <1>3, <1>8, <1>10, <2>2, <2>3
    <3>2. CASE d # c
      <4>1. \A j \in Slots : l[j] = d => svr.slot[j] = d BY <3>2, <1>9
      <4> QED BY <3>2, <4>1, <1>1, <1>8, <1>10, <2>2, <2>4 DEF TableOK
    <3> QED BY <3>1, <3>2
  <2>6. TableOK(s) BY <2>5, ZenonT(60) DEF TableOK
  <2> QED BY <2>1, <2>6
<1>18. CountOK(svr')
  <2>1. i \notin Taken(svr) BY DEF Taken
  <2>2. Taken(svr') = Taken(svr) \cup {i}
    BY <1>1, <1>9, <1>13 DEF Taken
  <2>3. IsFiniteSet(Taken(svr)) /\ Cardinality(Taken(svr)) \in Nat
    BY TakenFinite
  <2>4. Cardinality(Taken(svr')) = Cardinality(Taken(svr)) + 1
    BY <2>1, <2>2, <2>3, FS_AddElement
  <2> QED BY <1>1, <1>13, <2>4 DEF CountOK
<1>19. DeadIsEmpty(svr') BY <1>13 DEF DeadIsEmpty
<1>20. UnbornOK(net', svr') BY <1>1, <1>8, <1>10, <1>13 DEF UnbornOK, Unborn
<1>21. HandleIsKnown(busy', svr')
  BY <1>1, <1>8, <1>13, <1>15, <1>16 DEF HandleIsKnown
<1>22. Inside(busy', svr') BY DEF Inside, Idle, BusyType
<1>23. Accepted(i, c) BY <1>6, <1>10, <1>13 DEF Accepted
<1> QED BY <1>13, <1>17, <1>18, <1>19, <1>20, <1>21, <1>22, <1>23
        DEF IInv, SInv, Kind

(* ServerTimer keeps the invariant and is one of the kinds of steps. *)
LEMMA ServerTimerStep == IInv /\ ServerTimer => IInv' /\ Kind
<1> SUFFICES ASSUME IInv, ServerTimer PROVE IInv' /\ Kind OBVIOUS
<1>1. /\ svr \in Svr /\ net \in [Conns -> Net] /\ BacklogOK(backlog, net)
      /\ UnbornOK(net, svr) /\ listener \in ListenerType
      /\ Holdoff \in Nat
  BY BoundsAssumption DEF IInv, SInv
<1>2. busy = Idle /\ svr.alive = TRUE /\ UNCHANGED busy
  BY <1>1 DEF ServerTimer, Svr
<1>3. ASSUME listener' \in ListenerType, UNCHANGED <<svr, backlog, net>>
      PROVE  IInv' /\ Kind
  BY <1>1, <1>2, <1>3, OutsideStep
<1>4. CASE Skip
  <2>1. listener' \in ListenerType
    <3>1. PICK h : h = listener.holdoff - 1 OBVIOUS
    <3>2. h \in 0..Holdoff BY <1>1, <1>4, <3>1 DEF Skip, ListenerType
    <3>3. listener' = [listener EXCEPT !.holdoff = h] BY <1>4, <3>1 DEF Skip
    <3> QED BY <1>1, <3>2, <3>3 DEF ListenerType
  <2> QED BY <1>3, <1>4, <2>1 DEF Skip
<1>5. CASE /\ listener' = [listener EXCEPT !.holdoff = Holdoff]
           /\ UNCHANGED <<svr, backlog, net>>
  <2>1. listener' \in ListenerType BY <1>1, <1>5 DEF ListenerType
  <2> QED BY <1>3, <1>5, <2>1
<1>6. ASSUME backlog # <<>>, NEW i \in FreeSlots,
             NEW refused \in {FALSE, "refuse" \in Events},
             svr' = OnAccept(Head(backlog), i, refused),
             net' = [net EXCEPT ![Head(backlog)].link =
               CASE ~(net[Head(backlog)].link # "aborted") \/ refused -> "shut"
                 [] net[Head(backlog)].link # "aborted" /\ ~refused
                    /\ @ = "waiting" -> "up"
                 [] net[Head(backlog)].link # "aborted" /\ ~refused
                    /\ @ = "leaving" -> "eof"],
             listener' = [listener EXCEPT !.holdoff = Holdoff,
                            !.keepalive = @ \/ net[Head(backlog)].link # "aborted"],
             backlog' = Tail(backlog)
      PROVE  IInv' /\ Kind
  <2>1. PICK c : c = Head(backlog) OBVIOUS
  <2>2. c \in Conns /\ net[c].link \in InBacklog
    BY <1>1, <1>6, <2>1, BacklogTail
  <2>3. PICK n : n = net[c] OBVIOUS
  <2>4. n \in Net /\ n.link \in {"waiting", "leaving", "aborted"}
    BY <1>1, <2>2, <2>3 DEF InBacklog
  <2>5. PICK k : k = CASE ~(n.link # "aborted") \/ refused -> "shut"
                       [] n.link # "aborted" /\ ~refused /\ n.link = "waiting"
                          -> "up"
                       [] n.link # "aborted" /\ ~refused /\ n.link = "leaving"
                          -> "eof"
    OBVIOUS
  <2>6. k \in {"shut", "up", "eof"} BY <2>4, <2>5
  <2>7. net' = [net EXCEPT ![c].link = k] BY <1>6, <2>1, <2>3, <2>5
  <2>8. PICK m : m = [n EXCEPT !.link = k] OBVIOUS
  <2>9. m \in Net /\ m.link = k
    <3>1. k \in Link BY <2>6 DEF Link
    <3> QED BY <2>4, <2>8, <3>1 DEF Net
  <2>10. net' = [net EXCEPT ![c] = m] BY <2>3, <2>7, <2>8
  <2>11. /\ net' \in [Conns -> Net] /\ net'[c] = m
         /\ \A d \in Conns : d # c => net'[d] = net[d]
    BY <1>1, <2>2, <2>9, <2>10
  <2>12. net'[c].link \notin InBacklog \cup {"none"}
    BY <2>6, <2>9, <2>11 DEF InBacklog
  <2>13. BacklogOK(backlog', net') BY <1>1, <1>6, <2>1, <2>11, BacklogTail
  <2>14. listener' \in ListenerType
    <3>1. PICK p : p = (listener.keepalive \/ net[c].link # "aborted") OBVIOUS
    <3>2. p \in BOOLEAN BY <3>1
    <3>3. listener' = [listener EXCEPT !.holdoff = Holdoff, !.keepalive = p]
      BY <1>6, <2>1, <3>1
    <3>4. listener' = [started |-> listener.started,
                       hSocket |-> listener.hSocket,
                       holdoff |-> Holdoff, keepalive |-> p]
      BY <1>1, <3>3 DEF ListenerType
    <3>5. Holdoff \in 0..Holdoff BY <1>1
    <3> QED BY <1>1, <3>2, <3>4, <3>5 DEF ListenerType
  <2>15. Unborn(c, svr) BY <1>1, <2>2 DEF UnbornOK
  <2>16. i \in Slots /\ svr.slot[i] = NoConn BY DEF FreeSlots
  <2>17. CASE svr' = svr
    <3>1. \A d \in Conns : net'[d].link \in InBacklog \cup {"none"}
                             => net[d].link \in InBacklog \cup {"none"}
      BY <2>11, <2>12
    <3> QED BY <1>2, <2>11, <2>13, <2>14, <2>17, <3>1, OutsideStep
  <2>18. CASE svr' # svr
    <3>1. svr' = [svr EXCEPT !.slot[i] = c, !.nClients = @ + 1,
                   !.calls[c].up = @ + 1, !.calls[c].id = i,
                   !.obj[c] = [NewObj EXCEPT !.alive = TRUE, !.hSocket = TRUE,
                                !.bConnected = TRUE, !.iParentIdx = i,
                                !.keepalive = listener.keepalive]]
      BY <1>6, <2>1, <2>18 DEF OnAccept
    <3> QED BY <1>2, <2>2, <2>11, <2>12, <2>13, <2>14, <2>15, <2>16, <3>1,
               AcceptStep
  <2> QED BY <2>17, <2>18
<1> QED BY <1>4, <1>5, <1>6 DEF ServerTimer

-----------------------------------------------------------------------------
(* The whole specification *)

(* The invariant holds at the start. *)
LEMMA InitIInv == Init => IInv
<1> SUFFICES ASSUME Init PROVE IInv OBVIOUS
<1>1. /\ MaxClients \in Nat \ {0} /\ Holdoff \in Nat /\ NoConn \notin Conns
      /\ 0 \in Slots
  BY BoundsAssumption, ConnsAssumption DEF Slots
<1>2. PICK s : s = svr OBVIOUS
<1>3. /\ s.alive = TRUE /\ s.nClients = 0
      /\ s.slot = [i \in Slots |-> NoConn]
      /\ s.obj = [c \in Conns |-> NewObj]
      /\ s.calls = [c \in Conns |-> [up |-> 0, rcv |-> 0, down |-> 0, id |-> 0]]
  BY <1>2 DEF Init
<1>4. s \in Svr
  <2>1. NewObj \in Obj BY <1>1 DEF NewObj, Obj
  <2>2. [up |-> 0, rcv |-> 0, down |-> 0, id |-> 0] \in Calls
    BY <1>1 DEF Calls
  <2>3. s.slot \in [Slots -> Conns \cup {NoConn}] BY <1>3
  <2>4. s.obj \in [Conns -> Obj] BY <1>3, <2>1
  <2>5. s.calls \in [Conns -> Calls] BY <1>3, <2>2
  <2>6. PICK l, o, k : l = s.slot /\ o = s.obj /\ k = s.calls OBVIOUS
  <2>7. s = [alive |-> TRUE, slot |-> l, nClients |-> 0, obj |-> o, calls |-> k]
    BY <1>2, <1>3, <2>6 DEF Init
  <2> QED BY <2>3, <2>4, <2>5, <2>6, <2>7 DEF Svr
<1>5. \A c \in Conns : Unborn(c, s) BY <1>3 DEF Unborn, NewObj
<1>6. TableOK(s)
  <2>1. \A c \in Conns : \A i \in Slots : s.slot[i] # c BY <1>1, <1>3
  <2> QED BY <1>5, <2>1 DEF TableOK, Unborn
<1>7. Taken(s) = {} BY <1>3 DEF Taken
<1>8. SInv(s)
  BY <1>3, <1>4, <1>6, <1>7, FS_EmptySet DEF SInv, CountOK, DeadIsEmpty
<1>9. listener \in ListenerType BY <1>1 DEF Init, ListenerType
<1>10. Inside(busy, s) BY DEF Init, Inside, Idle, BusyType
<1>11. HandleIsKnown(busy, s) BY <1>5 DEF HandleIsKnown, Unborn
<1>12. net \in [Conns -> Net]
  <2>1. [link |-> "none", sent |-> 0, inbox |-> 0] \in Net BY DEF Net, Link
  <2> QED BY <2>1 DEF Init
<1>13. BacklogOK(backlog, net) BY EmptyBacklog DEF Init
<1> QED BY <1>2, <1>5, <1>8, <1>9, <1>10, <1>11, <1>12, <1>13
        DEF IInv, UnbornOK

(* Every step keeps the invariant and is of one of the kinds. *)
LEMMA NextStep == IInv /\ [Next]_vars => IInv' /\ Kind
<1> SUFFICES ASSUME IInv, [Next]_vars PROVE IInv' /\ Kind OBVIOUS
<1>1. CASE UNCHANGED vars
  <2>1. \A c \in Conns : net'[c].link \in InBacklog \cup {"none"}
                         => net[c].link \in InBacklog \cup {"none"}
    BY <1>1 DEF vars
  <2>2. /\ svr' = svr /\ busy' = busy /\ listener' \in ListenerType
        /\ net' \in [Conns -> Net] /\ BacklogOK(backlog', net')
    BY <1>1 DEF vars, IInv
  <2> QED BY <2>1, <2>2, OutsideStep
<1>2. CASE StartService \/ ServerTimer \/ ListenError
  BY <1>2, StartServiceStep, ServerTimerStep, ListenErrorStep
<1>3. ASSUME NEW c \in Conns, SockTimer(c) \/ SockError(c)
      PROVE  IInv' /\ Kind
  BY <1>3, SockTimerStep, SockErrorStep
<1>4. CASE RcvDone \/ Write \/ TimerEnd
  BY <1>4, RcvDoneStep, WriteStep, TimerEndStep
<1>5. ASSUME NEW i \in Slots, AppSend(i) \/ AppDisconnect(i)
      PROVE  IInv' /\ Kind
  BY <1>5, AppSendStep, AppDisconnectStep
<1>6. CASE AppSendAll \/ AppDisconnectAll \/ AppDelete
  BY <1>6, AppSendAllStep, AppDisconnectAllStep, AppDeleteStep
<1>7. ASSUME NEW c \in Conns,
             \/ ClientConnect(c) \/ ClientSend(c) \/ ClientClose(c)
             \/ \E how \in {"reset", "broken"} : Lose(c, how)
      PROVE  IInv' /\ Kind
  BY <1>7, ClientConnectStep, ClientSendStep, ClientCloseStep, LoseStep
<1> QED BY <1>1, <1>2, <1>3, <1>4, <1>5, <1>6, <1>7 DEF Next

(* The inductive invariant. *)
LEMMA IInvHolds == Spec => []IInv
<1>1. IInv /\ [Next]_vars => IInv' BY NextStep
<1> QED BY <1>1, InitIInv, PTL DEF Spec

(* Every variable keeps its type, in every run of the server. *)
THEOREM TypeOKHolds == Spec => []TypeOK
<1>1. IInv => TypeOK
  BY DEF IInv, TypeOK, SInv, ListenerType, Inside, BusyType, BacklogOK
<1> QED BY <1>1, IInvHolds, PTL

(* m_nClients is the number of slots taken, though OnAccept counts up in   *)
(* one place and OnDisconLo counts down in another, some of its calls not  *)
(* at all.                                                                 *)
THEOREM ClientCountHolds == Spec => []ClientCount
<1>1. IInv => ClientCount
  BY DEF IInv, SInv, CountOK, ClientCount, Svr
<1> QED BY <1>1, IInvHolds, PTL

(* Table and objects agree: what is in a slot is open and knows its slot,  *)
(* what is in none is waiting to delete itself.                            *)
THEOREM SlotsConsistentHolds == Spec => []SlotsConsistent
<1>1. ASSUME IInv PROVE SlotsConsistent
  <2> SUFFICES ASSUME NEW c \in Conns
               PROVE  /\ \A i \in Slots :
                           svr.slot[i] = c =>
                             /\ svr.obj[c].alive /\ svr.obj[c].hSocket
                             /\ svr.obj[c].bConnected
                             /\ svr.obj[c].iParentIdx = i
                             /\ ~svr.obj[c].autoDeleteReq
                             /\ ~svr.obj[c].outtaHere
                      /\ svr.obj[c].alive
                           => \/ \E i \in Slots : svr.slot[i] = c
                              \/ svr.obj[c].autoDeleteReq
    BY DEF SlotsConsistent
  <2>1. svr \in Svr /\ TableOK(svr) BY <1>1 DEF IInv, SInv
  <2>2. svr.obj[c].alive \in BOOLEAN /\ svr.obj[c].autoDeleteReq \in BOOLEAN
    BY <2>1 DEF Svr, Obj
  <2>3. \A i \in Slots :
          svr.slot[i] = c => /\ svr.obj[c].alive /\ svr.obj[c].hSocket
                             /\ svr.obj[c].bConnected
                             /\ svr.obj[c].iParentIdx = i
                             /\ ~svr.obj[c].autoDeleteReq
                             /\ ~svr.obj[c].outtaHere
    BY <2>1 DEF TableOK
  <2>4. svr.obj[c].alive => \/ \E i \in Slots : svr.slot[i] = c
                            \/ svr.obj[c].autoDeleteReq
    BY <2>1, <2>2 DEF TableOK, InTable
  <2> QED BY <2>3, <2>4
<1> QED BY <1>1, IInvHolds, PTL

(* The thread is never in the OnRcv or before the write event of an object *)
(* whose slot has gone to another client.                                  *)
THEOREM CallerOwnsSlotHolds == Spec => []CallerOwnsSlot
<1>1. IInv => CallerOwnsSlot BY DEF IInv, Inside, CallerOwnsSlot
<1> QED BY <1>1, IInvHolds, PTL

(* Of an object that must delete itself, or whose server is gone, no step  *)
(* makes a callback.                                                       *)
THEOREM ZombieIsSilentHolds == Spec => ZombieIsSilent
<1>1. ASSUME IInv, Kind, NEW c \in Conns, svr.obj[c].autoDeleteReq \/ ~svr.alive
      PROVE  svr'.calls[c] = svr.calls[c]
  <2>1. svr \in Svr /\ SInv(svr) BY <1>1 DEF IInv, SInv
  <2>2. ~InTable(c, svr)
    <3>1. svr.obj[c].autoDeleteReq # FALSE \/ svr.alive # TRUE BY <1>1
    <3> QED BY <2>1, <3>1, InTableFacts
  <2>3. ASSUME NEW S \in SUBSET Slots, Emptied(svr', svr, S)
        PROVE  svr'.calls[c] = svr.calls[c]
    <3>1. ~\E i \in S : svr.slot[i] = c BY <2>2 DEF InTable
    <3> QED BY <2>3, <3>1 DEF Emptied
  <2>4. ASSUME NEW i \in Slots, NEW d \in Conns, Accepted(i, d)
        PROVE  svr'.calls[c] = svr.calls[c]
    <3>1. svr.alive = TRUE /\ svr.obj[d].autoDeleteReq = FALSE
      BY <2>4 DEF Accepted, Unborn
    <3>2. c # d BY <1>1, <3>1
    <3> QED BY <2>1, <2>4, <3>2 DEF Accepted, Svr
  <2>5. ASSUME NEW i \in Slots, NEW d \in Conns, Received(i, d)
        PROVE  svr'.calls[c] = svr.calls[c]
    <3>1. c # d BY <2>2, <2>5 DEF Received, InTable
    <3> QED BY <2>1, <2>5, <3>1 DEF Received, Svr
  <2> QED BY <1>1, <2>3, <2>4, <2>5 DEF Kind
<1>2. IInv /\ [Next]_vars
        => [\A c \in Conns : svr.obj[c].autoDeleteReq \/ ~svr.alive
              => svr'.calls[c] = svr.calls[c]]_vars
  BY <1>1, NextStep
<1> QED BY <1>2, IInvHolds, PTL DEF Spec, ZombieIsSilent

(* GenServer implements ConnRegistry: whatever the clients, TCP and the    *)
(* application do, each step of the server is one of the callbacks that    *)
(* the registry allows, in a slot where it allows it, or none.             *)
THEOREM ImplementsRegistryHolds == Spec => ImplementsRegistry
<1>1. Init => Registry!Init BY DEF Init, Registry!Init
<1>2. ASSUME IInv, Kind PROVE [Registry!Next]_(Registry!vars)
  <2>1. svr \in Svr /\ SInv(svr) BY <1>2 DEF IInv, SInv
  <2>2. ASSUME NEW S \in SUBSET Slots, Emptied(svr', svr, S)
        PROVE  Registry!Next
    <3>1. \A i \in S : svr.slot[i] # NoConn BY <2>2 DEF Emptied, Taken
    <3>2. svr'.slot = [i \in Slots |-> IF i \in S THEN NoConn ELSE svr.slot[i]]
      BY <2>2 DEF Emptied, Svr
    <3>3. svr'.calls = [c \in Conns |->
                         IF \E i \in S : svr.slot[i] = c
                         THEN [svr.calls[c] EXCEPT !.down = @ + 1]
                         ELSE svr.calls[c]]
      BY <2>2 DEF Emptied, Svr
    <3>4. Registry!OnDisconnect(S)
      BY <3>1, <3>2, <3>3 DEF Registry!OnDisconnect
    <3> QED BY <3>4 DEF Registry!Next
  <2>3. ASSUME NEW i \in Slots, NEW c \in Conns, Accepted(i, c)
        PROVE  Registry!Next
    <3>1. Registry!OnConnection(i, c)
      BY <2>3 DEF Accepted, Unborn, Registry!OnConnection
    <3> QED BY <3>1 DEF Registry!Next
  <2>4. ASSUME NEW i \in Slots, NEW c \in Conns, Received(i, c)
        PROVE  Registry!Next
    <3>1. Registry!OnRcv(i, c) BY <2>4 DEF Received, Registry!OnRcv
    <3> QED BY <3>1 DEF Registry!Next
  <2>5. CASE svr'.slot = [i \in Slots |-> NoConn] /\ svr'.calls = svr.calls
    <3>1. Registry!Deleted BY <2>5 DEF Registry!Deleted
    <3> QED BY <3>1 DEF Registry!Next
  <2>6. CASE svr'.slot = svr.slot /\ svr'.calls = svr.calls
    BY <2>6 DEF Registry!vars
  <2> QED BY <1>2, <2>2, <2>3, <2>4, <2>5, <2>6 DEF Kind
<1>3. IInv /\ [Next]_vars => [Registry!Next]_(Registry!vars)
  BY <1>2, NextStep
<1> QED BY <1>1, <1>3, IInvHolds, PTL DEF Spec, ImplementsRegistry, Registry!Spec

-----------------------------------------------------------------------------
(* What no disconnecting does: it deletes no object and no server, and     *)
(* stops no timer.                                                         *)

Held(t, s) ==
  /\ t \in Svr /\ t.alive = s.alive
  /\ \A c \in Conns : /\ t.obj[c].alive = s.obj[c].alive
                      /\ t.obj[c].outtaHere = s.obj[c].outtaHere

(* A server is held by itself, and by what holds what holds it. *)
LEMMA HeldFacts ==
  /\ \A s \in Svr : Held(s, s)
  /\ \A s, t, u : Held(t, s) /\ Held(u, t) => Held(u, s)
BY DEF Held

(* A change to the handle, the sends or the request of one object. *)
LEMMA ObjHeld ==
  ASSUME NEW s \in Svr, NEW c \in Conns, NEW o \in Obj,
         o.alive = s.obj[c].alive, o.outtaHere = s.obj[c].outtaHere
  PROVE  Held([s EXCEPT !.obj[c] = o], s)
<1>1. PICK b : b = [s.obj EXCEPT ![c] = o] OBVIOUS
<1>2. b \in [Conns -> Obj] BY <1>1 DEF Svr
<1>3. [s EXCEPT !.obj[c] = o] = [s EXCEPT !.obj = b] BY <1>1 DEF Svr
<1>4. PICK t : t = [s EXCEPT !.obj = b] OBVIOUS
<1>5. t \in Svr /\ t.alive = s.alive /\ t.obj = b BY <1>2, <1>4 DEF Svr
<1>6. \A d \in Conns : /\ b[d].alive = s.obj[d].alive
                       /\ b[d].outtaHere = s.obj[d].outtaHere
  BY <1>1 DEF Svr
<1> QED BY <1>3, <1>4, <1>5, <1>6 DEF Held

(* OnDisconLo, of whatever connection. *)
LEMMA OnDisconLoHeld ==
  ASSUME NEW s \in Svr, NEW c \in Conns
  PROVE  Held(OnDisconLo(c, s), s)
<1>1. PICK i : i = s.obj[c].iParentIdx OBVIOUS
<1>2. PICK d : d = s.slot[i] OBVIOUS
<1>3. i \in Slots /\ (d \in Conns \/ d = NoConn)
  BY <1>1, <1>2 DEF Svr, Obj
<1>4. CASE OnDisconLo(c, s) = s BY <1>4, HeldFacts
<1>5. CASE /\ d \in Conns
           /\ OnDisconLo(c, s) =
                [s EXCEPT !.nClients = IF @ > 0 THEN @ - 1 ELSE @,
                          !.calls[c].down = @ + 1,
                          !.calls[c].id = i,
                          !.obj[d].autoDeleteReq = TRUE,
                          !.slot[i] = NoConn]
  <2>1. PICK n : n = IF s.nClients > 0 THEN s.nClients - 1 ELSE s.nClients
    OBVIOUS
  <2>2. n \in Nat BY <2>1 DEF Svr
  <2>3. PICK k : k = [s.calls EXCEPT ![c].down = @ + 1, ![c].id = i] OBVIOUS
  <2>4. k \in [Conns -> Calls] BY <1>3, <2>3 DEF Svr, Calls
  <2>5. PICK o : o = [s.obj EXCEPT ![d].autoDeleteReq = TRUE] OBVIOUS
  <2>6. /\ o \in [Conns -> Obj]
        /\ \A e \in Conns : /\ o[e].alive = s.obj[e].alive
                            /\ o[e].outtaHere = s.obj[e].outtaHere
    <3>1. PICK b : b = [s.obj[d] EXCEPT !.autoDeleteReq = TRUE] OBVIOUS
    <3>2. PICK a : a = s.obj[d] OBVIOUS
    <3>3. a \in Obj /\ b = [a EXCEPT !.autoDeleteReq = TRUE]
      BY <1>5, <3>1, <3>2 DEF Svr
    <3>4. b \in Obj /\ b.alive = a.alive /\ b.outtaHere = a.outtaHere
      BY <3>3 DEF Obj
    <3>5. o = [s.obj EXCEPT ![d] = b] BY <2>5, <3>1 DEF Svr
    <3>6. s.obj \in [Conns -> Obj] BY DEF Svr
    <3> QED BY <1>5, <3>2, <3>4, <3>5, <3>6
  <2>7. PICK l : l = [s.slot EXCEPT ![i] = NoConn] OBVIOUS
  <2>8. l \in [Slots -> Conns \cup {NoConn}] BY <2>7 DEF Svr
  <2>9. OnDisconLo(c, s) = [alive |-> s.alive, slot |-> l, nClients |-> n,
                            obj |-> o, calls |-> k]
    BY <1>5, <2>1, <2>3, <2>5, <2>7, ZenonT(60) DEF Svr
  <2> QED BY <2>2, <2>4, <2>6, <2>8, <2>9 DEF Held, Svr
<1> QED BY <1>1, <1>2, <1>3, <1>4, <1>5 DEF OnDisconLo

(* Close, of whatever connection. *)
LEMMA CloseHeld ==
  ASSUME NEW s \in Svr, NEW c \in Conns
  PROVE  Held(Close(c, s), s)
<1>1. CASE ~s.obj[c].hSocket BY <1>1, HeldFacts DEF Close
<1>2. CASE s.obj[c].hSocket
  <2>1. PICK o : o = [s.obj[c] EXCEPT !.hSocket = FALSE] OBVIOUS
  <2>2. PICK b : b = s.obj[c] OBVIOUS
  <2>3. b \in Obj BY <2>2 DEF Svr
  <2>4. o = [b EXCEPT !.hSocket = FALSE] BY <2>1, <2>2
  <2>5. o \in Obj /\ o.alive = b.alive /\ o.outtaHere = b.outtaHere
    BY <2>3, <2>4 DEF Obj
  <2>6. PICK q : q = [s EXCEPT !.obj[c] = o] OBVIOUS
  <2>7. Held(q, s) BY <2>2, <2>5, <2>6, ObjHeld
  <2>8. [s EXCEPT !.obj[c].hSocket = FALSE] = q
    BY <2>1, <2>6 DEF Svr
  <2>9. Close(c, s) = OnDisconLo(c, q) BY <1>2, <2>8 DEF Close
  <2>10. Held(OnDisconLo(c, q), q) BY <2>7, OnDisconLoHeld DEF Held
  <2> QED BY <2>7, <2>9, <2>10, HeldFacts
<1> QED BY <1>1, <1>2

(* disconnect, of whatever slot. *)
LEMMA DisconnectHeld ==
  ASSUME NEW s \in Svr, NEW i \in Slots
  PROVE  Held(Disconnect(i, s), s)
<1>1. PICK c : c = s.slot[i] OBVIOUS
<1>2. CASE c = NoConn BY <1>1, <1>2, HeldFacts DEF Disconnect
<1>3. CASE c # NoConn
  <2>1. c \in Conns BY <1>1, <1>3 DEF Svr
  <2>2. PICK b : b = s.obj[c] OBVIOUS
  <2>3. PICK o : o = [b EXCEPT !.pending = TRUE] OBVIOUS
  <2>4. b \in Obj BY <2>1, <2>2 DEF Svr
  <2>5. o \in Obj /\ o.alive = b.alive /\ o.outtaHere = b.outtaHere
    BY <2>3, <2>4 DEF Obj
  <2>6. PICK q : q = [s EXCEPT !.obj[c] = o] OBVIOUS
  <2>7. Held(q, s) BY <2>1, <2>2, <2>5, <2>6, ObjHeld
  <2>8. [s EXCEPT !.obj[c].pending = TRUE] = q
    BY <2>2, <2>3, <2>6 DEF Svr
  <2>9. Disconnect(i, s) = Close(c, IF s.obj[c].bConnected THEN q ELSE s)
    BY <1>1, <1>3, <2>8 DEF Disconnect
  <2>10. Held(Close(c, q), q) BY <2>1, <2>7, CloseHeld DEF Held
  <2>11. Held(Close(c, s), s) BY <2>1, CloseHeld
  <2> QED BY <2>7, <2>9, <2>10, <2>11, HeldFacts
<1> QED BY <1>2, <1>3

(* DisconnectAllClients. *)
LEMMA DisconnectAllHeld ==
  ASSUME NEW s \in Svr
  PROVE  Held(DisconnectAll(s)[MaxClients], s)
<1>1. PICK f : f = DisconnectAll(s) OBVIOUS
<1>2. Course(f, s, MaxClients) BY <1>1, DisconnectAllDef
<1>3. MaxClients \in Nat BY BoundsAssumption
<1> DEFINE B == {n \in Nat : n <= MaxClients => Held(f[n], s)}
<1>4. 0 \in B
  <2>1. f[0] = s BY <1>2, <1>3 DEF Course
  <2> QED BY <2>1, HeldFacts
<1>5. ASSUME NEW n \in B PROVE n + 1 \in B
  <2>1. SUFFICES ASSUME n + 1 <= MaxClients PROVE Held(f[n + 1], s)
    OBVIOUS
  <2>2. Held(f[n], s) /\ n \in Slots BY <1>3, <2>1 DEF Slots
  <2>3. f[n + 1] = Disconnect(n, f[n])
    <3>1. n + 1 \in 0..MaxClients /\ n + 1 # 0 /\ (n + 1) - 1 = n
      BY <1>3, <2>1
    <3> QED BY <1>2, <3>1 DEF Course
  <2>4. Held(Disconnect(n, f[n]), f[n])
    BY <2>2, DisconnectHeld DEF Held
  <2> QED BY <2>2, <2>3, <2>4, HeldFacts
<1>6. B = Nat
  <2> HIDE DEF B
  <2>1. B \subseteq Nat BY DEF B
  <2> QED BY <1>4, <1>5, <2>1, NatSteps
<1> QED BY <1>1, <1>3, <1>6

-----------------------------------------------------------------------------
(* The end of the objects *)

(* A step of the application. *)
LEMMA AppHeld ==
  ASSUME svr \in Svr,
         \/ \E i \in Slots : AppSend(i) \/ AppDisconnect(i)
         \/ AppSendAll \/ AppDisconnectAll
  PROVE  Held(svr', svr)
<1>1. CASE \E i \in Slots : AppSend(i)
  <2>1. PICK i \in Slots : AppSend(i) BY <1>1
  <2>2. PICK c : c = svr.slot[i] OBVIOUS
  <2>3. c \in Conns BY <2>1, <2>2 DEF AppSend, Taken, Svr
  <2>4. PICK b : b = svr.obj[c] OBVIOUS
  <2>5. b \in Obj BY <2>3, <2>4 DEF Svr
  <2>6. PICK o : o = [b EXCEPT !.pending = @ \/ b.bConnected] OBVIOUS
  <2>7. o \in Obj /\ o.alive = b.alive /\ o.outtaHere = b.outtaHere
    BY <2>5, <2>6 DEF Obj
  <2>8. svr' = [svr EXCEPT !.obj[c] = o]
    BY <2>1, <2>2, <2>4, <2>6 DEF AppSend, Svr
  <2> QED BY <2>3, <2>4, <2>7, <2>8, ObjHeld
<1>2. CASE \E i \in Slots : AppDisconnect(i)
  BY <1>2, DisconnectHeld DEF AppDisconnect, Become
<1>3. CASE AppSendAll
  <2>1. PICK o : o = [c \in Conns |->
               [svr.obj[c] EXCEPT !.pending =
                  \/ @
                  \/ (svr.obj[c].bConnected
                      /\ \E i \in Slots : svr.slot[i] = c)]]
    OBVIOUS
  <2>2. ASSUME NEW c \in Conns
        PROVE  /\ o[c] \in Obj
               /\ o[c].alive = svr.obj[c].alive
               /\ o[c].outtaHere = svr.obj[c].outtaHere
    <3>1. PICK b : b = svr.obj[c] OBVIOUS
    <3>2. b \in Obj BY <3>1 DEF Svr
    <3>3. PICK p \in BOOLEAN : p = (b.bConnected
                                    /\ \E i \in Slots : svr.slot[i] = c)
      OBVIOUS
    <3>4. o[c] = [b EXCEPT !.pending = @ \/ p] BY <2>1, <3>1, <3>3
    <3> QED BY <3>1, <3>2, <3>4 DEF Obj
  <2>3. o = [c \in Conns |-> o[c]] BY <2>1
  <2>4. o \in [Conns -> Obj] BY <2>2, <2>3
  <2>5. svr' = [svr EXCEPT !.obj = o] BY <1>3, <2>1 DEF AppSendAll
  <2>6. svr' \in Svr /\ svr'.alive = svr.alive /\ svr'.obj = o
    BY <2>4, <2>5 DEF Svr
  <2> QED BY <2>2, <2>6 DEF Held
<1>4. CASE AppDisconnectAll
  BY <1>4, DisconnectAllHeld DEF AppDisconnectAll, Become
<1> QED BY <1>1, <1>2, <1>3, <1>4

(* A step of the thread in an object's OnTimer, but for what it writes or  *)
(* ends.                                                                   *)
LEMMA PassHeld ==
  ASSUME svr \in Svr, NEW c \in Conns, SockTimer(c) \/ SockError(c)
  PROVE  Held(svr', svr)
<1>1. CASE SockError(c) BY <1>1, CloseHeld DEF SockError, Become
<1>2. CASE svr' = svr BY <1>2, HeldFacts
<1>3. CASE svr' = [svr EXCEPT !.calls[c].rcv = @ + 1,
                              !.calls[c].id = svr.obj[c].iParentIdx]
  <2>1. PICK k : k = [svr.calls EXCEPT ![c].rcv = @ + 1,
                                       ![c].id = svr.obj[c].iParentIdx]
    OBVIOUS
  <2>2. k \in [Conns -> Calls] BY <2>1 DEF Svr, Calls, Obj
  <2>3. svr' = [svr EXCEPT !.calls = k] BY <1>3, <2>1 DEF Svr
  <2> QED BY <2>2, <2>3 DEF Held, Svr
<1>4. CASE svr' = Close(c, svr) BY <1>4, CloseHeld
<1>5. CASE svr' = OnDisconLo(c, svr) BY <1>5, OnDisconLoHeld
<1> QED BY <1>1, <1>2, <1>3, <1>4, <1>5 DEF SockTimer, DoRcv, Become

(* An object whose timer was stopped. *)
Stopped(c, s) == s.obj[c].alive = TRUE /\ s.obj[c].outtaHere = TRUE

(* No object is stopped but the one that the thread is about to leave. *)
Lingers == \A c \in Conns : Stopped(c, svr) => busy.who = c /\ busy.pc = "end"

(* The write event stops no other object. *)
LEMMA WriteStops ==
  ASSUME svr \in Svr, NEW c \in Conns, busy.who = c, Write
  PROVE  /\ svr'.alive = svr.alive
         /\ \A d \in Conns : d # c /\ Stopped(d, svr') => Stopped(d, svr)
<1>1. CASE svr' = svr BY <1>1
<1>2. CASE \E rest \in BOOLEAN : svr' = [svr EXCEPT !.obj[c].pending = rest]
  <2>1. PICK rest \in BOOLEAN : svr' = [svr EXCEPT !.obj[c].pending = rest]
    BY <1>2
  <2> QED BY <2>1 DEF Svr, Stopped
<1>3. CASE \E aborted \in {FALSE, net[c].link = "broken"} :
             svr' = Close(c, [svr EXCEPT !.obj[c].outtaHere = @ \/ ~aborted])
  <2>1. PICK aborted \in BOOLEAN :
          svr' = Close(c, [svr EXCEPT !.obj[c].outtaHere = @ \/ ~aborted])
    BY <1>3
  <2>2. PICK q : q = [svr EXCEPT !.obj[c].outtaHere = @ \/ ~aborted] OBVIOUS
  <2>3. PICK b : b = svr.obj[c] OBVIOUS
  <2>4. PICK o : o = [b EXCEPT !.outtaHere = @ \/ ~aborted] OBVIOUS
  <2>5. b \in Obj BY <2>3 DEF Svr
  <2>6. o \in Obj BY <2>4, <2>5 DEF Obj
  <2>7. PICK k : k = [svr.obj EXCEPT ![c] = o] OBVIOUS
  <2>8. k \in [Conns -> Obj] BY <2>6, <2>7 DEF Svr
  <2>9. q = [svr EXCEPT !.obj = k] BY <2>2, <2>3, <2>4, <2>7 DEF Svr
  <2>10. q \in Svr /\ q.obj = k /\ q.alive = svr.alive
    BY <2>8, <2>9 DEF Svr
  <2>11. \A d \in Conns : d # c => q.obj[d] = svr.obj[d]
    BY <2>7, <2>10 DEF Svr
  <2>12. Held(svr', q) BY <2>1, <2>2, <2>10, CloseHeld
  <2> QED BY <2>10, <2>11, <2>12 DEF Held, Stopped
<1> QED BY <1>1, <1>2, <1>3 DEF Write, Become

(* What accept makes is not stopped. *)
LEMMA AcceptStops ==
  ASSUME svr \in Svr, ServerTimer
  PROVE  /\ svr'.alive = TRUE => svr.alive = TRUE
         /\ \A d \in Conns : Stopped(d, svr') => Stopped(d, svr)
<1>1. CASE svr' = svr BY <1>1
<1>2. CASE \E c, i :
             svr' = [svr EXCEPT !.slot[i] = c, !.nClients = @ + 1,
                       !.calls[c].up = @ + 1, !.calls[c].id = i,
                       !.obj[c] = [NewObj EXCEPT !.alive = TRUE,
                                     !.hSocket = TRUE, !.bConnected = TRUE,
                                     !.iParentIdx = i,
                                     !.keepalive = listener.keepalive]]
  <2>1. PICK c, i :
             svr' = [svr EXCEPT !.slot[i] = c, !.nClients = @ + 1,
                       !.calls[c].up = @ + 1, !.calls[c].id = i,
                       !.obj[c] = [NewObj EXCEPT !.alive = TRUE,
                                     !.hSocket = TRUE, !.bConnected = TRUE,
                                     !.iParentIdx = i,
                                     !.keepalive = listener.keepalive]]
    BY <1>2
  <2>2. PICK o : o = [NewObj EXCEPT !.alive = TRUE, !.hSocket = TRUE,
                        !.bConnected = TRUE, !.iParentIdx = i,
                        !.keepalive = listener.keepalive]
    OBVIOUS
  <2>3. o.outtaHere = FALSE BY <2>2 DEF NewObj
  <2>4. svr'.alive = svr.alive /\ svr'.obj = [svr.obj EXCEPT ![c] = o]
    BY <2>1, <2>2 DEF Svr
  <2>5. \A d \in Conns : svr'.obj[d] = IF d = c THEN o ELSE svr.obj[d]
    BY <2>4 DEF Svr
  <2> QED BY <2>3, <2>4, <2>5 DEF Stopped
<1>3. svr' = svr \/ \E c, i, refused : svr' = OnAccept(c, i, refused)
  BY DEF ServerTimer, Skip
<1> QED BY <1>1, <1>2, <1>3, ZenonT(60) DEF OnAccept

(* A step from a state where no object is stopped stops at most the one    *)
(* that the thread then leaves.                                            *)
LEMMA HeldLingers ==
  ASSUME Held(svr', svr), \A c \in Conns : ~Stopped(c, svr)
  PROVE  Lingers'
BY DEF Held, Lingers, Stopped

(* The step that ends the pass of an object: one that was stopped is in no *)
(* slot, hence deletes itself.                                             *)
LEMMA TimerEndLingers == IInv /\ Lingers /\ TimerEnd => Lingers'
<1> SUFFICES ASSUME IInv, Lingers, TimerEnd PROVE Lingers' OBVIOUS
<1>1. PICK c : c = busy.who OBVIOUS
<1>2. busy.pc = "end" /\ svr \in Svr /\ TableOK(svr)
  BY DEF TimerEnd, IInv, SInv
<1>3. c \in Conns BY <1>1, <1>2 DEF IInv, Inside, BusyType
<1>4. Stopped(c, svr) => svr.obj[c].autoDeleteReq = TRUE
  <2>1. Stopped(c, svr) => ~InTable(c, svr)
    BY <1>2, <1>3 DEF Stopped, TableOK, InTable
  <2> QED BY <1>2, <1>3, <2>1 DEF Stopped, TableOK
<1>5. \A d \in Conns : d # c => ~Stopped(d, svr) BY <1>1 DEF Lingers
<1>6. PICK b : b = svr.obj[c] OBVIOUS
<1>7. PICK o : o = [b EXCEPT !.alive = FALSE, !.hSocket = FALSE] OBVIOUS
<1>8. b \in Obj BY <1>2, <1>3, <1>6 DEF Svr
<1>9. o.alive = FALSE BY <1>7, <1>8 DEF Obj
<1>10. svr' = IF b.autoDeleteReq
              THEN [svr EXCEPT !.obj = [@ EXCEPT ![c] = o]] ELSE svr
  BY <1>1, <1>2, <1>3, <1>6, <1>7 DEF TimerEnd, Become, Svr
<1>11. svr'.obj = IF b.autoDeleteReq THEN [svr.obj EXCEPT ![c] = o]
                  ELSE svr.obj
  BY <1>2, <1>10 DEF Svr
<1>12. ~Stopped(c, svr')
  BY <1>2, <1>3, <1>4, <1>6, <1>9, <1>11 DEF Stopped, Svr
<1>13. \A d \in Conns : d # c => ~Stopped(d, svr')
  BY <1>2, <1>5, <1>11 DEF Stopped, Svr
<1> QED BY <1>12, <1>13 DEF Lingers

(* Deleting the server stops nobody. *)
LEMMA AppDeleteStops ==
  ASSUME svr \in Svr, AppDelete, NEW c \in Conns, Stopped(c, svr')
  PROVE  Stopped(c, svr)
<1>1. PICK gone : gone = {svr.slot[i] : i \in Taken(svr)} OBVIOUS
<1>2. PICK o : o = [d \in Conns |->
                     IF d \in gone
                     THEN [svr.obj[d] EXCEPT !.alive = FALSE, !.hSocket = FALSE]
                     ELSE svr.obj[d]]
  OBVIOUS
<1>3. svr'.obj = o BY <1>1, <1>2 DEF AppDelete, Svr
<1>4. PICK b : b = svr.obj[c] OBVIOUS
<1>5. b \in Obj BY <1>4 DEF Svr
<1>6. o[c] = IF c \in gone THEN [b EXCEPT !.alive = FALSE, !.hSocket = FALSE]
             ELSE b
  BY <1>2, <1>4
<1> QED BY <1>3, <1>4, <1>5, <1>6 DEF Stopped, Obj

(* Every step keeps Lingers. *)
LEMMA LingersStep == IInv /\ Lingers /\ [Next]_vars => Lingers'
<1> SUFFICES ASSUME IInv, Lingers, [Next]_vars PROVE Lingers' OBVIOUS
<1>1. svr \in Svr BY DEF IInv, SInv
<1>2. busy.pc # "end" => \A c \in Conns : ~Stopped(c, svr)
  BY DEF Lingers
<1>3. CASE svr' = svr /\ busy' = busy BY <1>3 DEF Lingers, Stopped
<1>4. CASE StartService \/ ListenError
  BY <1>3, <1>4 DEF StartService, ListenError
<1>5. CASE ServerTimer
  <2>1. busy.pc # "end" BY <1>5 DEF ServerTimer, Idle
  <2> QED BY <1>1, <1>2, <1>5, <2>1, AcceptStops DEF Lingers
<1>6. ASSUME NEW c \in Conns, SockTimer(c) \/ SockError(c) PROVE Lingers'
  <2>1. busy = Idle BY <1>6 DEF SockTimer, SockError
  <2>2. Held(svr', svr) BY <1>1, <1>6, PassHeld
  <2>3. busy.pc # "end" BY <2>1 DEF Idle
  <2> QED BY <1>2, <2>2, <2>3, HeldLingers
<1>7. CASE RcvDone
  <2>1. busy.pc # "end" /\ svr' = svr BY <1>7 DEF RcvDone
  <2> QED BY <1>2, <2>1 DEF Lingers
<1>8. CASE Write
  <2>1. busy.pc = "write" /\ busy' = [busy EXCEPT !.pc = "end"]
    BY <1>8 DEF Write
  <2>2. PICK c : c = busy.who OBVIOUS
  <2>3. busy \in BusyType /\ c \in Conns
    BY <2>1, <2>2 DEF IInv, Inside, BusyType
  <2>4. busy'.who = c /\ busy'.pc = "end" BY <2>1, <2>2, <2>3 DEF BusyType
  <2>5. \A d \in Conns : d # c /\ Stopped(d, svr') => Stopped(d, svr)
    BY <1>1, <1>8, <2>2, <2>3, WriteStops
  <2>6. \A d \in Conns : ~Stopped(d, svr) BY <1>2, <2>1
  <2> QED BY <2>4, <2>5, <2>6 DEF Lingers
<1>9. CASE TimerEnd BY <1>9, TimerEndLingers
<1>10. CASE \/ \E i \in Slots : AppSend(i) \/ AppDisconnect(i)
            \/ AppSendAll \/ AppDisconnectAll
  <2>1. busy.pc # "end"
    BY <1>10 DEF AppSend, AppDisconnect, AppSendAll, AppDisconnectAll, AppCanCall
  <2>2. Held(svr', svr) BY <1>1, <1>10, AppHeld
  <2> QED BY <1>2, <2>1, <2>2, HeldLingers
<1>11. CASE AppDelete
  <2>1. busy.pc # "end" BY <1>11 DEF AppDelete, Idle
  <2> QED BY <1>1, <1>2, <1>11, <2>1, AppDeleteStops DEF Lingers
<1>12. CASE \E c \in Conns : \/ ClientConnect(c) \/ ClientSend(c)
                             \/ ClientClose(c)
                             \/ \E how \in {"reset", "broken"} : Lose(c, how)
  BY <1>3, <1>12 DEF ClientConnect, ClientSend, ClientClose, Lose
<1>13. CASE UNCHANGED vars BY <1>3, <1>13 DEF vars
<1> QED BY <1>4, <1>5, <1>6, <1>7, <1>8, <1>9, <1>10, <1>11, <1>12, <1>13
        DEF Next

(* No run stops an object that it then keeps. *)
LEMMA LingersHolds == Spec => []Lingers
<1>1. Init => Lingers BY DEF Init, Lingers, Stopped, NewObj
<1>2. IInv /\ Lingers /\ [Next]_vars => Lingers' BY LingersStep
<1> QED BY <1>1, <1>2, IInvHolds, PTL DEF Spec

(* The safety half of ZombieIsDeleted.  An object whose timer a failing    *)
(* send has stopped (m_b_I_Am_So_Outta_Here) gets no further pass, so it   *)
(* must go at the end of this one: the thread is at that end, and the      *)
(* object has been asked to delete itself.                                 *)
StoppedIsDeleted ==
  \A c \in Conns : Stopped(c, svr) =>
    busy.who = c /\ busy.pc = "end" /\ svr.obj[c].autoDeleteReq = TRUE

(* No object is left with its timer stopped. *)
THEOREM StoppedIsDeletedHolds == Spec => []StoppedIsDeleted
<1>1. ASSUME IInv, Lingers PROVE StoppedIsDeleted
  <2> SUFFICES ASSUME NEW c \in Conns, Stopped(c, svr)
               PROVE  svr.obj[c].autoDeleteReq = TRUE
    BY <1>1 DEF StoppedIsDeleted, Lingers
  <2>1. TableOK(svr) BY <1>1 DEF IInv, SInv
  <2>2. ~InTable(c, svr) BY <2>1 DEF Stopped, TableOK, InTable
  <2> QED BY <2>1, <2>2 DEF Stopped, TableOK
<1> QED BY <1>1, IInvHolds, LingersHolds, PTL

-----------------------------------------------------------------------------
(* The callbacks in pairs *)

(* A server that was deleted stays deleted. *)
LEMMA DeadStays == IInv /\ [Next]_vars => (svr'.alive => svr.alive)
<1> SUFFICES ASSUME IInv, [Next]_vars PROVE svr'.alive => svr.alive OBVIOUS
<1>1. svr \in Svr BY DEF IInv, SInv
<1>2. CASE svr'.alive = svr.alive BY <1>2
<1>3. CASE svr.alive BY <1>3
<1>4. CASE StartService \/ ServerTimer \/ ListenError \/ AppDelete
  BY <1>3, <1>4 DEF StartService, ServerTimer, ListenError, AppDelete
<1>5. ASSUME NEW c \in Conns, SockTimer(c) \/ SockError(c)
      PROVE  svr'.alive = svr.alive
  BY <1>1, <1>5, PassHeld DEF Held
<1>6. CASE RcvDone BY <1>2, <1>6 DEF RcvDone
<1>7. CASE Write
  <2>1. busy.who \in Conns BY <1>7 DEF Write, IInv, Inside, BusyType
  <2>2. svr'.alive = svr.alive BY <1>1, <1>7, <2>1, WriteStops
  <2> QED BY <2>2
<1>8. CASE TimerEnd
  <2>1. svr'.alive = svr.alive
    BY <1>1, <1>8 DEF TimerEnd, Become, Svr
  <2> QED BY <2>1
<1>9. CASE \/ \E i \in Slots : AppSend(i) \/ AppDisconnect(i)
           \/ AppSendAll \/ AppDisconnectAll
  <2>1. svr'.alive = svr.alive BY <1>1, <1>9, AppHeld DEF Held
  <2> QED BY <2>1
<1>10. CASE \E c \in Conns : \/ ClientConnect(c) \/ ClientSend(c)
                             \/ ClientClose(c)
                             \/ \E how \in {"reset", "broken"} : Lose(c, how)
  BY <1>2, <1>10 DEF ClientConnect, ClientSend, ClientClose, Lose
<1>11. CASE UNCHANGED vars BY <1>2, <1>11 DEF vars
<1> QED BY <1>4, <1>5, <1>6, <1>7, <1>8, <1>9, <1>10, <1>11 DEF Next

(* OnConnection and OnDisconnect come at most once for a connection, and   *)
(* in pairs: of a connection in the table only the first was called, of    *)
(* one that is not in the table both or neither, unless the server was     *)
(* deleted with the connection in it.                                      *)
PairedOf(c, s) ==
  LET n == s.calls[c] IN
  /\ n.up \in {0, 1} /\ n.down \in {0, n.up}
  /\ InTable(c, s) => n.up = 1 /\ n.down = 0
  /\ s.alive /\ ~InTable(c, s) => n.down = n.up

CallbacksArePaired == \A c \in Conns : PairedOf(c, svr)

(* Every step keeps the callbacks of a connection paired. *)
LEMMA PairedStep ==
  ASSUME IInv, Kind, svr'.alive => svr.alive, SInv(svr'),
         NEW c \in Conns, PairedOf(c, svr)
  PROVE  PairedOf(c, svr')
<1>1. svr \in Svr /\ SInv(svr) /\ svr' \in Svr BY DEF IInv, SInv
<1>2. CASE svr'.slot = svr.slot /\ svr'.calls = svr.calls
  BY <1>2 DEF PairedOf, InTable
<1>3. CASE /\ svr'.slot = [i \in Slots |-> NoConn] /\ svr'.calls = svr.calls
           /\ svr'.alive = FALSE
  <2>1. ~InTable(c, svr')
    BY <1>3, ConnsAssumption DEF InTable
  <2> QED BY <1>3, <2>1 DEF PairedOf
<1>4. ASSUME NEW i \in Slots, NEW d \in Conns, Received(i, d)
      PROVE  PairedOf(c, svr')
  <2>1. InTable(c, svr') <=> InTable(c, svr) BY <1>4 DEF Received, InTable
  <2>2. InTable(d, svr) BY <1>4 DEF Received, InTable
  <2>3. svr.alive = TRUE BY <1>1, <2>2, InTableFacts
  <2>4. /\ svr'.calls[c].up = svr.calls[c].up
        /\ svr'.calls[c].down = svr.calls[c].down
    BY <1>1, <1>4 DEF Received, Svr, Calls
  <2> QED BY <2>1, <2>3, <2>4 DEF PairedOf
<1>5. ASSUME NEW i \in Slots, NEW d \in Conns, Accepted(i, d)
      PROVE  PairedOf(c, svr')
  <2>1. CASE c = d
    <3>1. svr.calls[c].up = 0 BY <1>5, <2>1 DEF Accepted, Unborn
    <3>2. svr.calls[c].down = 0 BY <3>1 DEF PairedOf
    <3>3. svr'.calls[c].up = 1 /\ svr'.calls[c].down = 0
      BY <1>1, <1>5, <2>1, <3>2 DEF Accepted, Svr, Calls
    <3>4. InTable(c, svr')
      BY <1>1, <1>5, <2>1 DEF Accepted, InTable, Svr
    <3> QED BY <3>3, <3>4 DEF PairedOf
  <2>2. CASE c # d
    <3>1. svr'.calls[c] = svr.calls[c] BY <1>1, <1>5, <2>2 DEF Accepted, Svr
    <3>2. InTable(c, svr') <=> InTable(c, svr)
      BY <1>1, <1>5, <2>2, ConnsAssumption DEF Accepted, InTable, Svr
    <3>3. svr.alive = TRUE BY <1>5 DEF Accepted
    <3> QED BY <3>1, <3>2, <3>3 DEF PairedOf
  <2> QED BY <2>1, <2>2
<1>6. ASSUME NEW S \in SUBSET Slots, Emptied(svr', svr, S)
      PROVE  PairedOf(c, svr')
  <2>1. \A i \in Slots : svr'.slot[i] = IF i \in S THEN NoConn ELSE svr.slot[i]
    BY <1>6 DEF Emptied
  <2>2. CASE \E i \in S : svr.slot[i] = c
    <3>1. PICK i \in S : svr.slot[i] = c BY <2>2
    <3>2. InTable(c, svr) BY <3>1 DEF InTable
    <3>3. svr.calls[c].up = 1 /\ svr.calls[c].down = 0
      BY <3>2 DEF PairedOf
    <3>4. svr'.calls[c].up = 1 /\ svr'.calls[c].down = 1
      <4>1. svr'.calls[c] = [svr.calls[c] EXCEPT !.down = @ + 1]
        BY <1>6, <2>2 DEF Emptied
      <4> QED BY <1>1, <3>3, <4>1 DEF Svr, Calls
    <3>5. \A j \in Slots : svr.slot[j] = c => j = i
      BY <1>1, <3>1 DEF SInv, TableOK
    <3>6. ~InTable(c, svr')
      BY <2>1, <3>1, <3>5, ConnsAssumption DEF InTable
    <3> QED BY <3>4, <3>6 DEF PairedOf
  <2>3. CASE \A i \in S : svr.slot[i] # c
    <3>1. svr'.calls[c] = svr.calls[c] /\ svr'.alive = svr.alive
      BY <1>6, <2>3 DEF Emptied
    <3>2. InTable(c, svr') <=> InTable(c, svr)
      BY <2>1, <2>3, ConnsAssumption DEF InTable
    <3> QED BY <3>1, <3>2 DEF PairedOf
  <2> QED BY <2>2, <2>3
<1> QED BY <1>2, <1>3, <1>4, <1>5, <1>6 DEF Kind

(* No client is reported as connected twice, none as gone that was not     *)
(* reported, and of none that left the table is the report still missing,  *)
(* in whatever order sends fail, clients vanish and the application        *)
(* disconnects.                                                            *)
THEOREM CallbacksArePairedHolds == Spec => []CallbacksArePaired
<1>1. Init => CallbacksArePaired
  <2> SUFFICES ASSUME Init, NEW c \in Conns PROVE PairedOf(c, svr)
    BY DEF CallbacksArePaired
  <2>1. ~InTable(c, svr) BY ConnsAssumption DEF Init, InTable
  <2>2. svr.calls[c].up = 0 /\ svr.calls[c].down = 0 BY DEF Init
  <2> QED BY <2>1, <2>2 DEF PairedOf
<1>2. IInv /\ CallbacksArePaired /\ [Next]_vars => CallbacksArePaired'
  <2> SUFFICES ASSUME IInv, CallbacksArePaired, [Next]_vars, NEW c \in Conns
               PROVE  PairedOf(c, svr')
    BY DEF CallbacksArePaired
  <2>1. IInv' /\ Kind BY NextStep
  <2>2. SInv(svr') BY <2>1 DEF IInv
  <2>3. svr'.alive => svr.alive BY DeadStays
  <2>4. PairedOf(c, svr) BY DEF CallbacksArePaired
  <2> QED BY <2>1, <2>2, <2>3, <2>4, PairedStep
<1> QED BY <1>1, <1>2, IInvHolds, PTL DEF Spec

(* Between two passes every open handle belongs to an object in a slot,    *)
(* where disconnect and the destructor of the server find it: no handle is *)
(* left open with nobody to close it.                                      *)
NoHandleLeaks ==
  busy = Idle => \A c \in Conns : IsOpen(c, svr) => InTable(c, svr)

(* No socket is leaked. *)
THEOREM NoHandleLeaksHolds == Spec => []NoHandleLeaks
<1>1. IInv => NoHandleLeaks BY OpenIsInTable DEF NoHandleLeaks
<1> QED BY <1>1, IInvHolds, PTL
=============================================================================
