----------------------------- MODULE GenServer -----------------------------
(***************************************************************************)
(* CGenSvr2 and the CClientSock objects it makes: the table of slots, the  *)
(* listening socket and its timer, the timer of every object, the calls    *)
(* the application makes, and clients that connect, send, leave and vanish.*)
(*                                                                         *)
(* The server process has one thread.  busy says where it is: in its       *)
(* message loop, or in the OnTimer of one object, at the application's     *)
(* OnRcv ("rcv"), before the write event ("write") or after the polling    *)
(* pass ("end").  The clients and TCP run between any two of these.        *)
(*                                                                         *)
(* An object is named by the connection it was made for.  What a           *)
(* connection does with bytes is in GenSock; here a client's messages are  *)
(* counted, and of a send buffer it is known whether anything is pending.  *)
(* The tag that OnConnection returns is the same for every client in this  *)
(* application, so OnDisconLo's comparison of tags always succeeds.        *)
(***************************************************************************)
EXTENDS Integers, Sequences, FiniteSets

CONSTANTS Conns,        \* the connections clients may make
          NoConn,       \* NULL in a slot
          MaxClients,   \* the size of m_C
          Backlog,      \* nConnectionBacklog of Listen
          Holdoff,      \* timer calls skipped after one that reported a read
          MaxSends,     \* bound: messages a client sends
          Events        \* which of the events in Disturbance may happen

Disturbance == {"refuse", "reset", "broken", "delete", "selectError"}

ASSUME ConnsAssumption  == IsFiniteSet(Conns) /\ NoConn \notin Conns
ASSUME BoundsAssumption == /\ MaxClients \in Nat \ {0}
                           /\ Backlog \in Nat \ {0}
                           /\ Holdoff \in Nat
                           /\ MaxSends \in Nat
ASSUME EventsAssumption == Events \subseteq Disturbance

Slots == 0 .. MaxClients - 1

VARIABLES svr,       \* the table, m_nClients, the objects, the callbacks made
          listener,  \* the listening socket
          busy,      \* where the server's thread is
          backlog,   \* Seq(Conns): TCP has connected them, not accepted yet
          net        \* [Conns -> what TCP and the client are up to]

vars == <<svr, listener, busy, backlog, net>>

-----------------------------------------------------------------------------
(* Data *)

Obj == [alive : BOOLEAN,          \* constructed and not deleted
        hSocket : BOOLEAN,        \* m_hSocket is a socket
        bConnected : BOOLEAN,     \* m_bConnected
        outtaHere : BOOLEAN,      \* m_b_I_Am_So_Outta_Here
        autoDeleteReq : BOOLEAN,  \* m_bAutoDeleteReq
        iParentIdx : Slots,       \* m_iParentIdx
        keepalive : BOOLEAN,      \* SO_KEEPALIVE on its socket
        pending : BOOLEAN]        \* m_sendNPending # 0

(* The calls of OnConnection, OnRcv and OnDisconnect about a connection,   *)
(* and the client id in the last of them.                                  *)
Calls == [up : Nat, rcv : Nat, down : Nat, id : Slots]

Svr == [alive : BOOLEAN, slot : [Slots -> Conns \cup {NoConn}],
        nClients : Nat, obj : [Conns -> Obj], calls : [Conns -> Calls]]

Idle == [who |-> NoConn, pc |-> "idle", needWrite |-> FALSE]

(* The link of a connection: in the backlog, where the client may have     *)
(* closed its end or given up; up; closed by the client, which is read     *)
(* after the messages in flight; reset or otherwise broken; closed by the  *)
(* server.                                                                 *)
InBacklog == {"waiting", "leaving", "aborted"}
Link == InBacklog \cup {"none", "up", "eof", "reset", "broken", "shut"}
Net  == [link : Link, sent : Nat, inbox : Nat]

(* The constructor, before any Accept. *)
NewObj == [alive |-> FALSE, hSocket |-> FALSE, bConnected |-> FALSE,
           outtaHere |-> FALSE, autoDeleteReq |-> FALSE, iParentIdx |-> 0,
           keepalive |-> FALSE, pending |-> FALSE]

Init ==
  /\ svr = [alive |-> TRUE, slot |-> [i \in Slots |-> NoConn], nClients |-> 0,
            obj |-> [c \in Conns |-> NewObj],
            calls |-> [c \in Conns |->
                         [up |-> 0, rcv |-> 0, down |-> 0, id |-> 0]]]
  /\ listener = [started |-> FALSE, hSocket |-> FALSE, holdoff |-> 0,
                 keepalive |-> FALSE]
  /\ busy = Idle
  /\ backlog = <<>>
  /\ net = [c \in Conns |-> [link |-> "none", sent |-> 0, inbox |-> 0]]

FreeSlots == {i \in Slots : svr.slot[i] = NoConn}
Taken(s)  == {i \in Slots : s.slot[i] # NoConn}

-----------------------------------------------------------------------------
(* Disconnecting *)

(* Mutants: OnDisconLo does not look at the slot; it leaves the count; it  *)
(* does not ask for deletion.                                              *)
OnDisconLoTwice(c, s) ==
  [s EXCEPT !.nClients = @ - 1,
            !.calls[c].down = @ + 1, !.calls[c].id = s.obj[c].iParentIdx,
            !.obj[c].autoDeleteReq = TRUE,
            !.slot[s.obj[c].iParentIdx] = NoConn]
OnDisconLoKeepsCount(c, s) ==
  IF s.slot[s.obj[c].iParentIdx] = NoConn THEN s
  ELSE [OnDisconLoTwice(c, s) EXCEPT !.nClients = s.nClients]
OnDisconLoKeepsObj(c, s) ==
  IF s.slot[s.obj[c].iParentIdx] = NoConn THEN s
  ELSE [OnDisconLoTwice(c, s) EXCEPT !.obj[c].autoDeleteReq = FALSE]

(* CClientSock::OnClose of object c and OnDisconLo in server s.  A slot    *)
(* that is empty, or whose object has another index, is left alone.  Else  *)
(* OnDisconnect is called with the index and the tag of c, the object in   *)
(* the slot is told to delete itself, and the slot is emptied.             *)
OnDisconLo(c, s) ==
  LET i == s.obj[c].iParentIdx
      d == s.slot[i]
  IN
  IF d = NoConn THEN s
  ELSE IF s.obj[d].iParentIdx # i THEN s
  ELSE [s EXCEPT !.nClients = IF @ > 0 THEN @ - 1 ELSE @,
                 !.calls[c].down = @ + 1,
                 !.calls[c].id = i,
                 !.obj[d].autoDeleteReq = TRUE,
                 !.slot[i] = NoConn]

(* Mutants: Close keeps the handle, or does not call OnClose. *)
CloseKeepsHandle(c, s)  == IF s.obj[c].hSocket THEN OnDisconLo(c, s) ELSE s
CloseWithoutCall(c, s)  == [s EXCEPT !.obj[c].hSocket = FALSE]

Close(c, s) ==
  IF s.obj[c].hSocket
  THEN OnDisconLo(c, [s EXCEPT !.obj[c].hSocket = FALSE])
  ELSE s

(* disconnect: the notice is enqueued and the socket closed at once, so    *)
(* the notice never leaves.                                                *)
Disconnect(i, s) ==
  LET c == s.slot[i] IN
  IF c = NoConn THEN s
  ELSE Close(c, IF s.obj[c].bConnected THEN [s EXCEPT !.obj[c].pending = TRUE]
                ELSE s)

(* Server s after disconnect was called for the slots below n. *)
DisconnectAll(s) ==
  LET after[n \in 0..MaxClients] ==
        IF n = 0 THEN s ELSE Disconnect(n - 1, after[n - 1])
  IN after

(* The links of the sockets that s has closed. *)
Shut(s) == [c \in Conns |->
              IF svr.obj[c].hSocket /\ ~s.obj[c].hSocket
              THEN [net[c] EXCEPT !.link = "shut", !.inbox = 0] ELSE net[c]]

(* The server becomes s. *)
Become(s) == svr' = s /\ net' = Shut(s)

-----------------------------------------------------------------------------
(* The listening socket *)

(* StartService, called once: Create and Listen succeed, or one of them    *)
(* fails and there is no service.                                          *)
StartService ==
  /\ svr.alive /\ busy = Idle
  /\ ~listener.started
  /\ \E ok \in BOOLEAN :
       listener' = [listener EXCEPT !.started = TRUE, !.hSocket = ok]
  /\ UNCHANGED <<svr, busy, backlog, net>>

(* Mutants: a failed accept leaves its object in the slot; a new object is *)
(* not told its slot; a refused client is counted.                         *)
OnAcceptKeepsSlot(c, i, refused) ==
  IF net[c].link = "aborted"
  THEN [svr EXCEPT !.slot[i] = c, !.obj[c].alive = TRUE]
  ELSE [svr EXCEPT !.slot[i] = c, !.nClients = @ + 1,
                   !.calls[c].up = @ + 1, !.calls[c].id = i,
                   !.obj[c] = [NewObj EXCEPT !.alive = TRUE, !.hSocket = TRUE,
                                !.bConnected = TRUE, !.iParentIdx = i]]
OnAcceptWithoutIdx(c, i, refused) ==
  [svr EXCEPT !.slot[i] = c, !.nClients = @ + 1,
              !.calls[c].up = @ + 1, !.calls[c].id = i,
              !.obj[c] = [NewObj EXCEPT !.alive = TRUE, !.hSocket = TRUE,
                           !.bConnected = TRUE]]
OnAcceptCountsRefused(c, i, refused) ==
  IF net[c].link = "aborted" THEN svr
  ELSE IF refused THEN [svr EXCEPT !.nClients = @ + 1]
  ELSE [svr EXCEPT !.slot[i] = c, !.nClients = @ + 1,
                   !.calls[c].up = @ + 1, !.calls[c].id = i,
                   !.obj[c] = [NewObj EXCEPT !.alive = TRUE, !.hSocket = TRUE,
                                !.bConnected = TRUE, !.iParentIdx = i]]

(* OnAccept of connection c into slot i.  An accept that fails and an      *)
(* OnConnection that refuses delete the new object.  A socket from accept  *)
(* has the options the listening socket had at that moment.                *)
OnAccept(c, i, refused) ==
  IF net[c].link = "aborted" \/ refused THEN svr
  ELSE [svr EXCEPT !.slot[i] = c, !.nClients = @ + 1,
                   !.calls[c].up = @ + 1, !.calls[c].id = i,
                   !.obj[c] = [NewObj EXCEPT !.alive = TRUE, !.hSocket = TRUE,
                                !.bConnected = TRUE, !.iParentIdx = i,
                                !.keepalive = listener.keepalive]]

(* Mutant: the calls to skip are not counted. *)
SkipForever == listener.holdoff > 0 /\ UNCHANGED <<svr, listener, backlog, net>>

(* One of the timer calls that are held off. *)
Skip ==
  /\ listener.holdoff > 0
  /\ listener' = [listener EXCEPT !.holdoff = @ - 1]
  /\ UNCHANGED <<svr, backlog, net>>

(* The listening socket's OnTimer: it skips the calls held off, and        *)
(* accepts the first client of the backlog into the first free slot, if    *)
(* there is one.  Only then are the keepalive options set, on the          *)
(* listening socket.                                                       *)
ServerTimer ==
  /\ busy = Idle /\ svr.alive /\ listener.hSocket
  /\ \/ Skip
     \/ /\ listener.holdoff = 0
        /\ backlog # <<>>
        /\ FreeSlots = {}
        /\ listener' = [listener EXCEPT !.holdoff = Holdoff]
        /\ UNCHANGED <<svr, backlog, net>>
     \/ /\ listener.holdoff = 0
        /\ backlog # <<>>
        /\ \E i \in FreeSlots, refused \in {FALSE, "refuse" \in Events} :
             LET c  == Head(backlog)
                 ok == net[c].link # "aborted"
             IN
             /\ \A j \in FreeSlots : i <= j
             /\ svr' = OnAccept(c, i, refused)
             /\ net' = [net EXCEPT ![c].link =
                  CASE ~ok \/ refused -> "shut"
                    [] ok /\ ~refused /\ @ = "waiting" -> "up"
                    [] ok /\ ~refused /\ @ = "leaving" -> "eof"]
             /\ listener' = [listener EXCEPT !.holdoff = Holdoff,
                                             !.keepalive = @ \/ ok]
        /\ backlog' = Tail(backlog)
  /\ UNCHANGED busy

(* A select that fails closes the listening socket. *)
ListenError ==
  /\ "selectError" \in Events
  /\ busy = Idle /\ svr.alive /\ listener.hSocket /\ listener.holdoff = 0
  /\ listener' = [listener EXCEPT !.hSocket = FALSE]
  /\ backlog' = <<>>
  /\ net' = [c \in Conns |-> IF net[c].link \in InBacklog
                             THEN [net[c] EXCEPT !.link = "shut"] ELSE net[c]]
  /\ UNCHANGED <<svr, busy>>

-----------------------------------------------------------------------------
(* An object's OnTimer *)

(* Where the pass goes after the read event, in server s. *)
AfterRead(c, s, nw) ==
  [who |-> c, pc |-> IF s.obj[c].hSocket /\ nw THEN "write" ELSE "end",
   needWrite |-> FALSE]

(* DoRcv: a message that has arrived goes to the application's OnRcv; the  *)
(* end of the stream closes the socket; a reset runs OnClose without       *)
(* Close; another error is ignored.                                        *)
DoRcv(c, nw) ==
  \/ /\ net[c].inbox > 0
     /\ svr' = [svr EXCEPT !.calls[c].rcv = @ + 1,
                           !.calls[c].id = svr.obj[c].iParentIdx]
     /\ net' = [net EXCEPT ![c].inbox = @ - 1]
     /\ busy' = [who |-> c, pc |-> "rcv", needWrite |-> nw]
  \/ /\ net[c].link = "eof" /\ net[c].inbox = 0
     /\ Become(Close(c, svr))
     /\ busy' = AfterRead(c, svr', nw)
  \/ /\ net[c].link = "reset"
     /\ Become(OnDisconLo(c, svr))
     /\ busy' = AfterRead(c, svr', nw)
  \/ /\ net[c].link = "broken"
     /\ busy' = AfterRead(c, svr, nw)
     /\ UNCHANGED <<svr, net>>

ReadReady(c) == net[c].inbox > 0 \/ net[c].link \in {"eof", "reset", "broken"}

(* A polling pass of object c.  The write event is served only if          *)
(* something was pending when the pass began and TCP takes bytes.  A pass  *)
(* with an invalid handle goes straight to its end.                        *)
SockTimer(c) ==
  /\ busy = Idle
  /\ svr.obj[c].alive /\ ~svr.obj[c].outtaHere
  /\ \/ /\ ~svr.obj[c].hSocket
        /\ busy' = [who |-> c, pc |-> "end", needWrite |-> FALSE]
        /\ UNCHANGED <<svr, net>>
     \/ /\ svr.obj[c].hSocket
        /\ \E nw \in {FALSE, svr.obj[c].pending} :
             \/ ReadReady(c) /\ DoRcv(c, nw)
             \/ /\ ~ReadReady(c) /\ nw
                /\ busy' = AfterRead(c, svr, nw)
                /\ UNCHANGED <<svr, net>>
  /\ UNCHANGED <<listener, backlog>>

(* A pass of object c whose select fails closes the socket. *)
SockError(c) ==
  /\ "selectError" \in Events
  /\ busy = Idle
  /\ svr.obj[c].alive /\ ~svr.obj[c].outtaHere /\ svr.obj[c].hSocket
  /\ Become(Close(c, svr))
  /\ busy' = AfterRead(c, svr', FALSE)
  /\ UNCHANGED <<listener, backlog>>

(* OnRcv returns; Close may have been called in it. *)
RcvDone ==
  /\ busy.pc = "rcv"
  /\ busy' = AfterRead(busy.who, svr, busy.needWrite)
  /\ UNCHANGED <<svr, listener, backlog, net>>

(* The write event: DoSend hands over some or all of what is pending.  An  *)
(* error closes the socket, and all but one of them set outtaHere.         *)
Write ==
  LET c == busy.who
      o == svr.obj[c]
  IN
  /\ busy.pc = "write"
  /\ busy' = [busy EXCEPT !.pc = "end"]
  /\ \/ /\ o.outtaHere \/ ~o.pending
        /\ UNCHANGED <<svr, net>>
     \/ /\ ~o.outtaHere /\ o.pending /\ net[c].link \in {"up", "eof"}
        /\ \E rest \in BOOLEAN :
             svr' = [svr EXCEPT !.obj[c].pending = rest]
        /\ UNCHANGED net
     \/ /\ ~o.outtaHere /\ o.pending /\ net[c].link \in {"reset", "broken"}
        /\ \E aborted \in {FALSE, net[c].link = "broken"} :
             Become(Close(c, [svr EXCEPT !.obj[c].outtaHere = @ \/ ~aborted]))
  /\ UNCHANGED <<listener, backlog>>

(* Mutant: the object is deleted only while its handle is valid. *)
TimerEndIfOpen ==
  LET c == busy.who IN
  /\ busy.pc = "end"
  /\ busy' = Idle
  /\ Become(IF svr.obj[c].autoDeleteReq /\ svr.obj[c].hSocket
            THEN [svr EXCEPT !.obj[c].alive = FALSE, !.obj[c].hSocket = FALSE]
            ELSE svr)
  /\ UNCHANGED <<listener, backlog>>

(* After the pass the object deletes itself if OnDisconLo has asked for    *)
(* it; the destructors close the handle and call nobody.                   *)
TimerEnd ==
  LET c == busy.who IN
  /\ busy.pc = "end"
  /\ busy' = Idle
  /\ Become(IF svr.obj[c].autoDeleteReq
            THEN [svr EXCEPT !.obj[c].alive = FALSE, !.obj[c].hSocket = FALSE]
            ELSE svr)
  /\ UNCHANGED <<listener, backlog>>

-----------------------------------------------------------------------------
(* The application, from a handler of its own or from OnRcv *)

AppCanCall == svr.alive /\ busy.pc \in {"idle", "rcv"}

(* send to the client in slot i. *)
AppSend(i) ==
  /\ AppCanCall
  /\ i \in Taken(svr)
  /\ svr' = [svr EXCEPT !.obj[svr.slot[i]].pending =
               @ \/ svr.obj[svr.slot[i]].bConnected]
  /\ UNCHANGED <<listener, busy, backlog, net>>

(* send to ALL_CLIENTS. *)
AppSendAll ==
  /\ AppCanCall
  /\ Taken(svr) # {}
  /\ svr' = [svr EXCEPT !.obj = [c \in Conns |->
               [svr.obj[c] EXCEPT !.pending =
                  \/ @
                  \/ (svr.obj[c].bConnected
                      /\ \E i \in Slots : svr.slot[i] = c)]]]
  /\ UNCHANGED <<listener, busy, backlog, net>>

AppDisconnect(i) ==
  /\ AppCanCall
  /\ i \in Taken(svr)
  /\ Become(Disconnect(i, svr))
  /\ UNCHANGED <<listener, busy, backlog>>

(* DisconnectAllClients goes through the slots in order. *)
AppDisconnectAll ==
  /\ AppCanCall
  /\ Taken(svr) # {}
  /\ Become(DisconnectAll(svr)[MaxClients])
  /\ UNCHANGED <<listener, busy, backlog>>

(* The application deletes the server: the clients in the slots go with    *)
(* it, the listening socket is closed; objects that were only told to      *)
(* delete themselves stay.                                                 *)
AppDelete ==
  /\ "delete" \in Events
  /\ svr.alive /\ busy = Idle
  /\ LET gone == {svr.slot[i] : i \in Taken(svr)}
         s == [svr EXCEPT !.alive = FALSE,
                 !.slot = [i \in Slots |-> NoConn],
                 !.obj = [c \in Conns |->
                   IF c \in gone
                   THEN [svr.obj[c] EXCEPT !.alive = FALSE, !.hSocket = FALSE]
                   ELSE svr.obj[c]]]
     IN /\ svr' = s
        /\ net' = [c \in Conns |->
                     IF net[c].link \in InBacklog
                     THEN [net[c] EXCEPT !.link = "shut"] ELSE Shut(s)[c]]
  /\ listener' = [listener EXCEPT !.hSocket = FALSE]
  /\ backlog' = <<>>
  /\ UNCHANGED busy

-----------------------------------------------------------------------------
(* The clients and TCP *)

(* The client connects: TCP accepts for a listening socket with room in    *)
(* its backlog.                                                            *)
ClientConnect(c) ==
  /\ net[c].link = "none"
  /\ listener.hSocket /\ Len(backlog) < Backlog
  /\ net' = [net EXCEPT ![c].link = "waiting"]
  /\ backlog' = Append(backlog, c)
  /\ UNCHANGED <<svr, listener, busy>>

ClientSend(c) ==
  /\ net[c].link \in {"waiting", "up"}
  /\ net[c].sent < MaxSends
  /\ net' = [net EXCEPT ![c].sent = @ + 1, ![c].inbox = @ + 1]
  /\ UNCHANGED <<svr, listener, busy, backlog>>

(* The client closes its end; in the backlog it may also abort. *)
ClientClose(c) ==
  /\ \/ /\ net[c].link = "waiting"
        /\ \/ net' = [net EXCEPT ![c].link = "leaving"]
           \/ net' = [net EXCEPT ![c].link = "aborted", ![c].inbox = 0]
     \/ /\ net[c].link = "up"
        /\ net' = [net EXCEPT ![c].link = "eof"]
  /\ UNCHANGED <<svr, listener, busy, backlog>>

(* TCP loses the connection; what was in flight is gone. *)
Lose(c, how) ==
  /\ net[c].link \in {"up", "eof"}
  /\ how \in Events
  /\ net' = [net EXCEPT ![c].link = how, ![c].inbox = 0]
  /\ UNCHANGED <<svr, listener, busy, backlog>>

-----------------------------------------------------------------------------
Next ==
  \/ StartService \/ ServerTimer \/ ListenError
  \/ \E c \in Conns : SockTimer(c) \/ SockError(c)
  \/ RcvDone \/ Write \/ TimerEnd
  \/ \E i \in Slots : AppSend(i) \/ AppDisconnect(i)
  \/ AppSendAll \/ AppDisconnectAll \/ AppDelete
  \/ \E c \in Conns : \/ ClientConnect(c) \/ ClientSend(c) \/ ClientClose(c)
                      \/ \E how \in {"reset", "broken"} : Lose(c, how)

(* Every object has a timer of its own and the listening socket another,   *)
(* each of 10 ms, for as long as they exist; OnRcv returns.  Clients, TCP  *)
(* and the application owe nothing, nor need select fail.                  *)
Fairness == /\ SF_vars(ServerTimer) /\ \A c \in Conns : SF_vars(SockTimer(c))
            /\ WF_vars(RcvDone) /\ WF_vars(Write) /\ WF_vars(TimerEnd)

Spec     == Init /\ [][Next]_vars
FairSpec == Spec /\ Fairness

-----------------------------------------------------------------------------
(* Properties *)

(* Every variable has its type. *)
TypeOK ==
  /\ svr \in Svr
  /\ listener \in [started : BOOLEAN, hSocket : BOOLEAN,
                   holdoff : 0..Holdoff, keepalive : BOOLEAN]
  /\ busy \in [who : Conns \cup {NoConn},
               pc : {"idle", "rcv", "write", "end"}, needWrite : BOOLEAN]
  /\ backlog \in Seq(Conns)
  /\ net \in [Conns -> Net]

(* getNumConnections is the number of clients in the table: OnAccept's     *)
(* early returns and OnDisconLo's second calls keep m_nClients and m_C in  *)
(* step, though they are changed lines apart.                              *)
ClientCount == svr.alive => svr.nClients = Cardinality(Taken(svr))

(* The table and the objects agree: an object in a slot is open, knows its *)
(* slot (so the ASSERTs of OnDisconLo and getClientData never fire), and   *)
(* any other object that exists is waiting to delete itself.               *)
SlotsConsistent ==
  \A c \in Conns :
    LET o == svr.obj[c] IN
    /\ \A i \in Slots :
         svr.slot[i] = c => /\ o.alive /\ o.hSocket /\ o.bConnected
                            /\ o.iParentIdx = i
                            /\ ~o.autoDeleteReq /\ ~o.outtaHere
    /\ o.alive => (\E i \in Slots : svr.slot[i] = c) \/ o.autoDeleteReq

(* While an object is in OnRcv or before its write event, its index names  *)
(* no other client, even when it has been disconnected in the meantime: a  *)
(* reply sent from OnRcv, and the second OnClose after a reset, cannot     *)
(* reach a successor in the slot.                                          *)
CallerOwnsSlot ==
  busy.pc \in {"rcv", "write"} =>
    svr.slot[svr.obj[busy.who].iParentIdx] \in {busy.who, NoConn}

(* An object that outlives its server, or its slot, makes no callback:     *)
(* its m_parent may be gone.                                               *)
ZombieIsSilent ==
  [][\A c \in Conns : svr.obj[c].autoDeleteReq \/ ~svr.alive
       => svr'.calls[c] = svr.calls[c]]_vars

(* The promise of ConnRegistry: a client id names the connection that m_C  *)
(* holds there.                                                            *)
Registry == INSTANCE ConnRegistry WITH
  Slot <- Slots, Conn <- Conns, view <- svr.slot, calls <- svr.calls

(* GenServer implements ConnRegistry: in every slot OnConnection, OnRcv    *)
(* and OnDisconnect come in this order and once per connection, with the   *)
(* id under which the connection is in the table.                          *)
ImplementsRegistry == Registry!Spec

(* An object that was told to delete itself does so, on its own timer,     *)
(* whoever told it and though its server may be deleted first.             *)
ZombieIsDeleted ==
  \A c \in Conns : svr.obj[c].autoDeleteReq ~> ~svr.obj[c].alive

(* GenCliSvr2_Server.h:53: when a client that was accepted closes or is    *)
(* reset, the application gets OnDisconnect and the slot is free again,    *)
(* unless the server is deleted.                                           *)
DisconnectIsTold ==
  \A c \in Conns :
    svr.calls[c].up > 0 /\ net[c].link \in {"eof", "reset"}
      ~> (svr.calls[c].down > 0 \/ ~svr.alive \/ net[c].link = "broken")

(* If from some time on there is room in the table, every client in the    *)
(* backlog gets out of it: holdoff, failed accepts and refused clients     *)
(* only delay it.                                                          *)
BacklogDrains == <>[](FreeSlots # {}) => <>[](backlog = <<>>)

-----------------------------------------------------------------------------
(* What the code's documentation claims *)

(* GenCliSvr2_Server.cpp:361 and 389: the socket created by Accept is      *)
(* conditioned, with a keepalive of ten seconds: a client in the table has *)
(* keepalive set.                                                          *)
KeepaliveIsSet ==
  \A i \in Taken(svr) : svr.obj[svr.slot[i]].keepalive
=============================================================================
