------------------------------ MODULE GenSock ------------------------------
(***************************************************************************)
(* One connection between two CGenCliSvr2_Sock objects: the CGenClient2 of *)
(* the GUI and the CClientSock that CGenSvr2::OnAccept made in the TCM.    *)
(*                                                                         *)
(* Each end has the linear send buffer that send3a fills and DoSend        *)
(* drains, the receive buffer in which DoRcv assembles a header and then   *)
(* the rest of its message, and the flags that Close, OnClose and OnTimer  *)
(* pass around.  Between them is TCP (external): it takes and yields any   *)
(* number of bytes at a time, and may be lost.                             *)
(*                                                                         *)
(* Each process is single threaded, so an end is always at one of three    *)
(* points: in its message loop (pc = "idle"), inside the application's     *)
(* OnRcv called from DoRcv ("rcv"), or in a polling pass after the read    *)
(* events and before the write event ("write").  The other process and    *)
(* TCP run between any two of these.                                       *)
(*                                                                         *)
(* A byte is modelled by its position in the stream of all bytes its end   *)
(* ever enqueued; a frame is where its bytes start, how many of them are   *)
(* the application's, and the flags.  Sizes are in units of a trailer.     *)
(***************************************************************************)
EXTENDS Integers, Sequences, FiniteSets

CONSTANTS Client, Server,  \* the two ends
          HdrSz, TrlSz,    \* sizeof(CliSvr2Hdr), sizeof(CliSvr2Trailer)
          MaxMsg,          \* the maxSendSz and maxRcvSz both ends are given
          Sizes,           \* the sizes the applications send
          NetCap,          \* bound: bytes TCP holds in one direction
          MaxSends,        \* bound, per end: sends that report a size
          Events           \* which of the events in Disturbance may happen

Disturbance == {"notice", "disconnect", "delete", "reset", "broken",
                "selectError"}

ASSUME EndsAssumption   == Client # Server
ASSUME SizesAssumption  == /\ HdrSz \in Nat \ {0}
                           /\ TrlSz \in Nat \ {0}
                           /\ MaxMsg \in Nat \ {0}
                           /\ NetCap \in Nat \ {0}
                           /\ Sizes \subseteq 0..MaxMsg
                           /\ MaxSends \in [{Client, Server} -> Nat]
ASSUME EventsAssumption == Events \subseteq Disturbance

Ends    == {Client, Server}
Peer(e) == IF e = Client THEN Server ELSE Client

VARIABLES ctl,        \* [Ends -> Ctl]: connection flags, place in OnTimer
          snd,        \* [Ends -> send buffer, its pointers and counters]
          rcv,        \* [Ends -> receive buffer and counters]
          wire,       \* [Ends -> Seq(byte)]: sent by the end, not received
          lost,       \* [Ends -> "up", "reset" or "broken"]: TCP at the end
          frames,     \* [Ends -> Seq(frame)]: history, what send3a enqueued
          reported,   \* [Ends -> Nat]: history, sends that returned a size
          delivered   \* [Ends -> Seq(Seq(byte))]: history, given to OnRcvLo

vars == <<ctl, snd, rcv, wire, lost, frames, reported, delivered>>

-----------------------------------------------------------------------------
(* Data *)

BufSz    == MaxMsg + HdrSz + TrlSz      \* m_sendBufSz and m_rcvBufSz
TtlSz(n) == HdrSz + n + TrlSz           \* CliSvr2Hdr::ttlSz
Flags    == {"none", "notice"}

Frame == [start : Nat, sz : 0..MaxMsg, flags : Flags]
Byte  == Nat \ {0}

(* The bytes of a frame that the application gave. *)
Body(f) == [k \in 1..f.sz |-> f.start + HdrSz + k]

(* How many bytes end e has enqueued so far. *)
StreamEnd(e) ==
  IF frames[e] = <<>> THEN 0
  ELSE LET last == frames[e][Len(frames[e])] IN last.start + TtlSz(last.sz)

(* buf starts with the header of frame f: its magic is good. *)
HasHeader(buf, f) == \A k \in 1..HdrSz : buf[k] = f.start + k

Ctl == [hSocket : BOOLEAN,           \* m_hSocket is a socket
        connectInProgress : BOOLEAN, \* m_bConnectInProgress
        bConnected : BOOLEAN,        \* CGenCliSvr2_Sock::m_bConnected
        outtaHere : BOOLEAN,         \* m_b_I_Am_So_Outta_Here
        autoDeleteReq : BOOLEAN,     \* m_bAutoDeleteReq; m_C[] is NULL
        alive : BOOLEAN,             \* not deleted
        closes : Nat,                \* calls of the application's callback
        needWrite : BOOLEAN,         \* this pass has a write event to serve
        pc : {"idle", "rcv", "write"}]

EmptySnd == [buf |-> [k \in 1..BufSz |-> 0], ptr0 |-> 0, ptr1 |-> 0,
             nPending |-> 0, nFree |-> BufSz]
EmptyRcv == [buf |-> <<>>, nPending |-> HdrSz, hdr |-> TRUE]

(* BeginConnection and OnAccept have allocated the buffers; TCP has        *)
(* connected, but the client has not been told by select yet.              *)
Init ==
  /\ ctl = [e \in Ends |->
              [hSocket |-> TRUE, connectInProgress |-> e = Client,
               bConnected |-> e = Server, outtaHere |-> FALSE,
               autoDeleteReq |-> FALSE, alive |-> TRUE, closes |-> 0,
               needWrite |-> FALSE, pc |-> "idle"]]
  /\ snd = [e \in Ends |-> EmptySnd]
  /\ rcv = [e \in Ends |-> EmptyRcv]
  /\ wire = [e \in Ends |-> <<>>]
  /\ lost = [e \in Ends |-> "up"]
  /\ frames = [e \in Ends |-> <<>>]
  /\ reported = [e \in Ends |-> 0]
  /\ delivered = [e \in Ends |-> <<>>]

-----------------------------------------------------------------------------
(* Closing *)

(* Mutant: OnDisconLo does not look whether the slot is empty already. *)
OnCloseTwice(e, c) ==
  IF e = Client THEN [c EXCEPT !.outtaHere = TRUE, !.closes = @ + 1]
  ELSE [c EXCEPT !.autoDeleteReq = TRUE, !.closes = @ + 1]

(* OnClose of the end whose flags are c.  CGenClient2's sets outtaHere and *)
(* calls OnSocketClose; CClientSock's goes to OnDisconLo, which calls      *)
(* OnDisconnect and empties the slot unless the slot is empty already.     *)
OnClose(e, c) ==
  IF e = Client THEN [c EXCEPT !.outtaHere = TRUE, !.closes = @ + 1]
  ELSE IF c.autoDeleteReq THEN c
  ELSE [c EXCEPT !.autoDeleteReq = TRUE, !.closes = @ + 1]

(* Mutants: Close forgets to invalidate the handle; to call OnClose. *)
CloseKeepsHandle(e, c)  == IF c.hSocket THEN OnClose(e, c) ELSE c
CloseWithoutCall(e, c)  == [c EXCEPT !.hSocket = FALSE]

Close(e, c) == IF c.hSocket THEN OnClose(e, [c EXCEPT !.hSocket = FALSE])
               ELSE c

(* The end's pass goes on to the write event if the handle is still valid  *)
(* and the event was asked for and reported; else the pass is over.        *)
AfterRead(c, nw) ==
  [c EXCEPT !.pc = IF c.hSocket /\ nw THEN "write" ELSE "idle",
            !.needWrite = FALSE]

-----------------------------------------------------------------------------
(* Sending *)

(* Mutant: the copy goes to where DoSend takes bytes from. *)
EnqueueAtPtr0(s, start, ttl) ==
  [buf      |-> [k \in 1..BufSz |-> IF k \in s.ptr0 + 1 .. s.ptr0 + ttl
                                    THEN start + (k - s.ptr0) ELSE s.buf[k]],
   ptr0     |-> s.ptr0,
   ptr1     |-> s.ptr1 + ttl,
   nPending |-> s.nPending + ttl,
   nFree    |-> s.nFree - ttl]

(* memcpy of header, buffers and trailer at m_ptrSend[1]. *)
Enqueue(s, start, ttl) ==
  [buf      |-> [k \in 1..BufSz |-> IF k \in s.ptr1 + 1 .. s.ptr1 + ttl
                                    THEN start + (k - s.ptr1) ELSE s.buf[k]],
   ptr0     |-> s.ptr0,
   ptr1     |-> s.ptr1 + ttl,
   nPending |-> s.nPending + ttl,
   nFree    |-> s.nFree - ttl]

(* Mutants: the write pointer, or the free space, is not reset. *)
SetupForSendKeepsPtr1(s) == [s EXCEPT !.ptr0 = 0, !.nPending = 0,
                                      !.nFree = BufSz]
SetupForSendKeepsFree(s) == [s EXCEPT !.ptr0 = 0, !.ptr1 = 0, !.nPending = 0]

SetupForSend(s) == [s EXCEPT !.ptr0 = 0, !.ptr1 = 0, !.nPending = 0,
                             !.nFree = BufSz]

(* Mutant: send3a tests the size of the buffer only. *)
HasRoomInBuf(e, ttl) == ctl[e].bConnected /\ ttl <= BufSz

(* send3a goes as far as the free-space test and passes it. *)
HasRoom(e, ttl) == ctl[e].bConnected /\ ttl <= snd[e].nFree

(* send3a's effect on the buffer and the history of enqueued frames. *)
Send3a(e, sz, flags) ==
  IF HasRoom(e, TtlSz(sz))
  THEN /\ snd' = [snd EXCEPT ![e] = Enqueue(@, StreamEnd(e), TtlSz(sz))]
       /\ frames' = [frames EXCEPT ![e] =
             Append(@, [start |-> StreamEnd(e), sz |-> sz, flags |-> flags])]
  ELSE UNCHANGED <<snd, frames>>

(* The application can reach the object: the server's is unreachable once  *)
(* OnDisconLo has emptied its slot.                                        *)
CanCall(e) == /\ ctl[e].alive
              /\ ~ctl[e].autoDeleteReq
              /\ ctl[e].pc \in {"idle", "rcv"}

(* The application calls send with sz bytes, sz within the maximum (more   *)
(* returns 0 and changes nothing).  The result of send3a is unsigned, so   *)
(* its -1 passes for success: the call reports sz sent either way.         *)
Send(e, sz, flags) ==
  /\ CanCall(e)
  /\ reported[e] < MaxSends[e]
  /\ flags = "notice" => "notice" \in Events
  /\ reported' = [reported EXCEPT ![e] = @ + 1]
  /\ Send3a(e, sz, flags)
  /\ UNCHANGED <<ctl, rcv, wire, lost, delivered>>

(* The TCM's application calls CGenSvr2::disconnect for this client: a     *)
(* notice is enqueued and the socket closed in the same call.              *)
Disconnect ==
  /\ "disconnect" \in Events
  /\ CanCall(Server)
  /\ Send3a(Server, 0, "notice")
  /\ ctl' = [ctl EXCEPT ![Server] = Close(Server, @)]
  /\ UNCHANGED <<rcv, wire, lost, reported, delivered>>

(* DoSend: hand pending bytes to TCP until none is left or TCP refuses.    *)
(* All bytes one loop gives are one step; a loop that is cut short by an   *)
(* error after some bytes is the pass before plus this one.                *)
DoSend(e) ==
  \/ /\ ctl[e].outtaHere \/ snd[e].nPending = 0
     /\ ctl' = [ctl EXCEPT ![e].pc = "idle"]
     /\ UNCHANGED <<snd, wire>>
  \/ /\ ~ctl[e].outtaHere
     /\ lost[e] = "up"
     /\ \E n \in 1..snd[e].nPending :
          /\ Len(wire[e]) + n <= NetCap
          /\ wire' = [wire EXCEPT ![e] =
                        @ \o [k \in 1..n |-> snd[e].buf[snd[e].ptr0 + k]]]
          /\ LET s == [snd[e] EXCEPT !.ptr0 = @ + n, !.nPending = @ - n]
             IN  snd' = [snd EXCEPT ![e] =
                           IF s.nPending = 0 THEN SetupForSend(s) ELSE s]
     /\ ctl' = [ctl EXCEPT ![e].pc = "idle"]
  \/ /\ ~ctl[e].outtaHere
     /\ snd[e].nPending > 0
     /\ lost[e] # "up"
     /\ \E aborted \in {FALSE, lost[e] = "broken"} :
          LET c == [ctl[e] EXCEPT !.outtaHere = @ \/ ~aborted]
          IN  ctl' = [ctl EXCEPT ![e] = [Close(e, c) EXCEPT !.pc = "idle"]]
     /\ UNCHANGED <<snd, wire>>

-----------------------------------------------------------------------------
(* Receiving *)

(* DoRcv when recv yields n bytes.  A header tells how much follows, or    *)
(* closes the socket: it is a notice, or no header at all.  A whole frame  *)
(* goes to the application; the pass resumes when OnRcv returns.           *)
RcvBytes(e, n, nw) ==
  LET p    == Peer(e)
      buf  == rcv[e].buf \o SubSeq(wire[p], 1, n)
      left == rcv[e].nPending - n
      got  == [rcv[e] EXCEPT !.buf = buf, !.nPending = left]
  IN
  /\ wire' = [wire EXCEPT ![p] = SubSeq(@, n + 1, Len(@))]
  /\ \/ /\ left > 0
        /\ rcv' = [rcv EXCEPT ![e] = got]
        /\ ctl' = [ctl EXCEPT ![e] = AfterRead(@, nw)]
        /\ UNCHANGED delivered
     \/ /\ left = 0 /\ rcv[e].hdr
        /\ \/ \E i \in 1..Len(frames[p]) :
                LET f == frames[p][i] IN
                /\ HasHeader(buf, f)
                /\ f.flags = "none"
                /\ rcv' = [rcv EXCEPT ![e] =
                     [got EXCEPT !.nPending = TtlSz(f.sz) - HdrSz,
                                 !.hdr = FALSE]]
                /\ ctl' = [ctl EXCEPT ![e] = AfterRead(@, nw)]
           \/ /\ \A i \in 1..Len(frames[p]) :
                   \/ ~HasHeader(buf, frames[p][i])
                   \/ frames[p][i].flags = "notice"
              /\ rcv' = [rcv EXCEPT ![e] = got]
              /\ ctl' = [ctl EXCEPT ![e] = AfterRead(Close(e, @), nw)]
        /\ UNCHANGED delivered
     \/ /\ left = 0 /\ ~rcv[e].hdr
        /\ \E i \in 1..Len(frames[p]) :
             /\ HasHeader(buf, frames[p][i])
             /\ delivered' = [delivered EXCEPT ![e] =
                  Append(@, SubSeq(buf, HdrSz + 1, HdrSz + frames[p][i].sz))]
        /\ rcv' = [rcv EXCEPT ![e] = got]
        /\ ctl' = [ctl EXCEPT ![e].pc = "rcv", ![e].needWrite = nw]

(* DoRcv: one recv.  The end of the stream closes the socket.  A reset     *)
(* calls OnClose but leaves the handle as it is; any other error is        *)
(* ignored.                                                                *)
DoRcv(e, nw) ==
  \/ /\ lost[e] = "up"
     /\ \E n \in 1..rcv[e].nPending :
          n <= Len(wire[Peer(e)]) /\ RcvBytes(e, n, nw)
  \/ /\ lost[e] = "up"
     /\ wire[Peer(e)] = <<>>
     /\ ctl' = [ctl EXCEPT ![e] = AfterRead(Close(e, @), nw)]
     /\ UNCHANGED <<rcv, wire, delivered>>
  \/ /\ lost[e] = "reset"
     /\ ctl' = [ctl EXCEPT ![e] = AfterRead(OnClose(e, @), nw)]
     /\ UNCHANGED <<rcv, wire, delivered>>
  \/ /\ lost[e] = "broken"
     /\ ctl' = [ctl EXCEPT ![e] = AfterRead(@, nw)]
     /\ UNCHANGED <<rcv, wire, delivered>>

(* Mutants: the read pointer, or what is asked for, is not reset. *)
SetupForRcvKeepsPtr(e)     == [EmptyRcv EXCEPT !.buf = rcv[e].buf]
SetupForRcvKeepsPending(e) == [EmptyRcv EXCEPT !.nPending = rcv[e].nPending]

SetupForRcv(e) == IF ctl[e].outtaHere THEN rcv[e] ELSE EmptyRcv

-----------------------------------------------------------------------------
(* Polling: CGenCliSvr2_Sock::OnTimer calls CMyAsyncSocket::OnTimer, which *)
(* polls select and serves the read event, then the write event.           *)

(* What select reports. *)
ReadReady(e)  == \/ wire[Peer(e)] # <<>>
                 \/ ~ctl[Peer(e)].hSocket
                 \/ lost[e] # "up"
WriteReady(e) == \/ Len(wire[e]) < NetCap
                 \/ lost[e] # "up"

(* A pass starts: the write event is asked for on what is pending now.     *)
(* OnTimer returns at once when outtaHere is set or the handle is invalid, *)
(* and deletes the object instead of another pass once that is asked for.  *)
Select(e) ==
  LET nw == /\ ctl[e].connectInProgress \/ snd[e].nPending > 0
            /\ WriteReady(e)
  IN
  /\ ctl[e].pc = "idle" /\ ctl[e].alive /\ ctl[e].hSocket
  /\ ~ctl[e].outtaHere /\ ~ctl[e].autoDeleteReq
  /\ \/ /\ ReadReady(e)
        /\ DoRcv(e, nw)
     \/ /\ ~ReadReady(e)
        /\ nw
        /\ ctl' = [ctl EXCEPT ![e].pc = "write"]
        /\ UNCHANGED <<rcv, wire, delivered>>
  /\ UNCHANGED <<snd, lost, frames, reported>>

(* A pass whose select fails closes the socket. *)
SelectError(e) ==
  /\ "selectError" \in Events
  /\ ctl[e].pc = "idle" /\ ctl[e].alive /\ ctl[e].hSocket
  /\ ~ctl[e].outtaHere /\ ~ctl[e].autoDeleteReq
  /\ ctl' = [ctl EXCEPT ![e] = Close(e, @)]
  /\ UNCHANGED <<snd, rcv, wire, lost, frames, reported, delivered>>

(* The application's OnRcv returns to DoRcv. *)
RcvDone(e) ==
  /\ ctl[e].pc = "rcv"
  /\ rcv' = [rcv EXCEPT ![e] = SetupForRcv(e)]
  /\ ctl' = [ctl EXCEPT ![e] = AfterRead(@, @.needWrite)]
  /\ UNCHANGED <<snd, wire, lost, frames, reported, delivered>>

(* The write event: a connection in progress is made (CGenClient2's        *)
(* OnConnect with no error), else OnSend.                                  *)
Write(e) ==
  /\ ctl[e].pc = "write"
  /\ \/ /\ ctl[e].connectInProgress
        /\ ctl' = [ctl EXCEPT ![e].connectInProgress = FALSE,
                              ![e].bConnected = TRUE, ![e].pc = "idle"]
        /\ UNCHANGED <<snd, wire>>
     \/ /\ ~ctl[e].connectInProgress
        /\ DoSend(e)
  /\ UNCHANGED <<rcv, lost, frames, reported, delivered>>

(* Mutant: OnTimer returns on an invalid handle before it gets to delete. *)
AutoDeleteIfOpen(e) ==
  /\ ctl[e].autoDeleteReq /\ ctl[e].alive /\ ctl[e].pc = "idle"
  /\ ctl[e].hSocket
  /\ ctl' = [ctl EXCEPT ![e].alive = FALSE, ![e].hSocket = FALSE]
  /\ UNCHANGED <<snd, rcv, wire, lost, frames, reported, delivered>>

(* OnTimer's delete this, once OnDisconLo has asked for it. *)
AutoDelete(e) ==
  /\ ctl[e].autoDeleteReq /\ ctl[e].alive /\ ctl[e].pc = "idle"
  /\ ctl' = [ctl EXCEPT ![e].alive = FALSE, ![e].hSocket = FALSE]
  /\ UNCHANGED <<snd, rcv, wire, lost, frames, reported, delivered>>

(* The application deletes its end: OnBnClickedCancel deletes g_client, or *)
(* the server whose destructor deletes the clients in its slots.  Close    *)
(* runs from the destructors, where OnClose reaches no application code.   *)
Delete(e) ==
  /\ "delete" \in Events
  /\ ctl[e].alive /\ ~ctl[e].autoDeleteReq /\ ctl[e].pc = "idle"
  /\ ctl' = [ctl EXCEPT ![e].alive = FALSE, ![e].hSocket = FALSE]
  /\ UNCHANGED <<snd, rcv, wire, lost, frames, reported, delivered>>

(* TCP gives the connection up at e.  A reset comes from a peer that has   *)
(* closed, or from the network; broken is every other error, such as the   *)
(* ones a keepalive that failed leaves.  What was not received is gone.    *)
Lose(e, how) ==
  /\ lost[e] = "up" /\ ctl[e].hSocket
  /\ how \in Events \/ (how = "reset" /\ ~ctl[Peer(e)].hSocket)
  /\ lost' = [lost EXCEPT ![e] = how]
  /\ wire' = [wire EXCEPT ![Peer(e)] = <<>>]
  /\ UNCHANGED <<ctl, snd, rcv, frames, reported, delivered>>

-----------------------------------------------------------------------------
Next ==
  \/ \E e \in Ends :
       \/ \E sz \in Sizes, flags \in Flags : Send(e, sz, flags)
       \/ Select(e) \/ SelectError(e) \/ RcvDone(e) \/ Write(e)
       \/ AutoDelete(e) \/ Delete(e)
       \/ \E how \in {"reset", "broken"} : Lose(e, how)
  \/ Disconnect

(* OnTimer runs every 10 ms for as long as the object exists, so a pass    *)
(* that has an event to serve starts, and it runs to its end; OnRcv        *)
(* returns.  TCP and the applications owe nothing, nor need select fail.   *)
Fairness == \A e \in Ends : /\ WF_vars(Select(e)) /\ WF_vars(RcvDone(e))
                            /\ WF_vars(Write(e))  /\ WF_vars(AutoDelete(e))

Spec     == Init /\ [][Next]_vars
FairSpec == Spec /\ Fairness

-----------------------------------------------------------------------------
(* Properties *)

(* Every variable has its type. *)
TypeOK ==
  /\ ctl \in [Ends -> Ctl]
  /\ snd \in [Ends -> [buf : [1..BufSz -> Nat], ptr0 : 0..BufSz,
                       ptr1 : 0..BufSz, nPending : 0..BufSz, nFree : 0..BufSz]]
  /\ rcv \in [Ends -> [buf : Seq(Byte), nPending : 0..BufSz, hdr : BOOLEAN]]
  /\ wire \in [Ends -> Seq(Byte)]
  /\ lost \in [Ends -> {"up", "reset", "broken"}]
  /\ frames \in [Ends -> Seq(Frame)]
  /\ reported \in [Ends -> Nat]
  /\ delivered \in [Ends -> Seq(Seq(Byte))]

(* The pointers and the two counters of the send buffer, which send3a and  *)
(* DoSend move separately, always agree: what is pending lies between the  *)
(* pointers, what is free lies behind them, and the space before them is   *)
(* given back exactly when nothing is pending.                             *)
SendAccounting ==
  \A e \in Ends :
    /\ snd[e].ptr1 = snd[e].ptr0 + snd[e].nPending
    /\ snd[e].ptr1 + snd[e].nFree = BufSz
    /\ snd[e].nPending = 0 => snd[e].ptr1 = 0

(* However TCP cuts the stream, DoRcv never takes body bytes for a header: *)
(* the first HdrSz bytes in the receive buffer are a header the peer sent  *)
(* (the ASSERTs on the magic number and the size never fire), the rest are *)
(* its bytes in order, and what is still asked for ends the frame.         *)
FramingIntact ==
  \A e \in Ends :
    LET buf == rcv[e].buf IN
    buf # <<>> =>
      \E i \in 1..Len(frames[Peer(e)]) :
        LET f == frames[Peer(e)][i] IN
        /\ \A k \in 1..Len(buf) : buf[k] = f.start + k
        /\ Len(buf) + rcv[e].nPending =
             IF rcv[e].hdr THEN HdrSz ELSE TtlSz(f.sz)

(* What OnRcvLo has been given are the bodies of the first frames the peer *)
(* enqueued: each whole, once, in order, none invented and no notice.      *)
DeliveredInOrder ==
  \A e \in Ends :
    LET sent == frames[Peer(e)] IN
    /\ Len(delivered[e]) <= Len(sent)
    /\ \A i \in 1..Len(delivered[e]) :
         sent[i].flags = "none" /\ delivered[e][i] = Body(sent[i])

(* The application hears of the end of a connection at most once, though   *)
(* OnClose can run twice for it: from DoRcv on a reset, which leaves the   *)
(* handle valid, and from the Close of a failing DoSend in the same pass.  *)
ClosedOnce == \A e \in Ends : ctl[e].closes <= 1

(* After the application was told that the connection is gone, or deleted  *)
(* its end, the end delivers nothing and puts nothing more on the wire,    *)
(* although a reset leaves the handle valid for the rest of the pass.      *)
SilentAfterClose ==
  [][\A e \in Ends :
       ctl[e].closes > 0 \/ ~ctl[e].alive =>
         /\ delivered'[e] = delivered[e]
         /\ Len(wire'[e]) <= Len(wire[e])]_vars

(* The promise of MsgChannel, in each direction named by its sending end.  *)
Channel == INSTANCE MsgChannel WITH
  Direction <- Ends,
  Payload   <- Seq(Byte),
  accepted  <- [e \in Ends |-> [i \in 1..Len(frames[e]) |->
                  [notice |-> frames[e][i].flags = "notice",
                   body   |-> Body(frames[e][i])]]],
  delivered <- [e \in Ends |-> delivered[Peer(e)]],
  closed    <- [e \in Ends |-> ctl[Peer(e)].closes > 0]

(* GenSock implements the channel: a message is delivered whole, once, in  *)
(* order, only from frames that were enqueued, and never after OnClose.    *)
ImplementsChannel == Channel!Spec

(* The connection has ended, or an end is told to end it. *)
Over == \E e \in Ends :
          \/ ctl[e].closes > 0 \/ ~ctl[e].alive \/ lost[e] # "up"
          \/ \E i \in 1..Len(frames[e]) : frames[e][i].flags = "notice"

(* A message that was enqueued is delivered, unless the connection ends.   *)
EnqueuedIsDelivered ==
  \A e \in Ends : \A i \in 1..MaxSends[e] :
    Len(frames[e]) >= i ~> (Len(delivered[Peer(e)]) >= i \/ Over)

(* The linear send buffer gives its space back only when it has drained    *)
(* completely, however often send3a adds to what is pending: it drains     *)
(* again and again until the connection ends.                              *)
SendBufferDrains ==
  \A e \in Ends : []<>(snd[e].nFree = BufSz \/ Over)

(* When one end has closed its socket and TCP did not break, the other     *)
(* end's application is told so, unless it has deleted its end.            *)
PeerCloseIsNoticed ==
  \A e \in Ends :
    ~ctl[Peer(e)].hSocket
      ~> (ctl[e].closes > 0 \/ ~ctl[e].alive \/ lost[e] = "broken")

(* A zombie is deleted by its own timer. *)
ZombieIsDeleted ==
  ctl[Server].autoDeleteReq ~> ~ctl[Server].alive

-----------------------------------------------------------------------------
(* What the code's documentation claims *)

(* GenCliSvr2_Client.h:49-52: send "just enqueues the buf" and its "Return *)
(* is sz sent": a connected end's send that reports a size has enqueued    *)
(* its message.                                                            *)
ReportedIsEnqueued ==
  [][\A e \in Ends : reported'[e] > reported[e] /\ ctl[e].bConnected
                      => Len(frames'[e]) > Len(frames[e])]_vars

(* GenCliSvr2_Server.h:53: if the client disconnects the server gets       *)
(* OnDisconnect; with the keepalive of OnAccept (Server.cpp:389) that is   *)
(* to cover a peer that silently vanished.                                 *)
BreakIsNoticed ==
  \A e \in Ends :
    lost[e] = "broken" ~> (ctl[e].closes > 0 \/ ~ctl[e].alive)
=============================================================================
