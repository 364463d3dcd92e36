-------------------------- MODULE GenClientProofs --------------------------
(***************************************************************************)
(* Proofs about GenClient, for all time limits, hold-offs, bounds and      *)
(* events: how often, and in which order, the application is called, and   *)
(* that what the GUI noted is what the client believes.                    *)
(***************************************************************************)
EXTENDS GenClient, TLAPS

Over == {"made", "eof", "reset", "broken"}

(* Before the dialog opens there is nothing. *)
Fresh ==
  gui.dialog = "start" =>
    /\ cli = NewCli /\ pc = "idle" /\ link = "none" /\ inbox = 0
    /\ calls.ok = 0 /\ calls.fail = 0 /\ calls.rcv = 0

(* A verdict is outstanding exactly while an attempt is; what a failed     *)
(* retry leaves of m_bConnectInProgress does not count, as no event comes  *)
(* for it.                                                                 *)
Outstanding ==
  /\ calls.ok + calls.fail = 0 \/ ~cli.connectInProgress \/ link = "none"
  /\ link # "none" /\ calls.ok = 0 => cli.connectInProgress
  /\ cli.bConnected => calls.ok > 0

(* What TCP has to say, and the write event, are about a connection.       *)
Eventful ==
  /\ inbox > 0 => link \in {"made", "eof"}
  /\ pc = "write" => link \in Over /\ cli.alive /\ cli.hSocket

(* The pass that takes the first header goes on to tell of the connection. *)
FirstHeader ==
  ~cli.rcvingHdr /\ calls.ok = 0 => pc = "write" /\ cli.connectInProgress

IInv ==
  /\ TypeOK /\ OneVerdict /\ ConnectedBeforeRcv /\ GuiAgrees
  /\ Fresh /\ Outstanding /\ Eventful /\ FirstHeader
-----------------------------------------------------------------------------
(* The callbacks *)

(* The fields of c that the callbacks leave alone. *)
SameIn(t, c) ==
  /\ t.alive = c.alive /\ t.rcvingHdr = c.rcvingHdr
  /\ t.connectInProgress = c.connectInProgress

(* A callback of the application leaves the dialog and these counts alone. *)
OtherCalls ==
  /\ gui'.dialog = gui.dialog
  /\ calls'.rcv = calls.rcv

(* What a Close or an OnClose of a client c leaves. *)
LEMMA OnCloseFacts ==
  ASSUME TypeOK, NEW c \in Cli, OnClose(c)
  PROVE  /\ cli' \in Cli /\ SameIn(cli', c) /\ cli'.hSocket = c.hSocket
         /\ cli'.bConnected = FALSE
         /\ gui' \in [dialog : {"start", "open", "ended"},
                      bConnected : BOOLEAN, bFailed : BOOLEAN,
                      bInProgress : BOOLEAN]
         /\ gui'.bConnected = FALSE
         /\ calls' \in [ok : Nat, fail : Nat, rcv : Nat, close : Nat]
         /\ calls'.ok = calls.ok /\ calls'.fail = calls.fail
         /\ OtherCalls
<1>1. /\ cli' \in Cli /\ SameIn(cli', c) /\ cli'.hSocket = c.hSocket
      /\ cli'.bConnected = FALSE
  BY DEF OnClose, Cli, SameIn
<1>2. /\ gui' \in [dialog : {"start", "open", "ended"},
                   bConnected : BOOLEAN, bFailed : BOOLEAN,
                   bInProgress : BOOLEAN]
      /\ gui'.bConnected = FALSE /\ gui'.dialog = gui.dialog
  BY DEF OnClose, TypeOK
<1>3. /\ calls' \in [ok : Nat, fail : Nat, rcv : Nat, close : Nat]
      /\ calls'.ok = calls.ok /\ calls'.fail = calls.fail
      /\ calls'.rcv = calls.rcv
  BY DEF OnClose, TypeOK
<1> QED BY <1>1, <1>2, <1>3 DEF OtherCalls

(* What a Close of an open client c leaves. *)
LEMMA CloseFacts ==
  ASSUME TypeOK, NEW c \in Cli, c.hSocket, Close(c)
  PROVE  /\ cli' \in Cli /\ SameIn(cli', c) /\ ~cli'.hSocket
         /\ cli'.bConnected = FALSE
         /\ gui' \in [dialog : {"start", "open", "ended"},
                      bConnected : BOOLEAN, bFailed : BOOLEAN,
                      bInProgress : BOOLEAN]
         /\ gui'.bConnected = FALSE
         /\ calls' \in [ok : Nat, fail : Nat, rcv : Nat, close : Nat]
         /\ calls'.ok = calls.ok /\ calls'.fail = calls.fail
         /\ OtherCalls
<1>1. PICK t : t = [c EXCEPT !.hSocket = FALSE] OBVIOUS
<1>2. t \in Cli /\ SameIn(t, c) /\ ~t.hSocket BY <1>1 DEF Cli, SameIn
<1>3. OnClose(t) BY <1>1 DEF Close
<1> QED BY <1>2, <1>3, OnCloseFacts DEF SameIn

(* What the verdict that the connection is made leaves. *)
LEMMA MadeFacts ==
  ASSUME TypeOK, NEW c \in Cli, Verdict(c, TRUE)
  PROVE  /\ cli' \in Cli /\ SameIn(cli', c)
         /\ cli'.bConnected = TRUE
         /\ gui' \in [dialog : {"start", "open", "ended"},
                      bConnected : BOOLEAN, bFailed : BOOLEAN,
                      bInProgress : BOOLEAN]
         /\ gui'.bConnected = TRUE
         /\ calls' \in [ok : Nat, fail : Nat, rcv : Nat, close : Nat]
         /\ calls'.ok = calls.ok + 1
         /\ calls'.fail = calls.fail
         /\ OtherCalls
<1>1. /\ cli' \in Cli /\ SameIn(cli', c)
      /\ cli'.bConnected = TRUE
  BY DEF Verdict, Cli, SameIn
<1>2. /\ gui' \in [dialog : {"start", "open", "ended"},
                   bConnected : BOOLEAN, bFailed : BOOLEAN,
                   bInProgress : BOOLEAN]
      /\ gui'.bConnected = TRUE /\ gui'.dialog = gui.dialog
  BY DEF Verdict, TypeOK
<1>3. /\ calls' \in [ok : Nat, fail : Nat, rcv : Nat, close : Nat]
      /\ calls'.ok = calls.ok + 1
      /\ calls'.fail = calls.fail
      /\ calls'.rcv = calls.rcv
  BY DEF Verdict, TypeOK
<1> QED BY <1>1, <1>2, <1>3 DEF OtherCalls

(* What the verdict that the connection is not made leaves. *)
LEMMA FailedFacts ==
  ASSUME TypeOK, NEW c \in Cli, Verdict(c, FALSE)
  PROVE  /\ cli' \in Cli /\ SameIn(cli', c)
         /\ cli'.bConnected = c.bConnected
         /\ gui' \in [dialog : {"start", "open", "ended"},
                      bConnected : BOOLEAN, bFailed : BOOLEAN,
                      bInProgress : BOOLEAN]
         /\ gui'.bConnected = FALSE
         /\ calls' \in [ok : Nat, fail : Nat, rcv : Nat, close : Nat]
         /\ calls'.ok = calls.ok
         /\ calls'.fail = calls.fail + 1
         /\ OtherCalls
<1>1. /\ cli' \in Cli /\ SameIn(cli', c)
      /\ cli'.bConnected = c.bConnected
  BY DEF Verdict, Cli, SameIn
<1>2. /\ gui' \in [dialog : {"start", "open", "ended"},
                   bConnected : BOOLEAN, bFailed : BOOLEAN,
                   bInProgress : BOOLEAN]
      /\ gui'.bConnected = FALSE /\ gui'.dialog = gui.dialog
  BY DEF Verdict, TypeOK
<1>3. /\ calls' \in [ok : Nat, fail : Nat, rcv : Nat, close : Nat]
      /\ calls'.ok = calls.ok
      /\ calls'.fail = calls.fail + 1
      /\ calls'.rcv = calls.rcv
  BY DEF Verdict, TypeOK
<1> QED BY <1>1, <1>2, <1>3 DEF OtherCalls

(* What holds wherever the callbacks are made. *)
LEMMA OpenFacts ==
  ASSUME IInv, cli.alive
  PROVE  gui.dialog # "start"
BY DEF IInv, Fresh, NewCli

(* A client that tells of the end of the connection keeps IInv, wherever   *)
(* the pass goes on.                                                       *)
LEMMA ToldStep ==
  ASSUME IInv, cli.alive, OnClose(cli) \/ (cli.hSocket /\ Close(cli)),
         UNCHANGED <<link, inbox, sent, now>>,
         \/ pc' = pc /\ pc = "idle"
         \/ pc' = "idle" /\ ~cli.connectInProgress
         \/ pc' = "write" /\ pc = "idle" /\ link \in Over /\ cli'.hSocket
  PROVE  IInv'
<1>1. TypeOK /\ cli \in Cli BY DEF IInv, TypeOK
<1>2. /\ cli' \in Cli /\ SameIn(cli', cli) /\ cli'.bConnected = FALSE
      /\ gui' \in [dialog : {"start", "open", "ended"},
                   bConnected : BOOLEAN, bFailed : BOOLEAN,
                   bInProgress : BOOLEAN]
      /\ gui'.bConnected = FALSE
      /\ calls' \in [ok : Nat, fail : Nat, rcv : Nat, close : Nat]
      /\ calls'.ok = calls.ok /\ calls'.fail = calls.fail
      /\ OtherCalls
  BY <1>1, OnCloseFacts, CloseFacts
<1>3. gui.dialog # "start" BY OpenFacts
<1>4. TypeOK' BY <1>1, <1>2 DEF TypeOK
<1> QED BY <1>2, <1>3, <1>4
        DEF IInv, TypeOK, OneVerdict, ConnectedBeforeRcv, GuiAgrees, Fresh,
            Outstanding, Eventful, FirstHeader,
            OtherCalls, SameIn

-----------------------------------------------------------------------------
(* The initial states and the steps outside the polling pass *)

(* The invariant holds at the start. *)
LEMMA InitIInv == ASSUME Init PROVE IInv
BY BoundsAssumption
   DEF Init, NewCli, Cli, Link, Over, IInv, TypeOK, OneVerdict,
       ConnectedBeforeRcv, GuiAgrees, Fresh, Outstanding, Eventful,
       FirstHeader

(* Begin keeps the invariant. *)
LEMMA BeginStep == ASSUME IInv, Begin PROVE IInv'
<1> DEFINE open == [dialog |-> "open", bConnected |-> FALSE,
                    bFailed |-> FALSE, bInProgress |-> TRUE]
<1>1. /\ calls.ok = 0 /\ calls.fail = 0 /\ calls.rcv = 0
      /\ pc = "idle" /\ link = "none" /\ inbox = 0
      /\ now \in 0..MaxTime /\ sent \in 0..MaxIn
      /\ calls \in [ok : Nat, fail : Nat, rcv : Nat, close : Nat]
  BY DEF Begin, IInv, Fresh, TypeOK
<1>2. PICK t : t = Started OBVIOUS
<1>3. t \in Cli /\ t.bConnected = FALSE /\ t.rcvingHdr = TRUE
  <2>1. PICK n : n = NewCli OBVIOUS
  <2>2. n \in Cli /\ n.bConnected = FALSE /\ n.rcvingHdr = TRUE
    BY <2>1, BoundsAssumption DEF NewCli, Cli
  <2>3. t = [n EXCEPT !.alive = TRUE] BY <1>2, <2>1 DEF Started
  <2> QED BY <2>2, <2>3 DEF Cli
<1>4. /\ cli' \in Cli /\ cli'.bConnected = FALSE /\ cli'.rcvingHdr = TRUE
      /\ link' \in {"none", "trying"}
      /\ link' = "trying" => cli'.connectInProgress = TRUE
      /\ gui' \in [dialog : {"start", "open", "ended"},
                   bConnected : BOOLEAN, bFailed : BOOLEAN,
                   bInProgress : BOOLEAN]
      /\ gui'.dialog = "open" /\ gui'.bConnected = FALSE
      /\ calls' \in [ok : Nat, fail : Nat, rcv : Nat, close : Nat]
      /\ calls'.ok = 0 /\ calls'.fail = 0 /\ calls'.rcv = 0
  <2>1. PICK u : u = Socket(t) OBVIOUS
  <2>2. PICK v : v = Connect(u) OBVIOUS
  <2>3. /\ u \in Cli /\ u.bConnected = FALSE /\ u.rcvingHdr = TRUE
        /\ v \in Cli /\ v.bConnected = FALSE /\ v.rcvingHdr = TRUE
        /\ v.connectInProgress = TRUE
    BY <1>3, <2>1, <2>2 DEF Socket, Connect, Cli
  <2>4. CASE /\ cli' = [v EXCEPT !.tBegin = now, !.tTimeout = Timeout]
             /\ link' = "trying" /\ gui' = open /\ UNCHANGED calls
    BY <1>1, <2>3, <2>4 DEF Cli
  <2>5. CASE /\ cli' \in {t, u, v}
             /\ gui' = open /\ UNCHANGED <<calls, link>>
    BY <1>1, <1>3, <2>3, <2>5
  <2>6. CASE /\ cli' = [t EXCEPT !.outtaHere = TRUE]
             /\ gui' = [open EXCEPT !.bFailed = TRUE]
             /\ calls' = [calls EXCEPT !.close = @ + 1]
             /\ UNCHANGED link
    <3>1. cli' \in Cli /\ cli'.bConnected = FALSE /\ cli'.rcvingHdr = TRUE
      BY <1>3, <2>6 DEF Cli
    <3>2. PICK g : g = open OBVIOUS
    <3>3. g \in [dialog : {"start", "open", "ended"}, bConnected : BOOLEAN,
                bFailed : BOOLEAN, bInProgress : BOOLEAN]
          /\ g.dialog = "open" /\ g.bConnected = FALSE
      BY <3>2
    <3>4. gui' = [g EXCEPT !.bFailed = TRUE] BY <2>6, <3>2
    <3>5. /\ gui' \in [dialog : {"start", "open", "ended"},
                       bConnected : BOOLEAN, bFailed : BOOLEAN,
                       bInProgress : BOOLEAN]
          /\ gui'.dialog = "open" /\ gui'.bConnected = FALSE
      BY <3>3, <3>4
    <3>6. /\ calls' \in [ok : Nat, fail : Nat, rcv : Nat, close : Nat]
          /\ calls'.ok = 0 /\ calls'.fail = 0 /\ calls'.rcv = 0
      BY <1>1, <2>6
    <3> QED BY <1>1, <2>6, <3>1, <3>5, <3>6
  <2>7. BeginConnection(open) BY DEF Begin
  <2> HIDE DEF open
  <2> QED BY <1>2, <2>1, <2>2, <2>4, <2>5, <2>6, <2>7
          DEF BeginConnection, CreateFails, ConnectFails
<1>5. /\ pc' = "idle" /\ inbox' = 0 /\ now' \in 0..MaxTime
      /\ sent' \in 0..MaxIn
  BY <1>1 DEF Begin
<1>6. TypeOK' BY <1>4, <1>5 DEF TypeOK, Link
<1>7. OneVerdict' BY <1>4 DEF OneVerdict
<1>8. ConnectedBeforeRcv' BY <1>4 DEF ConnectedBeforeRcv
<1>9. GuiAgrees' /\ Fresh' BY <1>4 DEF GuiAgrees, Fresh
<1>10. Outstanding' BY <1>4 DEF Outstanding
<1>11. Eventful' BY <1>4, <1>5 DEF Eventful
<1>12. FirstHeader' BY <1>4 DEF FirstHeader
<1> QED BY <1>6, <1>7, <1>8, <1>9, <1>10, <1>11, <1>12 DEF IInv

(* GuiTimer keeps the invariant. *)
LEMMA GuiTimerStep == ASSUME IInv, GuiTimer PROVE IInv'
<1>1. /\ gui' \in [dialog : {"start", "open", "ended"},
                   bConnected : BOOLEAN, bFailed : BOOLEAN,
                   bInProgress : BOOLEAN]
      /\ gui'.dialog = "open" /\ gui.dialog = "open"
      /\ gui'.bConnected = gui.bConnected
  BY DEF GuiTimer, IInv, TypeOK
<1>2. UNCHANGED <<cli, calls, pc, link, inbox, sent, now>> BY DEF GuiTimer
<1> QED BY <1>1, <1>2
        DEF IInv, TypeOK, OneVerdict, ConnectedBeforeRcv, GuiAgrees, Fresh,
            Outstanding, Eventful, FirstHeader

(* Click keeps the invariant. *)
LEMMA ClickStep == ASSUME IInv, Click PROVE IInv'
BY DEF Click, Cli, IInv, TypeOK, OneVerdict, ConnectedBeforeRcv, GuiAgrees,
       Fresh, Outstanding, Eventful, FirstHeader

(* Cancel keeps the invariant. *)
LEMMA CancelStep == ASSUME IInv, Cancel PROVE IInv'
<1>1. /\ gui' \in [dialog : {"start", "open", "ended"},
                   bConnected : BOOLEAN, bFailed : BOOLEAN,
                   bInProgress : BOOLEAN]
      /\ gui'.dialog = "ended"
  BY DEF Cancel, IInv, TypeOK
<1>2. /\ cli' \in Cli /\ cli'.bConnected = FALSE
      /\ cli'.rcvingHdr = cli.rcvingHdr
      /\ cli'.connectInProgress = cli.connectInProgress
  BY DEF Cancel, IInv, TypeOK, Cli
<1>3. /\ link' = "none" /\ inbox' = 0 /\ pc' = "idle" /\ pc = "idle"
      /\ UNCHANGED <<calls, sent, now>>
  BY DEF Cancel
<1> QED BY <1>1, <1>2, <1>3
        DEF IInv, TypeOK, OneVerdict, ConnectedBeforeRcv, GuiAgrees, Fresh,
            Outstanding, Eventful, FirstHeader, Link

(* What TCP, the peer and the clock do keeps the invariant. *)
LEMMA TcpStep ==
  ASSUME IInv,
         \/ Resolve \/ PeerSend \/ PeerClose
         \/ \E how \in {"reset", "broken"} : Lose(how)
         \/ Tick
  PROVE  IInv'
<1>1. CASE Resolve
  BY <1>1 DEF Resolve, Link, Over, IInv, TypeOK, OneVerdict,
              ConnectedBeforeRcv, GuiAgrees, Fresh, Outstanding, Eventful,
              FirstHeader
<1>2. CASE PeerSend
  BY <1>2, BoundsAssumption
     DEF PeerSend, IInv, TypeOK, OneVerdict, ConnectedBeforeRcv, GuiAgrees,
         Fresh, Outstanding, Eventful, FirstHeader
<1>3. CASE PeerClose
  BY <1>3 DEF PeerClose, Link, Over, IInv, TypeOK, OneVerdict,
              ConnectedBeforeRcv, GuiAgrees, Fresh, Outstanding, Eventful,
              FirstHeader
<1>4. CASE \E how \in {"reset", "broken"} : Lose(how)
  BY <1>4 DEF Lose, Link, Over, IInv, TypeOK, OneVerdict,
              ConnectedBeforeRcv, GuiAgrees, Fresh, Outstanding, Eventful,
              FirstHeader
<1>5. CASE Tick
  BY <1>5, BoundsAssumption
     DEF Tick, IInv, TypeOK, OneVerdict, ConnectedBeforeRcv, GuiAgrees,
         Fresh, Outstanding, Eventful, FirstHeader
<1> QED BY <1>1, <1>2, <1>3, <1>4, <1>5

-----------------------------------------------------------------------------
(* The polling pass *)

(* SelectError keeps the invariant. *)
LEMMA SelectErrorStep == ASSUME IInv, SelectError PROVE IInv'
BY ToldStep DEF SelectError

(* The write event of a pass. *)
LEMMA WriteStep == ASSUME IInv, Write PROVE IInv'
<1>1. TypeOK /\ cli \in Cli BY DEF IInv, TypeOK
<1>2. /\ pc = "write" /\ pc' = "idle" /\ link \in Over
      /\ gui.dialog # "start"
      /\ UNCHANGED <<link, inbox, sent, now>>
      /\ cli.alive /\ cli.hSocket
  BY DEF Write, IInv, Eventful, Fresh
<1>3. CASE /\ cli.connectInProgress
           /\ Verdict([cli EXCEPT !.connectInProgress = FALSE,
                                  !.holdoff = Holdoff], TRUE)
  <2>1. PICK b : b = [cli EXCEPT !.connectInProgress = FALSE] OBVIOUS
  <2>2. b \in Cli /\ b.connectInProgress = FALSE
    BY <1>1, <2>1 DEF Cli
  <2>3. PICK c : c = [b EXCEPT !.holdoff = Holdoff] OBVIOUS
  <2>4. c \in Cli /\ c.connectInProgress = FALSE
    BY <2>2, <2>3, BoundsAssumption DEF Cli
  <2>5. Verdict(c, TRUE) BY <1>3, <2>1, <2>3
  <2>6. calls.ok = 0 /\ calls.fail = 0
    BY <1>1, <1>2, <1>3 DEF IInv, TypeOK, Outstanding, Over
  <2>7. /\ cli' \in Cli /\ cli'.connectInProgress = FALSE
        /\ cli'.bConnected = TRUE
        /\ gui' \in [dialog : {"start", "open", "ended"},
                     bConnected : BOOLEAN, bFailed : BOOLEAN,
                     bInProgress : BOOLEAN]
        /\ gui'.bConnected = TRUE /\ gui'.dialog # "start"
        /\ calls' \in [ok : Nat, fail : Nat, rcv : Nat, close : Nat]
        /\ calls'.ok = calls.ok + 1 /\ calls'.fail = calls.fail
    BY <1>1, <1>2, <2>4, <2>5, MadeFacts DEF OtherCalls, SameIn
  <2>8. TypeOK' BY <1>1, <1>2, <2>7 DEF TypeOK
  <2>9. calls'.ok = 1 /\ calls'.fail = 0 BY <2>6, <2>7
  <2>10. OneVerdict' /\ ConnectedBeforeRcv'
    BY <2>9 DEF OneVerdict, ConnectedBeforeRcv
  <2>11. GuiAgrees' /\ Fresh' BY <2>7 DEF GuiAgrees, Fresh
  <2>12. Outstanding' BY <2>7, <2>9 DEF Outstanding
  <2>13. Eventful' BY <1>2 DEF IInv, Eventful
  <2>14. FirstHeader' BY <2>9 DEF FirstHeader
  <2> QED BY <2>8, <2>10, <2>11, <2>12, <2>13, <2>14 DEF IInv
<1>4. CASE /\ ~cli.connectInProgress
           /\ cli.outtaHere \/ ~cli.pending
           /\ UNCHANGED <<cli, gui, calls>>
  BY <1>2, <1>4
     DEF IInv, TypeOK, OneVerdict, ConnectedBeforeRcv, GuiAgrees, Fresh,
            Outstanding, Eventful, FirstHeader
<1>5. CASE /\ ~cli.connectInProgress
           /\ \E rest \in BOOLEAN : cli' = [cli EXCEPT !.pending = rest]
           /\ UNCHANGED <<gui, calls>>
  <2>1. /\ cli' \in Cli /\ SameIn(cli', cli)
        /\ cli'.bConnected = cli.bConnected
    BY <1>1, <1>5 DEF Cli, SameIn
  <2> QED BY <1>2, <1>5, <2>1
          DEF IInv, TypeOK, OneVerdict, ConnectedBeforeRcv, GuiAgrees, Fresh,
            Outstanding, Eventful, FirstHeader, SameIn
<1>6. CASE ~cli.connectInProgress /\ Close(cli)
  BY <1>2, <1>6, ToldStep
<1> QED BY <1>3, <1>4, <1>5, <1>6 DEF Write

(* An attempt that failed for good. *)
LEMMA FailedStep ==
  ASSUME IInv, cli.alive, pc = "idle", link = "failed",
         cli.connectInProgress,
         NEW c \in Cli, c.rcvingHdr = cli.rcvingHdr,
         c.bConnected = cli.bConnected,
         Verdict(c, FALSE), link' = "none",
         UNCHANGED <<pc, inbox, sent, now>>
  PROVE  IInv'
<1>1. TypeOK /\ cli \in Cli BY DEF IInv, TypeOK
<1>2. calls.ok = 0 /\ calls.fail = 0 /\ calls.rcv = 0
  BY <1>1 DEF IInv, Outstanding, TypeOK, ConnectedBeforeRcv
<1>3. cli.bConnected = FALSE /\ cli.rcvingHdr = TRUE
  BY <1>1, <1>2 DEF IInv, Outstanding, FirstHeader, Cli
<1>4. inbox = 0 BY <1>1 DEF IInv, Eventful, TypeOK
<1>5. gui.dialog # "start" BY OpenFacts
<1>6. /\ cli' \in Cli /\ cli'.bConnected = FALSE /\ cli'.rcvingHdr = TRUE
      /\ gui' \in [dialog : {"start", "open", "ended"},
                   bConnected : BOOLEAN, bFailed : BOOLEAN,
                   bInProgress : BOOLEAN]
      /\ gui'.bConnected = FALSE /\ gui'.dialog # "start"
      /\ calls' \in [ok : Nat, fail : Nat, rcv : Nat, close : Nat]
      /\ calls'.ok = calls.ok /\ calls'.fail = calls.fail + 1
      /\ calls'.rcv = calls.rcv
  BY <1>1, <1>3, <1>5, FailedFacts DEF OtherCalls, SameIn
<1>7. calls'.ok = 0 /\ calls'.fail = 1 /\ calls'.rcv = 0 BY <1>2, <1>6
<1>8. TypeOK' BY <1>1, <1>6 DEF TypeOK, Link
<1>9. OneVerdict' /\ ConnectedBeforeRcv'
  BY <1>7 DEF OneVerdict, ConnectedBeforeRcv
<1>10. GuiAgrees' /\ Fresh' BY <1>6 DEF GuiAgrees, Fresh
<1>11. Outstanding' BY <1>6 DEF Outstanding
<1>12. Eventful' BY <1>4 DEF Eventful
<1>13. FirstHeader' BY <1>6 DEF FirstHeader
<1> QED BY <1>8, <1>9, <1>10, <1>11, <1>12, <1>13 DEF IInv

(* The except event of a failed attempt: another attempt, or the end. *)
LEMMA ExceptStep ==
  ASSUME IInv, cli.alive, pc = "idle", link = "failed",
         cli.connectInProgress,
         OnConnectFailed([cli EXCEPT !.connectInProgress = FALSE]),
         UNCHANGED <<pc, inbox, sent, now>>
  PROVE  IInv'
<1>1. cli \in Cli BY DEF IInv, TypeOK
<1>2. PICK c : c = [cli EXCEPT !.connectInProgress = FALSE] OBVIOUS
<1>3. /\ c \in Cli /\ c.rcvingHdr = cli.rcvingHdr
      /\ c.bConnected = cli.bConnected
  BY <1>1, <1>2 DEF Cli
<1>4. CASE /\ cli' = Connect(c)
           /\ link' = "trying"
           /\ UNCHANGED <<gui, calls>>
  <2>1. /\ cli' \in Cli /\ cli'.bConnected = cli.bConnected
        /\ cli'.rcvingHdr = cli.rcvingHdr /\ cli'.connectInProgress = TRUE
    BY <1>3, <1>4 DEF Connect, Cli
  <2>2. gui.dialog # "start" BY OpenFacts
  <2>3. calls.ok + calls.fail = 0 /\ inbox = 0
    BY DEF IInv, Outstanding, Eventful, TypeOK
  <2>4. TypeOK' BY <1>4, <2>1 DEF IInv, TypeOK, Link
  <2>5. OneVerdict' /\ ConnectedBeforeRcv' /\ GuiAgrees'
    BY <1>4, <2>1 DEF IInv, OneVerdict, ConnectedBeforeRcv, GuiAgrees
  <2>6. Fresh' /\ Outstanding'
    BY <1>4, <2>1, <2>2, <2>3 DEF IInv, Fresh, Outstanding
  <2>7. Eventful' /\ FirstHeader'
    BY <1>4, <2>1, <2>3 DEF IInv, Eventful, FirstHeader
  <2> QED BY <2>4, <2>5, <2>6, <2>7 DEF IInv
<1>5. CASE /\ \E d \in ConnectFails(c) : Verdict(d, FALSE)
           /\ link' = "none"
  <2>1. PICK d \in ConnectFails(c) : Verdict(d, FALSE) BY <1>5
  <2>2. /\ d \in Cli /\ d.rcvingHdr = cli.rcvingHdr
        /\ d.bConnected = cli.bConnected
    BY <1>3, <2>1 DEF ConnectFails, Connect, Cli
  <2> QED BY <1>5, <2>1, <2>2, FailedStep
<1>6. CASE Verdict(c, FALSE) /\ link' = "none"
  BY <1>3, <1>6, FailedStep
<1> QED BY <1>2, <1>4, <1>5, <1>6 DEF OnConnectFailed

(* The read event, and whether the write event follows. *)
LEMMA ReadStep ==
  ASSUME IInv, pc = "idle", cli.alive, cli.hSocket, DoRcv, NEW nw \in BOOLEAN,
         nw = ((cli.connectInProgress \/ cli.pending) /\ WriteReady),
         pc' = IF cli'.hSocket /\ nw THEN "write" ELSE "idle",
         UNCHANGED <<link, sent, now>>
  PROVE  IInv'
<1>1. TypeOK /\ cli \in Cli BY DEF IInv, TypeOK
<1>2. gui.dialog # "start" BY OpenFacts
<1>3. nw => link \in Over BY DEF WriteReady, Over
<1>4. CASE /\ inbox > 0
           /\ inbox' = inbox - 1
           /\ cli' = [cli EXCEPT !.rcvingHdr = ~@]
           /\ calls' = [calls EXCEPT !.rcv = IF cli.rcvingHdr THEN @
                                            ELSE @ + 1]
           /\ UNCHANGED gui
  <2>1. link \in {"made", "eof"} BY <1>4 DEF IInv, Eventful
  <2>2. /\ cli' \in Cli /\ cli'.bConnected = cli.bConnected
        /\ cli'.connectInProgress = cli.connectInProgress
        /\ cli'.alive = cli.alive /\ cli'.hSocket = cli.hSocket
    BY <1>1, <1>4 DEF Cli
  <2>3. /\ calls' \in [ok : Nat, fail : Nat, rcv : Nat, close : Nat]
        /\ calls'.ok = calls.ok /\ calls'.fail = calls.fail
    BY <1>1, <1>4 DEF TypeOK
  <2>4. cli.rcvingHdr => calls'.rcv = calls.rcv
    BY <1>1, <1>4 DEF TypeOK
  <2>5. inbox' \in Nat BY <1>1, <1>4 DEF TypeOK
  <2>6. calls.ok = 0 => cli.connectInProgress /\ cli.rcvingHdr
    BY <1>1, <2>1 DEF IInv, Outstanding, FirstHeader
  <2>7. calls.ok = 0 => nw BY <2>1, <2>6 DEF WriteReady
  <2>8. TypeOK' BY <1>1, <1>4, <2>2, <2>3, <2>5 DEF TypeOK
  <2>9. OneVerdict' /\ GuiAgrees' /\ Fresh'
    BY <1>2, <1>4, <2>2, <2>3 DEF IInv, OneVerdict, GuiAgrees, Fresh
  <2>10. ConnectedBeforeRcv'
    <3>1. calls.ok \in Nat BY <1>1 DEF TypeOK
    <3>2. CASE calls.ok = 0
      BY <2>3, <2>4, <2>6, <3>2 DEF IInv, ConnectedBeforeRcv
    <3>3. CASE calls.ok > 0 BY <2>3, <3>3 DEF ConnectedBeforeRcv
    <3> QED BY <3>1, <3>2, <3>3
  <2>11. Outstanding' BY <2>2, <2>3 DEF IInv, Outstanding
  <2>12. Eventful' BY <1>3, <2>1, <2>2 DEF Eventful
  <2>13. FirstHeader' BY <2>2, <2>3, <2>6, <2>7 DEF FirstHeader
  <2> QED BY <2>8, <2>9, <2>10, <2>11, <2>12, <2>13 DEF IInv
<1>5. CASE Close(cli) /\ UNCHANGED inbox
  <2>1. ~cli'.hSocket BY <1>1, <1>5, CloseFacts
  <2>2. pc' = "idle" BY <2>1
  <2> QED BY <1>5, <2>2, ToldStep
<1>6. CASE OnClose(cli) /\ UNCHANGED inbox
  BY <1>3, <1>6, ToldStep
<1>7. CASE UNCHANGED <<cli, gui, calls, inbox>>
  <2>1. TypeOK' BY <1>1, <1>7 DEF TypeOK
  <2>2. OneVerdict' /\ ConnectedBeforeRcv' /\ GuiAgrees' /\ Fresh'
    BY <1>2, <1>7
       DEF IInv, OneVerdict, ConnectedBeforeRcv, GuiAgrees, Fresh
  <2>3. Outstanding' BY <1>7 DEF IInv, Outstanding
  <2>4. Eventful' BY <1>3, <1>7 DEF IInv, Eventful
  <2>5. FirstHeader' BY <1>7 DEF IInv, FirstHeader
  <2> QED BY <2>1, <2>2, <2>3, <2>4, <2>5 DEF IInv
<1> QED BY <1>4, <1>5, <1>6, <1>7 DEF DoRcv

(* Pass keeps the invariant. *)
LEMMA PassStep == ASSUME IInv, Pass PROVE IInv'
<1>1. TypeOK /\ cli \in Cli BY DEF IInv, TypeOK
<1>2. /\ pc = "idle" /\ cli.alive /\ cli.hSocket
      /\ UNCHANGED <<sent, now>>
  BY DEF Pass
<1>3. gui.dialog # "start" BY <1>2, OpenFacts
<1>4. PICK nw \in BOOLEAN :
         nw = ((cli.connectInProgress \/ cli.pending) /\ WriteReady)
  OBVIOUS
<1>5. CASE HoldOff
  <2>1. /\ cli' \in Cli /\ cli'.bConnected = cli.bConnected
        /\ cli'.connectInProgress = cli.connectInProgress
        /\ cli'.rcvingHdr = cli.rcvingHdr
    BY <1>1, <1>5, BoundsAssumption DEF HoldOff, Cli
  <2>2. UNCHANGED <<gui, calls, pc, link, inbox>> BY <1>5 DEF HoldOff
  <2>3. TypeOK' BY <1>1, <1>2, <2>1, <2>2 DEF TypeOK
  <2>4. OneVerdict' /\ ConnectedBeforeRcv' /\ GuiAgrees' /\ Fresh'
    BY <1>3, <2>1, <2>2
       DEF IInv, OneVerdict, ConnectedBeforeRcv, GuiAgrees, Fresh
  <2>5. Outstanding' /\ FirstHeader'
    BY <2>1, <2>2 DEF IInv, Outstanding, FirstHeader
  <2>6. Eventful' BY <1>2, <2>2 DEF IInv, Eventful
  <2> QED BY <2>3, <2>4, <2>5, <2>6 DEF IInv
<1>6. CASE /\ link = "failed" /\ cli.connectInProgress
           /\ OnConnectFailed([cli EXCEPT !.connectInProgress = FALSE])
           /\ UNCHANGED <<pc, inbox>>
  BY <1>2, <1>6, ExceptStep
<1>7. CASE /\ DoRcv
           /\ pc' = IF cli'.hSocket /\ nw THEN "write" ELSE "idle"
           /\ UNCHANGED link
  BY <1>2, <1>4, <1>7, ReadStep
<1>8. CASE nw /\ pc' = "write" /\ UNCHANGED <<cli, gui, calls, link, inbox>>
  <2>1. link \in Over BY <1>4, <1>8 DEF WriteReady, Over
  <2>2. TypeOK' BY <1>1, <1>2, <1>8 DEF TypeOK
  <2>3. OneVerdict' /\ ConnectedBeforeRcv' /\ GuiAgrees' /\ Fresh'
    BY <1>3, <1>8
       DEF IInv, OneVerdict, ConnectedBeforeRcv, GuiAgrees, Fresh
  <2>4. Outstanding' BY <1>8 DEF IInv, Outstanding
  <2>5. Eventful' BY <1>2, <1>8, <2>1 DEF IInv, Eventful
  <2>6. FirstHeader' BY <1>2, <1>8 DEF IInv, FirstHeader
  <2> QED BY <2>2, <2>3, <2>4, <2>5, <2>6 DEF IInv
<1> QED BY <1>4, <1>5, <1>6, <1>7, <1>8 DEF Pass

-----------------------------------------------------------------------------
(* Theorems *)

(* Every step keeps the invariant. *)
LEMMA NextIInv == ASSUME IInv, [Next]_vars PROVE IInv'
<1>1. CASE Begin \/ GuiTimer \/ Click \/ Cancel
  BY <1>1, BeginStep, GuiTimerStep, ClickStep, CancelStep
<1>2. CASE Pass \/ SelectError \/ Write
  BY <1>2, PassStep, SelectErrorStep, WriteStep
<1>3. CASE \/ Resolve \/ PeerSend \/ PeerClose
           \/ \E how \in {"reset", "broken"} : Lose(how)
           \/ Tick
  BY <1>3, TcpStep
<1>4. CASE UNCHANGED vars
  BY <1>4 DEF vars, IInv, TypeOK, OneVerdict, ConnectedBeforeRcv, GuiAgrees,
              Fresh, Outstanding, Eventful, FirstHeader
<1> QED BY <1>1, <1>2, <1>3, <1>4 DEF Next

(* The inductive invariant. *)
LEMMA IInvHolds == Spec => []IInv
<1>1. Init => IInv BY InitIInv
<1>2. IInv /\ [Next]_vars => IInv' BY NextIInv
<1> QED BY <1>1, <1>2, PTL DEF Spec

(* Every variable keeps its type. *)
THEOREM TypeOKHolds == Spec => []TypeOK
<1>1. IInv => TypeOK BY DEF IInv
<1> QED BY <1>1, IInvHolds, PTL

(* However many attempts BeginConnection's time limit allows, and however  *)
(* they end, OnConnect calls OnConnection once.                            *)
THEOREM OneVerdictHolds == Spec => []OneVerdict
<1>1. IInv => OneVerdict BY DEF IInv
<1> QED BY <1>1, IInvHolds, PTL

(* No message is handed to OnRcv before OnConnection, though DoRcv comes   *)
(* before OnConnect in a pass.                                             *)
THEOREM ConnectedBeforeRcvHolds == Spec => []ConnectedBeforeRcv
<1>1. IInv => ConnectedBeforeRcv BY DEF IInv
<1> QED BY <1>1, IInvHolds, PTL

(* g_bConnected and CGenClient2::m_bConnected agree.                       *)
THEOREM GuiAgreesHolds == Spec => []GuiAgrees
<1>1. IInv => GuiAgrees BY DEF IInv
<1> QED BY <1>1, IInvHolds, PTL

-----------------------------------------------------------------------------
(* What a step may do to the client, the callbacks and the dialog, as far  *)
(* as the theorems below are concerned.                                    *)

(* The client keeps its handle, its time limit and what it believes. *)
Keeps(c, d) ==
  /\ c.alive = d.alive /\ c.hSocket = d.hSocket
  /\ c.bConnected = d.bConnected /\ c.outtaHere = d.outtaHere
  /\ c.tTimeout = d.tTimeout

(* The client is open for callbacks. *)
Serving == cli.alive /\ cli.hSocket /\ ~cli.outtaHere

(* BeginConnection: it succeeded, or no time limit was noted. *)
Begins ==
  /\ gui.dialog = "start" /\ gui'.dialog = "open" /\ pc' = "idle"
  /\ calls'.ok = 0 /\ calls'.fail = 0 /\ calls'.rcv = 0
  /\ calls'.close = IF cli'.outtaHere THEN 1 ELSE 0
  /\ cli'.alive /\ ~cli'.bConnected
  /\ cli'.tTimeout > 0 =>
       /\ cli'.hSocket /\ cli'.connectInProgress /\ ~cli'.outtaHere
       /\ link' = "trying"

(* The client is deleted. *)
Ends ==
  /\ gui.dialog = "open" /\ gui'.dialog = "ended" /\ pc' = "idle"
  /\ ~cli'.alive /\ ~cli'.bConnected /\ cli'.outtaHere = cli.outtaHere
  /\ calls' = calls

(* Nothing is called but, it may be, OnRcv. *)
Continues ==
  /\ gui'.dialog = gui.dialog /\ Keeps(cli', cli)
  /\ cli.connectInProgress => cli'.connectInProgress
  /\ link # "none" => link' # "none"
  /\ link = "reset" => link' = "reset"
  /\ pc' \in {pc, "idle"} \/ Serving
  /\ \/ calls' = calls
     \/ Serving /\ calls' = [calls EXCEPT !.rcv = @ + 1]

(* OnSocketClose is called. *)
Closes ==
  /\ gui'.dialog = gui.dialog
  /\ Serving /\ cli'.alive /\ cli'.outtaHere /\ ~cli'.bConnected
  /\ calls' = [calls EXCEPT !.close = @ + 1]
  /\ pc' = "idle" \/ link' = "reset"

(* OnConnection is called. *)
Connects ==
  /\ gui'.dialog = gui.dialog
  /\ pc = "write" /\ pc' = "idle" /\ link' = link
  /\ cli'.alive = cli.alive /\ cli'.outtaHere = cli.outtaHere
  /\ calls' = [calls EXCEPT !.ok = @ + 1]
Fails ==
  /\ gui'.dialog = gui.dialog
  /\ Serving /\ pc' = "idle"
  /\ cli'.alive /\ ~cli'.outtaHere
  /\ calls' = [calls EXCEPT !.fail = @ + 1]

(* A Close or an OnClose of a client that is served. *)
LEMMA ToldEffect ==
  ASSUME IInv, Serving, OnClose(cli) \/ Close(cli),
         pc' = "idle" \/ link' = "reset"
  PROVE  Closes
<1>1. cli \in Cli /\ TypeOK BY DEF IInv, TypeOK
<1>2. ASSUME NEW c \in Cli, c.alive, OnClose(c) PROVE Closes
  <2>1. cli'.alive /\ cli'.outtaHere /\ ~cli'.bConnected
    BY <1>2 DEF OnClose, Cli
  <2>2. gui'.dialog = gui.dialog BY <1>1, <1>2 DEF OnClose, TypeOK
  <2>3. calls' = [calls EXCEPT !.close = @ + 1] BY <1>2 DEF OnClose
  <2> QED BY <2>1, <2>2, <2>3 DEF Closes
<1>3. PICK c : c = [cli EXCEPT !.hSocket = FALSE] OBVIOUS
<1>4. c \in Cli /\ c.alive BY <1>1, <1>3 DEF Cli, Serving
<1>5. CASE OnClose(cli) BY <1>1, <1>2, <1>5 DEF Serving
<1>6. CASE Close(cli) BY <1>2, <1>3, <1>4, <1>6 DEF Close, Serving
<1> QED BY <1>5, <1>6

(* What a client that Connect was called for is. *)
LEMMA ConnectIs ==
  ASSUME NEW c \in Cli
  PROVE  /\ Connect(c) \in Cli /\ Keeps(Connect(c), c)
         /\ Connect(c).connectInProgress
BY DEF Connect, Cli, Keeps

(* A step outside the polling pass. *)
LEMMA OwnEffect ==
  ASSUME IInv, GuiTimer \/ Click \/ Cancel
  PROVE  Continues \/ Ends
<1>1. cli \in Cli /\ TypeOK BY DEF IInv, TypeOK
<1>2. CASE GuiTimer
  <2>1. gui'.dialog = gui.dialog BY <1>1, <1>2 DEF GuiTimer, TypeOK
  <2> QED BY <1>2, <2>1 DEF GuiTimer, Continues, Keeps
<1>3. CASE Click
  <2>1. Keeps(cli', cli) /\ cli'.connectInProgress = cli.connectInProgress
    BY <1>1, <1>3 DEF Click, Cli, Keeps
  <2> QED BY <1>3, <2>1 DEF Click, Continues
<1>4. CASE Cancel
  <2>1. ~cli'.alive /\ ~cli'.bConnected /\ cli'.outtaHere = cli.outtaHere
    BY <1>1, <1>4 DEF Cancel, Cli
  <2>2. gui'.dialog = "ended" BY <1>1, <1>4 DEF Cancel, TypeOK
  <2> QED BY <1>4, <2>1, <2>2 DEF Cancel, Ends
<1> QED BY <1>2, <1>3, <1>4

(* What TCP, the peer and the clock do. *)
LEMMA TcpEffect ==
  ASSUME IInv,
         \/ Resolve \/ PeerSend \/ PeerClose
         \/ \E how \in {"reset", "broken"} : Lose(how)
         \/ Tick
  PROVE  Continues
BY DEF Resolve, PeerSend, PeerClose, Lose, Tick, Continues, Keeps

(* BeginConnection, and what its failures leave. *)
LEMMA BeginEffect ==
  ASSUME IInv, calls.close = 0, Begin
  PROVE  Begins
<1> DEFINE open == [dialog |-> "open", bConnected |-> FALSE,
                    bFailed |-> FALSE, bInProgress |-> TRUE]
<1>1. /\ calls.ok = 0 /\ calls.fail = 0 /\ calls.rcv = 0
      /\ pc = "idle" /\ gui.dialog = "start"
      /\ calls \in [ok : Nat, fail : Nat, rcv : Nat, close : Nat]
  BY DEF Begin, IInv, Fresh, TypeOK
<1>2. PICK t : t = Started OBVIOUS
<1>3. /\ t \in Cli /\ t.alive /\ ~t.bConnected /\ ~t.outtaHere
      /\ t.tTimeout = 0
  <2>1. PICK n : n = NewCli OBVIOUS
  <2>2. n \in Cli /\ ~n.bConnected /\ ~n.outtaHere /\ n.tTimeout = 0
    BY <2>1, BoundsAssumption DEF NewCli, Cli
  <2>3. t = [n EXCEPT !.alive = TRUE] BY <1>2, <2>1 DEF Started
  <2> QED BY <2>2, <2>3 DEF Cli
<1>4. PICK u : u = Socket(t) OBVIOUS
<1>5. /\ u \in Cli /\ u.alive /\ ~u.bConnected /\ ~u.outtaHere
      /\ u.tTimeout = 0 /\ u.hSocket
  BY <1>3, <1>4 DEF Socket, Cli
<1>6. PICK v : v = Connect(u) OBVIOUS
<1>7. /\ v \in Cli /\ v.alive /\ ~v.bConnected /\ ~v.outtaHere
      /\ v.tTimeout = 0 /\ v.hSocket /\ v.connectInProgress
  BY <1>5, <1>6, ConnectIs DEF Keeps
<1>8. pc' = "idle" BY <1>1 DEF Begin
<1>9. CASE /\ cli' = [v EXCEPT !.tBegin = now, !.tTimeout = Timeout]
           /\ link' = "trying" /\ gui' = open /\ UNCHANGED calls
  <2>1. PICK w : w = [v EXCEPT !.tBegin = now] OBVIOUS
  <2>2. /\ w \in Cli /\ w.alive /\ ~w.bConnected /\ ~w.outtaHere
        /\ w.hSocket /\ w.connectInProgress
    BY <1>7, <2>1 DEF Cli, IInv, TypeOK
  <2>3. cli' = [w EXCEPT !.tTimeout = Timeout] BY <1>9, <2>1
  <2>4. /\ cli'.alive /\ ~cli'.bConnected /\ ~cli'.outtaHere
        /\ cli'.hSocket /\ cli'.connectInProgress
    BY <2>2, <2>3 DEF Cli
  <2> QED BY <1>1, <1>8, <1>9, <2>4 DEF Begins
<1>10. CASE cli' \in {t, u, v} /\ gui' = open /\ UNCHANGED calls
  BY <1>1, <1>3, <1>5, <1>7, <1>8, <1>10 DEF Begins
<1>11. CASE /\ cli' = [t EXCEPT !.outtaHere = TRUE]
            /\ gui' = [open EXCEPT !.bFailed = TRUE]
            /\ calls' = [calls EXCEPT !.close = @ + 1]
  <2>1. cli'.alive /\ ~cli'.bConnected /\ cli'.outtaHere /\ cli'.tTimeout = 0
    BY <1>3, <1>11 DEF Cli
  <2>2. gui'.dialog = "open" BY <1>11
  <2>3. /\ calls'.ok = 0 /\ calls'.fail = 0 /\ calls'.rcv = 0
        /\ calls'.close = 1
    BY <1>1, <1>11
  <2> QED BY <1>1, <1>8, <2>1, <2>2, <2>3 DEF Begins
<1>12. BeginConnection(open) BY DEF Begin
<1> HIDE DEF open
<1> QED BY <1>2, <1>4, <1>6, <1>9, <1>10, <1>11, <1>12
        DEF BeginConnection, CreateFails, ConnectFails

(* The write event of a pass. *)
LEMMA WriteEffect ==
  ASSUME IInv, Write
  PROVE  Continues \/ Closes \/ Connects
<1>1. cli \in Cli /\ TypeOK BY DEF IInv, TypeOK
<1>2. /\ pc = "write" /\ pc' = "idle" /\ UNCHANGED link
      /\ cli.alive /\ cli.hSocket
  BY DEF Write, IInv, Eventful
<1>3. CASE Verdict([cli EXCEPT !.connectInProgress = FALSE,
                               !.holdoff = Holdoff], TRUE)
  <2>1. PICK b : b = [cli EXCEPT !.connectInProgress = FALSE] OBVIOUS
  <2>2. b \in Cli /\ b.alive = cli.alive /\ b.outtaHere = cli.outtaHere
    BY <1>1, <2>1 DEF Cli
  <2>3. PICK c : c = [b EXCEPT !.holdoff = Holdoff] OBVIOUS
  <2>4. c \in Cli /\ c.alive = cli.alive /\ c.outtaHere = cli.outtaHere
    BY <2>2, <2>3, BoundsAssumption DEF Cli
  <2>5. Verdict(c, TRUE) BY <1>3, <2>1, <2>3
  <2>6. cli'.alive = cli.alive /\ cli'.outtaHere = cli.outtaHere
    BY <2>4, <2>5 DEF Verdict, Cli
  <2>7. gui'.dialog = gui.dialog BY <1>1, <2>5 DEF Verdict, TypeOK
  <2>8. calls' = [calls EXCEPT !.ok = @ + 1] BY <2>5 DEF Verdict
  <2> QED BY <1>2, <2>6, <2>7, <2>8 DEF Connects
<1>4. CASE UNCHANGED <<cli, gui, calls>>
  BY <1>2, <1>4 DEF Continues, Keeps
<1>5. CASE /\ ~cli.connectInProgress
           /\ \E rest \in BOOLEAN : cli' = [cli EXCEPT !.pending = rest]
           /\ UNCHANGED <<gui, calls>>
  <2>1. Keeps(cli', cli) BY <1>1, <1>5 DEF Cli, Keeps
  <2> QED BY <1>2, <1>5, <2>1 DEF Continues
<1>6. CASE ~cli.outtaHere /\ Close(cli)
  BY <1>2, <1>6, ToldEffect DEF Serving
<1> QED BY <1>3, <1>4, <1>5, <1>6 DEF Write

(* The except event: another attempt, or the verdict. *)
LEMMA ExceptEffect ==
  ASSUME IInv, Serving, pc = "idle", UNCHANGED pc, link = "failed",
         OnConnectFailed([cli EXCEPT !.connectInProgress = FALSE])
  PROVE  Continues \/ Fails
<1>1. cli \in Cli /\ TypeOK BY DEF IInv, TypeOK
<1>2. PICK c : c = [cli EXCEPT !.connectInProgress = FALSE] OBVIOUS
<1>3. c \in Cli /\ Keeps(c, cli) BY <1>1, <1>2 DEF Cli, Keeps
<1>4. /\ Connect(c) \in Cli /\ Keeps(Connect(c), cli)
      /\ Connect(c).connectInProgress
  BY <1>3, ConnectIs DEF Keeps
<1>5. CASE /\ cli' = Connect(c)
           /\ link' = "trying"
           /\ UNCHANGED <<gui, calls>>
  BY <1>4, <1>5 DEF Continues
<1>6. ASSUME NEW d \in Cli, Keeps(d, cli), Verdict(d, FALSE) PROVE Fails
  <2>1. cli'.alive = cli.alive /\ cli'.outtaHere = cli.outtaHere
    BY <1>6 DEF Verdict, Cli, Keeps
  <2>2. gui'.dialog = gui.dialog BY <1>1, <1>6 DEF Verdict, TypeOK
  <2>3. calls' = [calls EXCEPT !.fail = @ + 1] BY <1>6 DEF Verdict
  <2> QED BY <2>1, <2>2, <2>3 DEF Fails, Serving
<1>7. CASE \E d \in ConnectFails(c) : Verdict(d, FALSE)
  BY <1>3, <1>4, <1>6, <1>7 DEF ConnectFails
<1>8. CASE Verdict(c, FALSE) BY <1>3, <1>6, <1>8
<1> QED BY <1>2, <1>5, <1>7, <1>8 DEF OnConnectFailed

(* The read event. *)
LEMMA ReadEffect ==
  ASSUME IInv, Serving, pc = "idle", DoRcv, UNCHANGED link,
         cli'.hSocket \/ pc' = "idle"
  PROVE  Continues \/ Closes
<1>1. cli \in Cli /\ TypeOK BY DEF IInv, TypeOK
<1>2. CASE /\ cli' = [cli EXCEPT !.rcvingHdr = ~@]
           /\ calls' = [calls EXCEPT !.rcv = IF cli.rcvingHdr THEN @
                                            ELSE @ + 1]
           /\ UNCHANGED gui
  <2>1. Keeps(cli', cli) /\ cli'.connectInProgress = cli.connectInProgress
    BY <1>1, <1>2 DEF Cli, Keeps
  <2>2. calls' = calls \/ calls' = [calls EXCEPT !.rcv = @ + 1]
    BY <1>1, <1>2 DEF TypeOK
  <2> QED BY <1>2, <2>1, <2>2 DEF Continues
<1>3. CASE Close(cli)
  <2>1. ~cli'.hSocket BY <1>1, <1>3, CloseFacts DEF Serving
  <2> QED BY <1>3, <2>1, ToldEffect
<1>4. CASE link = "reset" /\ OnClose(cli) BY <1>4, ToldEffect
<1>5. CASE UNCHANGED <<cli, gui, calls>> BY <1>5 DEF Continues, Keeps
<1> QED BY <1>2, <1>3, <1>4, <1>5 DEF DoRcv

(* A polling pass. *)
LEMMA PassEffect ==
  ASSUME IInv, Pass \/ SelectError
  PROVE  Continues \/ Closes \/ Fails
<1>1. cli \in Cli /\ TypeOK BY DEF IInv, TypeOK
<1>2. Serving /\ pc = "idle" BY DEF Pass, SelectError, Serving
<1>3. CASE SelectError BY <1>2, <1>3, ToldEffect DEF SelectError
<1>4. CASE HoldOff
  <2>1. Keeps(cli', cli) /\ cli'.connectInProgress = cli.connectInProgress
    BY <1>1, <1>4 DEF HoldOff, Cli, Keeps
  <2> QED BY <1>4, <2>1 DEF HoldOff, Continues
<1>5. CASE /\ link = "failed"
           /\ OnConnectFailed([cli EXCEPT !.connectInProgress = FALSE])
           /\ UNCHANGED pc
  BY <1>2, <1>5, ExceptEffect
<1>6. CASE DoRcv /\ UNCHANGED link /\ (cli'.hSocket \/ pc' = "idle")
  BY <1>2, <1>6, ReadEffect
<1>7. CASE UNCHANGED <<cli, gui, calls, link>>
  BY <1>2, <1>7 DEF Continues, Keeps
<1> QED BY <1>3, <1>4, <1>5, <1>6, <1>7 DEF Pass

(* Every step has one of the effects. *)
LEMMA NextEffect ==
  ASSUME IInv, gui.dialog = "start" => calls.close = 0, [Next]_vars
  PROVE  Begins \/ Ends \/ Continues \/ Closes \/ Connects \/ Fails
<1>1. CASE Begin BY <1>1, BeginEffect DEF Begin
<1>2. CASE GuiTimer \/ Click \/ Cancel BY <1>2, OwnEffect
<1>3. CASE Pass \/ SelectError BY <1>3, PassEffect
<1>4. CASE Write BY <1>4, WriteEffect
<1>5. CASE \/ Resolve \/ PeerSend \/ PeerClose
           \/ \E how \in {"reset", "broken"} : Lose(how)
           \/ Tick
  BY <1>5, TcpEffect
<1>6. CASE UNCHANGED vars BY <1>6 DEF vars, Continues, Keeps
<1> QED BY <1>1, <1>2, <1>3, <1>4, <1>5, <1>6 DEF Next

-----------------------------------------------------------------------------
(* The end of the connection *)

(* OnSocketClose was called once if the client has given up, and else not; *)
(* a pass goes on after it, and a client that has given up believes in a   *)
(* connection again, only when the connection was reset.                   *)
EndInv ==
  /\ calls.close \in {0, 1}
  /\ gui.dialog = "start" => calls.close = 0
  /\ gui.dialog # "open" => ~cli.alive /\ pc = "idle"
  /\ cli.outtaHere <=> calls.close = 1
  /\ cli.outtaHere /\ (pc = "write" \/ cli.bConnected) => link = "reset"

(* A client whose BeginConnection succeeded, and that has called nothing   *)
(* yet, still has what its call will come from: a handle that the timer    *)
(* polls, the flag of the attempt, and an attempt or a connection.         *)
Awaited ==
  /\ cli.alive /\ cli.tTimeout > 0
  /\ calls.ok + calls.fail + calls.close = 0
  => /\ cli.hSocket /\ ~cli.outtaHere /\ cli.connectInProgress
     /\ link # "none"

(* Every step keeps the first. *)
LEMMA NextEndInv ==
  ASSUME IInv, EndInv, [Next]_vars
  PROVE  EndInv'
<1>1. /\ calls \in [ok : Nat, fail : Nat, rcv : Nat, close : Nat]
      /\ calls'.close \in Nat /\ gui.dialog \in {"start", "open", "ended"}
      /\ cli.outtaHere \in BOOLEAN /\ cli'.outtaHere \in BOOLEAN
      /\ cli.bConnected \in BOOLEAN /\ cli.alive \in BOOLEAN
      /\ pc \in {"idle", "write"}
  BY NextIInv DEF IInv, TypeOK, Cli
<1>2. CASE Begins BY <1>1, <1>2 DEF Begins, EndInv
<1>3. CASE Ends BY <1>1, <1>3 DEF Ends, EndInv
<1>4. CASE Continues
  <2>1. calls'.close = calls.close BY <1>1, <1>4 DEF Continues
  <2> QED BY <1>1, <1>4, <2>1 DEF Continues, Keeps, Serving, EndInv
<1>5. CASE Closes
  <2>1. calls'.close = calls.close + 1 BY <1>1, <1>5 DEF Closes
  <2> QED BY <1>1, <1>5, <2>1 DEF Closes, Serving, EndInv
<1>6. CASE Connects
  <2>1. calls'.close = calls.close BY <1>1, <1>6 DEF Connects
  <2> QED BY <1>1, <1>6, <2>1 DEF Connects, EndInv
<1>7. CASE Fails
  <2>1. calls'.close = calls.close BY <1>1, <1>7 DEF Fails
  <2> QED BY <1>1, <1>7, <2>1 DEF Fails, Serving, EndInv
<1> QED BY <1>2, <1>3, <1>4, <1>5, <1>6, <1>7, NextEffect DEF EndInv

(* Every step keeps the second. *)
LEMMA NextAwaited ==
  ASSUME IInv, EndInv, Awaited, [Next]_vars
  PROVE  Awaited'
<1>1. /\ calls \in [ok : Nat, fail : Nat, rcv : Nat, close : Nat]
      /\ calls' \in [ok : Nat, fail : Nat, rcv : Nat, close : Nat]
  BY NextIInv DEF IInv, TypeOK
<1>2. CASE Begins BY <1>2 DEF Begins, Awaited
<1>3. CASE Ends BY <1>3 DEF Ends, Awaited
<1>4. CASE Continues
  <2>1. calls'.ok = calls.ok /\ calls'.fail = calls.fail
        /\ calls'.close = calls.close
    BY <1>1, <1>4 DEF Continues
  <2> QED BY <1>4, <2>1 DEF Continues, Keeps, Awaited
<1>5. CASE Closes \/ Connects \/ Fails
  <2>1. calls'.ok + calls'.fail + calls'.close # 0
    BY <1>1, <1>5 DEF Closes, Connects, Fails
  <2> QED BY <2>1 DEF Awaited
<1> QED BY <1>2, <1>3, <1>4, <1>5, NextEffect DEF EndInv

(* Both hold at the start. *)
LEMMA EndInvHolds == Spec => [](EndInv /\ Awaited)
<1>1. Init => EndInv /\ Awaited BY DEF Init, EndInv, Awaited, NewCli
<1>2. IInv /\ EndInv /\ Awaited /\ [Next]_vars => EndInv' /\ Awaited'
  BY NextEndInv, NextAwaited
<1> QED BY <1>1, <1>2, IInvHolds, PTL DEF Spec

(* OnSocketClose is called at most once, whichever of a close by the TCM,  *)
(* a reset, a failed select, a failed send and a failed Bind comes first,  *)
(* and however many of them come.                                          *)
ToldOnce == calls.close <= 1

(* No order of failures tells the GUI twice. *)
THEOREM ToldOnceHolds == Spec => []ToldOnce
<1>1. EndInv => ToldOnce BY DEF EndInv, ToldOnce
<1> QED BY <1>1, EndInvHolds, PTL

(* Once OnSocketClose was called no callback follows, but for the late     *)
(* OnConnection of a connection that was reset between the read event and  *)
(* the write event of one pass, and a client that was deleted calls        *)
(* nothing.                                                                *)
SilentAtTheEnd ==
  [][/\ calls.close > 0
          => calls' = calls \/ (link = "reset" /\ calls'.ok = 1
                                /\ calls' = [calls EXCEPT !.ok = 1])
     /\ gui.dialog = "ended" => calls' = calls]_vars

(* Every step keeps to it, for all events and bounds. *)
THEOREM SilentAtTheEndHolds == Spec => SilentAtTheEnd
<1> DEFINE A == /\ calls.close > 0
                     => calls' = calls \/ (link = "reset" /\ calls'.ok = 1
                                          /\ calls' = [calls EXCEPT !.ok = 1])
                /\ gui.dialog = "ended" => calls' = calls
<1>1. ASSUME IInv, IInv', EndInv, [Next]_vars PROVE A
  <2>1. /\ calls \in [ok : Nat, fail : Nat, rcv : Nat, close : Nat]
        /\ calls' \in [ok : Nat, fail : Nat, rcv : Nat, close : Nat]
        /\ calls'.ok + calls'.fail <= 1
    BY <1>1 DEF IInv, TypeOK, OneVerdict
  <2>2. CASE calls.close = 0
    <3>1. CASE gui.dialog = "ended"
      BY <1>1, <3>1, NextEffect
         DEF EndInv, Begins, Ends, Continues, Closes, Connects, Fails,
             Serving
    <3> QED BY <2>2, <3>1
  <2>3. CASE calls.close = 1
    <3>1. cli.outtaHere /\ ~Serving /\ gui.dialog # "start"
      BY <1>1, <2>3 DEF EndInv, Serving
    <3>2. CASE Connects
      <4>1. /\ link = "reset" /\ gui.dialog = "open"
            /\ calls' = [calls EXCEPT !.ok = calls.ok + 1]
        BY <1>1, <3>1, <3>2 DEF EndInv, Connects
      <4>2. calls'.ok = calls.ok + 1 BY <2>1, <4>1
      <4>3. calls'.ok = 1 BY <2>1, <4>2
      <4> QED BY <2>1, <4>1, <4>2, <4>3
    <3> QED BY <1>1, <3>1, <3>2, NextEffect
            DEF EndInv, Begins, Ends, Continues, Closes, Fails
  <2> QED BY <1>1, <2>2, <2>3 DEF EndInv
<1> QED BY <1>1, IInvHolds, EndInvHolds, PTL DEF Spec, SilentAtTheEnd

(* Where no connection is ever reset, bIsConnected is what its comment     *)
(* says: it is not true of a client that OnClose has given up.             *)
THEOREM ConnectedIsOpenHolds ==
  ASSUME "reset" \notin Events PROVE Spec => []ConnectedIsOpen
<1> DEFINE J == link # "reset"
<1>1. Init => J BY DEF Init
<1>2. J /\ [Next]_vars => J'
  BY DEF Next, vars, Begin, BeginConnection, CreateFails, GuiTimer, Click,
         Cancel, Pass, HoldOff, OnConnectFailed, SelectError, Write, Resolve,
         PeerSend, PeerClose, Lose, Tick
<1>3. J /\ EndInv => ConnectedIsOpen BY DEF EndInv, ConnectedIsOpen
<1> QED BY <1>1, <1>2, <1>3, EndInvHolds, PTL DEF Spec

(* No callback is waited for in vain: while none has come, the client that *)
(* BeginConnection made is polled, knows that an attempt is in progress,   *)
(* and TCP has an attempt or a connection to report.                       *)
THEOREM AwaitedHolds == Spec => []Awaited
BY EndInvHolds, PTL
=============================================================================
