----------------------------- MODULE GenClient -----------------------------
(***************************************************************************)
(* CGenClient2 from BeginConnection to its deletion, and the flags that    *)
(* the GUI keeps about it: the attempts to connect and their time limit,   *)
(* the order of the callbacks, and what each party believes about the      *)
(* connection.                                                             *)
(*                                                                         *)
(* The GUI has one thread.  pc is "write" in a polling pass between the    *)
(* read event and the write event; TCP, the TCM and the clock run at any   *)
(* time.  What is in the buffers is in GenSock; here a message is a header *)
(* and a body, which DoRcv takes in two passes.                            *)
(***************************************************************************)
EXTENDS Integers

CONSTANTS Timeout,    \* timeoutSeconds of BeginConnection
          Holdoff,    \* timer calls skipped after the connection is made
          MaxTime,    \* bound: the clock stops here
          MaxIn,      \* bound: messages the TCM sends
          Events      \* which of the events in Disturbance may happen

Disturbance == {"beginError", "retryError", "selectError",
                "reset", "broken", "delete"}

ASSUME BoundsAssumption == /\ Timeout \in Nat /\ Holdoff \in Nat
                           /\ MaxTime \in Nat \ {0} /\ MaxTime >= Timeout
                           /\ MaxIn \in Nat
ASSUME EventsAssumption == Events \subseteq Disturbance

VARIABLES cli,    \* the CGenClient2 object
          gui,    \* the dialog's globals
          calls,  \* history: how often each callback was made
          pc,     \* place in the polling pass
          link,   \* TCP: the attempt or the connection
          inbox,  \* TCP: headers and bodies that have arrived
          sent,   \* messages the TCM has sent
          now     \* time(NULL)

vars == <<cli, gui, calls, pc, link, inbox, sent, now>>

Cli == [alive : BOOLEAN,              \* g_client # 0
        hSocket : BOOLEAN,            \* m_hSocket is a socket
        connectInProgress : BOOLEAN,  \* m_bConnectInProgress
        sockConnected : BOOLEAN,      \* CGenCliSvr2_Sock::m_bConnected
        bConnected : BOOLEAN,         \* CGenClient2::m_bConnected
        outtaHere : BOOLEAN,          \* m_b_I_Am_So_Outta_Here
        holdoff : 0..Holdoff,         \* m_holdoff
        tBegin : 0..MaxTime,          \* m_tConnectionBegin
        tTimeout : {0, Timeout},      \* m_tConnectionTimeout
        rcvingHdr : BOOLEAN,          \* m_bRcvingHdr
        pending : BOOLEAN]            \* m_sendNPending # 0

Link == {"none", "trying", "failed", "made", "eof", "reset", "broken"}

NewCli == [alive |-> FALSE, hSocket |-> FALSE, connectInProgress |-> FALSE,
           sockConnected |-> FALSE, bConnected |-> FALSE, outtaHere |-> FALSE,
           holdoff |-> 0, tBegin |-> 0, tTimeout |-> 0, rcvingHdr |-> TRUE,
           pending |-> FALSE]

Init ==
  /\ cli = NewCli
  /\ gui = [dialog |-> "start", bConnected |-> FALSE, bFailed |-> FALSE,
            bInProgress |-> FALSE]
  /\ calls = [ok |-> 0, fail |-> 0, rcv |-> 0, close |-> 0]
  /\ pc = "idle"
  /\ link = "none" /\ inbox = 0 /\ sent = 0
  /\ now \in 0..1

-----------------------------------------------------------------------------
(* Callbacks *)

(* Mutant: the client's own flag is not cleared. *)
OnCloseKeepsFlag(c) ==
  /\ cli'   = [c EXCEPT !.outtaHere = TRUE]
  /\ gui'   = [gui EXCEPT !.bConnected = FALSE, !.bFailed = TRUE]
  /\ calls' = [calls EXCEPT !.close = @ + 1]

(* OnClose of a client c, and the application's OnSocketClose. *)
OnClose(c) ==
  /\ cli'   = [c EXCEPT !.bConnected = FALSE, !.outtaHere = TRUE]
  /\ gui'   = [gui EXCEPT !.bConnected = FALSE, !.bFailed = TRUE]
  /\ calls' = [calls EXCEPT !.close = @ + 1]

Close(c) == IF c.hSocket THEN OnClose([c EXCEPT !.hSocket = FALSE])
            ELSE cli' = c /\ UNCHANGED <<gui, calls>>

(* Mutant: the application does not note a failure. *)
VerdictUnnoted(c, ok) ==
  /\ cli'   = [c EXCEPT !.sockConnected = ok, !.bConnected = @ \/ ok]
  /\ gui'   = [gui EXCEPT !.bConnected = ok]
  /\ calls' = IF ok THEN [calls EXCEPT !.ok = @ + 1]
              ELSE [calls EXCEPT !.fail = @ + 1]

(* The end of OnConnect: the verdict is noted and OnConnection called. *)
Verdict(c, ok) ==
  /\ cli'   = [c EXCEPT !.sockConnected = ok, !.bConnected = @ \/ ok]
  /\ gui'   = [gui EXCEPT !.bConnected = ok, !.bFailed = ~ok]
  /\ calls' = IF ok THEN [calls EXCEPT !.ok = @ + 1]
              ELSE [calls EXCEPT !.fail = @ + 1]

(* Connect: an attempt begins. *)
Connect(c) == [c EXCEPT !.connectInProgress = TRUE]

(* What a Connect that fails at once makes of c: nothing when the host has *)
(* no address, and when connect fails m_bConnectInProgress stays set.      *)
ConnectFails(c) == {c, Connect(c)}

(* Mutants: the limit counts from the last attempt; a retry is made and    *)
(* the failure is reported all the same.                                   *)
OnConnectFailedAnew(c) ==
  \/ /\ c.tTimeout > 0
     /\ cli' = [c EXCEPT !.connectInProgress = TRUE]
     /\ link' = "trying"
     /\ UNCHANGED <<gui, calls>>
  \/ /\ c.tTimeout = 0
     /\ Verdict(c, FALSE)
     /\ link' = "none"
OnConnectFailedAndRetry(c) ==
  /\ Verdict([c EXCEPT !.connectInProgress = now < c.tBegin + c.tTimeout],
             FALSE)
  /\ link' = IF now < c.tBegin + c.tTimeout THEN "trying" ELSE "none"

(* OnConnect(-1): another attempt while there is time, else, or when that  *)
(* fails at once, the verdict.                                             *)
OnConnectFailed(c) ==
  \/ /\ now < c.tBegin + c.tTimeout
     /\ cli' = Connect(c)
     /\ link' = "trying"
     /\ UNCHANGED <<gui, calls>>
  \/ /\ now < c.tBegin + c.tTimeout
     /\ "retryError" \in Events
     /\ \E d \in ConnectFails(c) : Verdict(d, FALSE)
     /\ link' = "none"
  \/ /\ now >= c.tBegin + c.tTimeout
     /\ Verdict(c, FALSE)
     /\ link' = "none"

-----------------------------------------------------------------------------
(* The GUI *)

Started == [NewCli EXCEPT !.alive = TRUE]

(* Socket gives the client a handle. *)
Socket(c) == [c EXCEPT !.hSocket = TRUE]

(* Create of a client c, from a dialog whose flags are g, fails: there is  *)
(* no socket, or Bind fails and the Close that follows calls OnClose.      *)
CreateFails(c, g) ==
  \/ cli' = c /\ gui' = g /\ UNCHANGED calls
  \/ /\ cli' = [c EXCEPT !.outtaHere = TRUE]
     /\ gui' = [g EXCEPT !.bFailed = TRUE]
     /\ calls' = [calls EXCEPT !.close = @ + 1]

(* BeginConnection, which notes the time limit only if an attempt began.   *)
BeginConnection(g) ==
  \/ /\ cli' = [Connect(Socket(Started)) EXCEPT !.tBegin = now,
                                                !.tTimeout = Timeout]
     /\ link' = "trying"
     /\ gui' = g
     /\ UNCHANGED calls
  \/ /\ "beginError" \in Events
     /\ CreateFails(Started, g)
     /\ UNCHANGED link
  \/ /\ "beginError" \in Events
     /\ cli' \in ConnectFails(Socket(Started))
     /\ gui' = g
     /\ UNCHANGED <<calls, link>>

(* OnInitDialog's beginConnectionToTcm, which leaves an error at that.     *)
Begin ==
  /\ gui.dialog = "start" /\ now + Timeout <= MaxTime
  /\ BeginConnection([dialog |-> "open", bConnected |-> FALSE,
                      bFailed |-> FALSE, bInProgress |-> TRUE])
  /\ UNCHANGED <<pc, inbox, sent, now>>

(* CGuiDlg::OnTimer. *)
GuiTimer ==
  /\ gui.dialog = "open" /\ gui.bInProgress /\ ~gui.bFailed
  /\ cli.bConnected
  /\ gui' = [gui EXCEPT !.bInProgress = FALSE]
  /\ UNCHANGED <<cli, calls, pc, link, inbox, sent, now>>

(* OnBnClickedOk: send enqueues if the socket was ever connected. *)
Click ==
  /\ gui.dialog = "open" /\ pc = "idle"
  /\ cli' = [cli EXCEPT !.pending = @ \/ cli.sockConnected]
  /\ UNCHANGED <<gui, calls, pc, link, inbox, sent, now>>

(* OnBnClickedCancel: the client is deleted and the dialog ends. *)
Cancel ==
  /\ "delete" \in Events
  /\ gui.dialog = "open" /\ pc = "idle"
  /\ gui' = [gui EXCEPT !.dialog = "ended"]
  /\ cli' = [cli EXCEPT !.alive = FALSE, !.hSocket = FALSE,
                        !.bConnected = FALSE]
  /\ link' = "none" /\ inbox' = 0
  /\ UNCHANGED <<calls, pc, sent, now>>

-----------------------------------------------------------------------------
(* The polling pass *)

(* Mutant: one call of DoRcv takes the header and the body. *)
DoRcvAll ==
  /\ inbox > 1 /\ cli.rcvingHdr
  /\ inbox' = inbox - 2
  /\ calls' = [calls EXCEPT !.rcv = @ + 1]
  /\ UNCHANGED <<cli, gui>>

(* DoRcv: a header, or the body that completes a message; the end of the   *)
(* stream closes; a reset only calls OnClose; other errors are ignored.    *)
DoRcv ==
  \/ /\ inbox > 0
     /\ inbox' = inbox - 1
     /\ cli' = [cli EXCEPT !.rcvingHdr = ~@]
     /\ calls' = [calls EXCEPT !.rcv = IF cli.rcvingHdr THEN @ ELSE @ + 1]
     /\ UNCHANGED gui
  \/ /\ inbox = 0 /\ link = "eof"
     /\ Close(cli)
     /\ UNCHANGED inbox
  \/ /\ link = "reset"
     /\ OnClose(cli)
     /\ UNCHANGED inbox
  \/ /\ link = "broken"
     /\ UNCHANGED <<cli, gui, calls, inbox>>

ReadReady  == inbox > 0 \/ link \in {"eof", "reset", "broken"}
WriteReady == link \in {"made", "eof", "reset", "broken"}

(* Mutant: the count is not looked at. *)
HoldOffAlways ==
  /\ cli' = [cli EXCEPT !.holdoff = @ - 1]
  /\ UNCHANGED <<gui, calls, pc, link, inbox>>

(* A pass that is skipped after the connection was made. *)
HoldOff ==
  /\ cli.holdoff > 0
  /\ cli' = [cli EXCEPT !.holdoff = @ - 1]
  /\ UNCHANGED <<gui, calls, pc, link, inbox>>

(* OnTimer: held off, or the except event of an attempt that failed, or    *)
(* the read event, with the write event to follow if it was asked for and  *)
(* the handle is still valid.                                              *)
Pass ==
  LET nw == (cli.connectInProgress \/ cli.pending) /\ WriteReady IN
  /\ pc = "idle" /\ cli.alive /\ cli.hSocket /\ ~cli.outtaHere
  /\ \/ HoldOff
     \/ /\ cli.holdoff = 0 /\ link = "failed" /\ cli.connectInProgress
        /\ OnConnectFailed([cli EXCEPT !.connectInProgress = FALSE])
        /\ UNCHANGED <<pc, inbox>>
     \/ /\ cli.holdoff = 0 /\ ReadReady
        /\ DoRcv
        /\ pc' = IF cli'.hSocket /\ nw THEN "write" ELSE "idle"
        /\ UNCHANGED link
     \/ /\ cli.holdoff = 0 /\ ~ReadReady /\ nw
        /\ pc' = "write"
        /\ UNCHANGED <<cli, gui, calls, link, inbox>>
  /\ UNCHANGED <<sent, now>>

(* A pass whose select fails closes the socket. *)
SelectError ==
  /\ "selectError" \in Events
  /\ pc = "idle" /\ cli.alive /\ cli.hSocket /\ ~cli.outtaHere
  /\ cli.holdoff = 0
  /\ Close(cli)
  /\ UNCHANGED <<pc, link, inbox, sent, now>>

(* The write event: the connection is made, or DoSend.                     *)
Write ==
  /\ pc = "write"
  /\ pc' = "idle"
  /\ \/ /\ cli.connectInProgress
        /\ Verdict([cli EXCEPT !.connectInProgress = FALSE,
                               !.holdoff = Holdoff], TRUE)
     \/ /\ ~cli.connectInProgress
        /\ cli.outtaHere \/ ~cli.pending
        /\ UNCHANGED <<cli, gui, calls>>
     \/ /\ ~cli.connectInProgress /\ ~cli.outtaHere /\ cli.pending
        /\ link \in {"made", "eof"}
        /\ \E rest \in BOOLEAN : cli' = [cli EXCEPT !.pending = rest]
        /\ UNCHANGED <<gui, calls>>
     \/ /\ ~cli.connectInProgress /\ ~cli.outtaHere /\ cli.pending
        /\ link \in {"reset", "broken"}
        /\ Close(cli)
  /\ UNCHANGED <<link, inbox, sent, now>>

-----------------------------------------------------------------------------
(* TCP, the TCM and the clock *)

(* An attempt ends. *)
Resolve ==
  /\ link = "trying"
  /\ link' \in {"made", "failed"}
  /\ UNCHANGED <<cli, gui, calls, pc, inbox, sent, now>>

PeerSend ==
  /\ link = "made" /\ sent < MaxIn
  /\ sent' = sent + 1
  /\ inbox' = inbox + 2
  /\ UNCHANGED <<cli, gui, calls, pc, link, now>>

PeerClose ==
  /\ link = "made"
  /\ link' = "eof"
  /\ UNCHANGED <<cli, gui, calls, pc, inbox, sent, now>>

Lose(how) ==
  /\ link \in {"made", "eof"}
  /\ how \in Events
  /\ link' = how /\ inbox' = 0
  /\ UNCHANGED <<cli, gui, calls, pc, sent, now>>

Tick ==
  /\ now < MaxTime
  /\ now' = now + 1
  /\ UNCHANGED <<cli, gui, calls, pc, link, inbox, sent>>

-----------------------------------------------------------------------------
Next ==
  \/ Begin \/ GuiTimer \/ Click \/ Cancel
  \/ Pass \/ SelectError \/ Write
  \/ Resolve \/ PeerSend \/ PeerClose \/ Tick
  \/ \E how \in {"reset", "broken"} : Lose(how)

(* The timers of the socket and of the dialog run for as long as they      *)
(* exist, TCP ends every attempt, and time passes.                         *)
Fairness == /\ WF_vars(Pass) /\ WF_vars(Write) /\ WF_vars(GuiTimer)
            /\ WF_vars(Resolve) /\ WF_vars(Tick)

Spec     == Init /\ [][Next]_vars
FairSpec == Spec /\ Fairness

-----------------------------------------------------------------------------
(* Properties *)

(* Every variable has its type. *)
TypeOK ==
  /\ cli \in Cli
  /\ gui \in [dialog : {"start", "open", "ended"}, bConnected : BOOLEAN, 
              bFailed : BOOLEAN, bInProgress : BOOLEAN]
  /\ calls \in [ok : Nat, fail : Nat, rcv : Nat, close : Nat]
  /\ pc \in {"idle", "write"}
  /\ link \in Link
  /\ inbox \in Nat /\ sent \in 0..MaxIn /\ now \in 0..MaxTime

(* However many attempts there were, the application gets one verdict on   *)
(* the connection from OnConnection.                                       *)
OneVerdict == calls.ok + calls.fail <= 1

(* OnRcv is not called before OnConnection, though the read event of a     *)
(* pass is served before the write event that tells of the connection: a   *)
(* pass takes a header or a body, never both.                              *)
ConnectedBeforeRcv == calls.rcv > 0 => calls.ok > 0

(* The two records of the connection, the GUI's g_bConnected, set by the   *)
(* callbacks, and the client's own flag, which bIsConnected shows, agree.  *)
GuiAgrees == gui.dialog = "open" => gui.bConnected = cli.bConnected

(* A client whose BeginConnection succeeded tells the application what     *)
(* became of it: retries end when the time is over.                        *)
VerdictComes ==
  cli.tTimeout > 0 ~> (calls.ok + calls.fail + calls.close > 0 \/ ~cli.alive)

(* The dialog does not wait for ever: it sees the connection, or that it   *)
(* failed, once BeginConnection succeeded.                                 *)
ProgressEnds ==
  gui.bInProgress /\ cli.tTimeout > 0
    ~> (~gui.bInProgress \/ gui.bFailed \/ gui.dialog = "ended")

-----------------------------------------------------------------------------
(* What the code's documentation claims *)

(* GenCliSvr2_Client.h:33-34: bIsConnected "Tells you if you are currently *)
(* connected": it is not true of a client that OnClose has given up.       *)
ConnectedIsOpen == cli.bConnected => ~cli.outtaHere
=============================================================================
