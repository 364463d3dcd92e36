--------------------------- MODULE GenSockProofs ---------------------------
(***************************************************************************)
(* What holds of GenSock for every size of header, trailer, message and    *)
(* TCP buffer, every number of sends and every set of events.              *)
(***************************************************************************)
EXTENDS GenSock, SequenceTheorems, TLAPS

-----------------------------------------------------------------------------
(* The send buffer *)

(* A send buffer whose pointers and counters agree and whose used part     *)
(* holds bytes that were enqueued (and not what malloc left there).        *)
SndRec == [buf : [1..BufSz -> Nat], ptr0 : 0..BufSz, ptr1 : 0..BufSz,
           nPending : 0..BufSz, nFree : 0..BufSz]

SndOK(s) ==
  /\ s \in SndRec
  /\ s.ptr1 = s.ptr0 + s.nPending
  /\ s.ptr1 + s.nFree = BufSz
  /\ s.nPending = 0 => s.ptr1 = 0
  /\ \A k \in 1..s.ptr1 : s.buf[k] \in Byte

(* The sizes are numbers, a frame fits the buffers, and is never empty.    *)
LEMMA Sizes1 ==
  /\ HdrSz \in Nat /\ TrlSz \in Nat /\ MaxMsg \in Nat /\ BufSz \in Nat
  /\ HdrSz > 0 /\ TrlSz > 0 /\ HdrSz <= BufSz
  /\ \A sz \in 0..MaxMsg : /\ TtlSz(sz) \in 1..BufSz
                           /\ TtlSz(sz) - HdrSz \in 1..BufSz
  BY SizesAssumption DEF BufSz, TtlSz

(* send3a's copy keeps a send buffer in order.                             *)
LEMMA EnqueueOK ==
  ASSUME NEW s, SndOK(s), NEW start \in Nat, NEW ttl \in Nat \ {0},
         ttl <= s.nFree
  PROVE  SndOK(Enqueue(s, start, ttl))
<1> DEFINE b == [k \in 1..BufSz |-> IF k \in s.ptr1 + 1 .. s.ptr1 + ttl
                                    THEN start + (k - s.ptr1) ELSE s.buf[k]]
<1>0. BufSz \in Nat BY Sizes1
<1>1. /\ s.ptr0 \in 0..BufSz /\ s.ptr1 \in 0..BufSz /\ s.nPending \in 0..BufSz
      /\ s.nFree \in 0..BufSz
  BY DEF SndOK, SndRec
<1>a. s.buf \in [1..BufSz -> Nat]
  BY DEF SndOK, SndRec
<1>2. s.ptr1 = s.ptr0 + s.nPending /\ s.ptr1 + s.nFree = BufSz
  BY DEF SndOK
<1>3. \A k \in 1..s.ptr1 : s.buf[k] \in Byte
  BY DEF SndOK
<1>4. /\ s.ptr1 + ttl \in 0..BufSz /\ s.nPending + ttl \in 0..BufSz
      /\ s.nFree - ttl \in 0..BufSz /\ s.nPending + ttl # 0
      /\ s.ptr1 + ttl = s.ptr0 + (s.nPending + ttl)
      /\ (s.ptr1 + ttl) + (s.nFree - ttl) = BufSz
  BY <1>0, <1>1, <1>2
<1>5. b \in [1..BufSz -> Nat]
  <2> SUFFICES ASSUME NEW k \in 1..BufSz
               PROVE  (IF k \in s.ptr1 + 1 .. s.ptr1 + ttl
                       THEN start + (k - s.ptr1) ELSE s.buf[k]) \in Nat
    OBVIOUS
  <2> QED BY <1>0, <1>1, <1>a, SMTT(30)
<1>6. \A k \in 1..(s.ptr1 + ttl) : b[k] \in Byte
  <2> SUFFICES ASSUME NEW k \in 1..(s.ptr1 + ttl) PROVE b[k] \in Byte
    OBVIOUS
  <2>1. k \in 1..BufSz
    BY <1>0, <1>1, <1>4
  <2>2. CASE k <= s.ptr1
    <3>1. k \in 1..s.ptr1 /\ k \notin s.ptr1 + 1 .. s.ptr1 + ttl
      BY <1>0, <1>1, <2>2
    <3> QED BY <1>3, <2>1, <3>1
  <2>3. CASE k > s.ptr1
    <3>1. k \in s.ptr1 + 1 .. s.ptr1 + ttl /\ start + (k - s.ptr1) \in Byte
      BY <1>0, <1>1, <2>3 DEF Byte
    <3> QED BY <2>1, <3>1
  <2>4. k <= s.ptr1 \/ k > s.ptr1
    BY <1>0, <1>1, <2>1
  <2> HIDE DEF b
  <2> QED BY <2>2, <2>3, <2>4
<1> HIDE DEF b
<1>7. [buf |-> b, ptr0 |-> s.ptr0, ptr1 |-> s.ptr1 + ttl,
       nPending |-> s.nPending + ttl, nFree |-> s.nFree - ttl] \in SndRec
  BY <1>1, <1>4, <1>5 DEF SndRec
<1>8. SndOK([buf |-> b, ptr0 |-> s.ptr0, ptr1 |-> s.ptr1 + ttl,
             nPending |-> s.nPending + ttl, nFree |-> s.nFree - ttl])
  BY <1>4, <1>6, <1>7 DEF SndOK
<1> QED BY <1>8 DEF Enqueue, b

(* DoSend's progress keeps a send buffer in order.                         *)
Progress(s, n) ==
  LET r == [s EXCEPT !.ptr0 = @ + n, !.nPending = @ - n]
  IN  IF r.nPending = 0 THEN SetupForSend(r) ELSE r

(* A partial send keeps the pointers and counters of the send buffer. *)
LEMMA ProgressOK ==
  ASSUME NEW s, SndOK(s), NEW n \in 1..s.nPending
  PROVE  SndOK(Progress(s, n))
<1> DEFINE r == [s EXCEPT !.ptr0 = @ + n, !.nPending = @ - n]
<1>0. BufSz \in Nat BY Sizes1
<1>1. /\ s.ptr0 \in 0..BufSz /\ s.ptr1 \in 0..BufSz /\ s.nPending \in 0..BufSz
      /\ s.nFree \in 0..BufSz
  BY DEF SndOK, SndRec
<1>a. s.buf \in [1..BufSz -> Nat]
  BY DEF SndOK, SndRec
<1>2. s.ptr1 = s.ptr0 + s.nPending /\ s.ptr1 + s.nFree = BufSz
  BY DEF SndOK
<1>3. \A k \in 1..s.ptr1 : s.buf[k] \in Byte
  BY DEF SndOK
<1>4. s.ptr0 + n \in 0..BufSz /\ s.nPending - n \in 0..BufSz
      /\ s.ptr1 = (s.ptr0 + n) + (s.nPending - n)
  BY <1>0, <1>1, <1>2
<1>b. r = [s EXCEPT !.ptr0 = @ + n, !.nPending = @ - n]
  OBVIOUS
<1> HIDE DEF r
<1>5. r = [buf |-> s.buf, ptr0 |-> s.ptr0 + n, ptr1 |-> s.ptr1,
           nPending |-> s.nPending - n, nFree |-> s.nFree]
  <2>1. s \in SndRec BY DEF SndOK
  <2> QED BY <1>b, <2>1 DEF SndRec
<1>6. SetupForSend(r) = [buf |-> s.buf, ptr0 |-> 0, ptr1 |-> 0,
                         nPending |-> 0, nFree |-> BufSz]
  <2> DEFINE q == SetupForSend(r)
  <2>1. q = [r EXCEPT !.ptr0 = 0, !.ptr1 = 0, !.nPending = 0, !.nFree = BufSz]
    BY DEF SetupForSend
  <2> HIDE DEF q
  <2>2. q = [buf |-> s.buf, ptr0 |-> 0, ptr1 |-> 0,
             nPending |-> 0, nFree |-> BufSz]
    BY <1>5, <2>1
  <2> QED BY <2>2 DEF q
<1>7. CASE s.nPending - n = 0
  <2>1. Progress(s, n) = SetupForSend(r)
    BY <1>5, <1>7 DEF Progress, r
  <2>2. SndOK([buf |-> s.buf, ptr0 |-> 0, ptr1 |-> 0,
               nPending |-> 0, nFree |-> BufSz])
    BY <1>0, <1>1, <1>a DEF SndOK, SndRec
  <2> QED BY <1>6, <2>1, <2>2
<1>8. CASE s.nPending - n # 0
  <2>1. Progress(s, n) = [buf |-> s.buf, ptr0 |-> s.ptr0 + n, ptr1 |-> s.ptr1,
                          nPending |-> s.nPending - n, nFree |-> s.nFree]
    BY <1>5, <1>8 DEF Progress, r
  <2>2. SndOK([buf |-> s.buf, ptr0 |-> s.ptr0 + n, ptr1 |-> s.ptr1,
               nPending |-> s.nPending - n, nFree |-> s.nFree])
    BY <1>1, <1>a, <1>2, <1>3, <1>4, <1>8 DEF SndOK, SndRec
  <2> QED BY <2>1, <2>2
<1> QED BY <1>7, <1>8

-----------------------------------------------------------------------------
(* The connection flags *)

(* What ties the flags of end e to each other and to its TCP connection,   *)
(* wherever the end is in its pass: a told application has its end marked, *)
(* and an end marked for deletion that still has a handle has lost TCP.    *)
CtlCore(e, c, l) ==
  /\ c \in Ctl
  /\ c.closes <= 1
  /\ c.closes > 0 => IF e = Client THEN c.outtaHere ELSE c.autoDeleteReq
  /\ c.autoDeleteReq /\ c.hSocket => l # "up"

(* What holds of the place in the pass: the write event is served on a     *)
(* valid handle, and a deleted object is in no pass.                       *)
PcOK(c) ==
  /\ c.pc = "write" => c.hSocket
  /\ ~c.alive => c.pc = "idle"

(* The application was not told yet. *)
Untold(e, c) == e = Client => c.closes = 0

(* OnClose keeps the flags of an end, whatever became of its link. *)
LEMMA OnCloseCore ==
  ASSUME NEW e \in Ends, NEW c, NEW l, CtlCore(e, c, l), Untold(e, c),
         c.hSocket => l # "up"
  PROVE  /\ CtlCore(e, OnClose(e, c), l)
         /\ OnClose(e, c).pc = c.pc
         /\ OnClose(e, c).alive = c.alive
         /\ OnClose(e, c).hSocket = c.hSocket
<1>1. c \in Ctl BY DEF CtlCore
<1>2. CASE e = Client
  <2>1. PICK t : t = [c EXCEPT !.outtaHere = TRUE, !.closes = @ + 1]
    OBVIOUS
  <2>2. OnClose(e, c) = t
    BY <1>2, <2>1 DEF OnClose
  <2>3. c.closes = 0
    BY <1>2 DEF Untold
  <2>5. t = [c EXCEPT !.outtaHere = TRUE, !.closes = 1]
    BY <2>1, <2>3
  <2>4. t \in Ctl /\ t.closes = 1 /\ t.outtaHere /\ t.pc = c.pc
        /\ t.alive = c.alive /\ t.hSocket = c.hSocket
        /\ t.autoDeleteReq = c.autoDeleteReq
    BY <1>1, <2>5 DEF Ctl
  <2> QED BY <1>2, <2>2, <2>4 DEF CtlCore
<1>3. CASE e # Client /\ c.autoDeleteReq
  BY <1>3 DEF OnClose
<1>4. CASE e # Client /\ ~c.autoDeleteReq
  <2>1. PICK t : t = [c EXCEPT !.autoDeleteReq = TRUE, !.closes = @ + 1]
    OBVIOUS
  <2>2. OnClose(e, c) = t
    BY <1>4, <2>1 DEF OnClose
  <2>3. c.closes = 0
    BY <1>1, <1>4 DEF CtlCore, Ctl
  <2>5. t = [c EXCEPT !.autoDeleteReq = TRUE, !.closes = 1]
    BY <2>1, <2>3
  <2>4. t \in Ctl /\ t.closes = 1 /\ t.autoDeleteReq /\ t.pc = c.pc
        /\ t.alive = c.alive /\ t.hSocket = c.hSocket
    BY <1>1, <2>5 DEF Ctl
  <2> QED BY <1>4, <2>2, <2>4 DEF CtlCore
<1> QED BY <1>2, <1>3, <1>4

(* So does Close, and the handle is gone after it. *)
LEMMA CloseCore ==
  ASSUME NEW e \in Ends, NEW c, NEW l, CtlCore(e, c, l), Untold(e, c)
  PROVE  /\ CtlCore(e, Close(e, c), l)
         /\ Close(e, c).pc = c.pc
         /\ Close(e, c).alive = c.alive
         /\ ~Close(e, c).hSocket
<1>1. c \in Ctl BY DEF CtlCore
<1>2. CASE ~c.hSocket
  BY <1>2 DEF Close
<1>3. CASE c.hSocket
  <2>1. PICK t : t = [c EXCEPT !.hSocket = FALSE]
    OBVIOUS
  <2>2. t \in Ctl /\ ~t.hSocket /\ t.pc = c.pc /\ t.alive = c.alive
        /\ t.closes = c.closes /\ t.outtaHere = c.outtaHere
        /\ t.autoDeleteReq = c.autoDeleteReq
    BY <1>1, <2>1 DEF Ctl
  <2>3. CtlCore(e, t, l) /\ Untold(e, t)
    BY <2>2 DEF CtlCore, Untold
  <2>4. Close(e, c) = OnClose(e, t)
    BY <1>3, <2>1 DEF Close
  <2> QED BY <2>2, <2>3, <2>4, OnCloseCore
<1> QED BY <1>2, <1>3

(* A pass goes on to its write event, or ends, with the flags kept. *)
LEMMA AfterReadOK ==
  ASSUME NEW e \in Ends, NEW c, NEW l, CtlCore(e, c, l), NEW nw \in BOOLEAN,
         c.alive
  PROVE  CtlCore(e, AfterRead(c, nw), l) /\ PcOK(AfterRead(c, nw))
<1>1. c \in Ctl BY DEF CtlCore
<1>2. PICK p \in {"idle", "write"} :
        p = IF c.hSocket /\ nw THEN "write" ELSE "idle"
  OBVIOUS
<1>3. PICK t : t = [c EXCEPT !.pc = p, !.needWrite = FALSE]
  OBVIOUS
<1>4. AfterRead(c, nw) = t
  BY <1>2, <1>3 DEF AfterRead
<1>5. t \in Ctl /\ t.pc = p /\ t.hSocket = c.hSocket /\ t.alive = c.alive
      /\ t.closes = c.closes /\ t.outtaHere = c.outtaHere
      /\ t.autoDeleteReq = c.autoDeleteReq
  BY <1>1, <1>3 DEF Ctl
<1> QED BY <1>2, <1>4, <1>5 DEF CtlCore, PcOK

(* Where the thread is does not matter to the flags. *)
LEMMA SetPcCore ==
  ASSUME NEW e \in Ends, NEW c, NEW l, CtlCore(e, c, l),
         NEW p \in {"idle", "rcv", "write"}
  PROVE  /\ CtlCore(e, [c EXCEPT !.pc = p], l)
         /\ [c EXCEPT !.pc = p].pc = p
         /\ [c EXCEPT !.pc = p].hSocket = c.hSocket
         /\ [c EXCEPT !.pc = p].alive = c.alive
<1>1. c \in Ctl BY DEF CtlCore
<1>2. PICK t : t = [c EXCEPT !.pc = p]
  OBVIOUS
<1>3. t \in Ctl /\ t.pc = p /\ t.hSocket = c.hSocket /\ t.alive = c.alive
      /\ t.closes = c.closes /\ t.outtaHere = c.outtaHere
      /\ t.autoDeleteReq = c.autoDeleteReq
  BY <1>1, <1>2 DEF Ctl
<1> QED BY <1>2, <1>3 DEF CtlCore

(* Deleting an end outside its callbacks keeps its flags. *)
LEMMA DeleteOK ==
  ASSUME NEW e \in Ends, NEW c, NEW l, CtlCore(e, c, l), c.pc = "idle"
  PROVE  LET t == [c EXCEPT !.alive = FALSE, !.hSocket = FALSE]
         IN  CtlCore(e, t, l) /\ PcOK(t)
<1>1. c \in Ctl BY DEF CtlCore
<1>2. PICK t : t = [c EXCEPT !.alive = FALSE, !.hSocket = FALSE]
  OBVIOUS
<1>3. t \in Ctl /\ t.pc = "idle" /\ ~t.hSocket /\ ~t.alive
      /\ t.closes = c.closes /\ t.outtaHere = c.outtaHere
      /\ t.autoDeleteReq = c.autoDeleteReq
  BY <1>1, <1>2 DEF Ctl
<1> QED BY <1>2, <1>3 DEF CtlCore, PcOK

(* Every end's flags are in order.                                         *)
CtlInv == /\ ctl \in [Ends -> Ctl]
          /\ lost \in [Ends -> {"up", "reset", "broken"}]
          /\ \A e \in Ends : CtlCore(e, ctl[e], lost[e]) /\ PcOK(ctl[e])

(* A step that changes the flags of one end only. *)
LEMMA CtlUpdate ==
  ASSUME CtlInv, NEW e \in Ends, NEW c, ctl' = [ctl EXCEPT ![e] = c],
         CtlCore(e, c, lost[e]), PcOK(c), UNCHANGED lost
  PROVE  CtlInv'
<1>1. c \in Ctl BY DEF CtlCore
<1>2. ctl' \in [Ends -> Ctl]
  BY <1>1 DEF CtlInv
<1>3. ASSUME NEW f \in Ends
      PROVE  CtlCore(f, ctl'[f], lost'[f]) /\ PcOK(ctl'[f])
  <2>1. CASE f = e BY <2>1 DEF CtlInv
  <2>2. CASE f # e BY <2>2 DEF CtlInv
  <2> QED BY <2>1, <2>2
<1> QED BY <1>2, <1>3 DEF CtlInv

(* A pass starts only at an end that has not been told. *)
LEMMA SelectUntold ==
  ASSUME CtlInv, NEW e \in Ends, ~ctl[e].outtaHere
  PROVE  Untold(e, ctl[e])
<1>1. ctl[e] \in Ctl /\ CtlCore(e, ctl[e], lost[e])
  BY DEF CtlInv
<1> QED BY <1>1 DEF CtlCore, Untold, Ctl

(* The read event of a pass keeps the flags. *)
LEMMA SelectCtl ==
  ASSUME CtlInv, NEW e \in Ends, Select(e)
  PROVE  CtlInv'
<1> DEFINE c == ctl[e]
           nw == /\ c.connectInProgress \/ snd[e].nPending > 0
                 /\ WriteReady(e)
<1>1. c \in Ctl /\ CtlCore(e, c, lost[e]) /\ c.alive /\ c.hSocket
      /\ ~c.outtaHere /\ c.pc = "idle" /\ UNCHANGED lost
  BY DEF CtlInv, Select
<1>2. Untold(e, c)
  BY <1>1, SelectUntold
<1>3. nw \in BOOLEAN
  OBVIOUS
<1> HIDE DEF nw
<1>4. \/ DoRcv(e, nw)
      \/ ctl' = [ctl EXCEPT ![e].pc = "write"]
  BY DEF Select, nw
<1>5. CtlCore(e, Close(e, c), lost[e]) /\ Close(e, c).alive
      /\ Close(e, c).pc = "idle"
  BY <1>1, <1>2, CloseCore
<1>6. CASE ctl' = [ctl EXCEPT ![e] = AfterRead(@, nw)]
  <2>1. CtlCore(e, AfterRead(c, nw), lost[e]) /\ PcOK(AfterRead(c, nw))
    BY <1>1, <1>3, AfterReadOK
  <2> QED BY <1>1, <1>6, <2>1, CtlUpdate
<1>7. CASE ctl' = [ctl EXCEPT ![e] = AfterRead(Close(e, @), nw)]
  <2>1. CtlCore(e, AfterRead(Close(e, c), nw), lost[e])
        /\ PcOK(AfterRead(Close(e, c), nw))
    BY <1>3, <1>5, AfterReadOK
  <2> QED BY <1>1, <1>7, <2>1, CtlUpdate
<1>8. CASE lost[e] = "reset" /\ ctl' = [ctl EXCEPT ![e] = AfterRead(OnClose(e, @), nw)]
  <2>1. CtlCore(e, OnClose(e, c), lost[e]) /\ OnClose(e, c).alive
    BY <1>1, <1>2, <1>8, OnCloseCore
  <2>2. CtlCore(e, AfterRead(OnClose(e, c), nw), lost[e])
        /\ PcOK(AfterRead(OnClose(e, c), nw))
    BY <1>3, <2>1, AfterReadOK
  <2> QED BY <1>1, <1>8, <2>2, CtlUpdate
<1>9. CASE ctl' = [ctl EXCEPT ![e].pc = "rcv", ![e].needWrite = nw]
  <2>1. PICK t : t = [c EXCEPT !.pc = "rcv", !.needWrite = nw]
    OBVIOUS
  <2>2. t \in Ctl /\ t.pc = "rcv" /\ t.hSocket = c.hSocket /\ t.alive = c.alive
        /\ t.closes = c.closes /\ t.outtaHere = c.outtaHere
        /\ t.autoDeleteReq = c.autoDeleteReq
    BY <1>1, <1>3, <2>1 DEF Ctl
  <2>3. CtlCore(e, t, lost[e]) /\ PcOK(t)
    BY <1>1, <2>2 DEF CtlCore, PcOK
  <2>4. ctl' = [ctl EXCEPT ![e] = t]
    BY <1>9, <2>1 DEF CtlInv
  <2> QED BY <1>1, <2>3, <2>4, CtlUpdate
<1>10. CASE ctl' = [ctl EXCEPT ![e].pc = "write"]
  <2>1. PICK t : t = [c EXCEPT !.pc = "write"]
    OBVIOUS
  <2>4. CtlCore(e, t, lost[e]) /\ t.hSocket = c.hSocket /\ t.alive = c.alive
    BY <1>1, <2>1, SetPcCore, ZenonT(60)
  <2>2. PcOK(t)
    BY <1>1, <2>4 DEF PcOK
  <2>3. ctl' = [ctl EXCEPT ![e] = t]
    BY <1>10, <2>1 DEF CtlInv
  <2> QED BY <1>1, <2>2, <2>3, <2>4, CtlUpdate
<1>11. DoRcv(e, nw) =>
         \/ ctl' = [ctl EXCEPT ![e] = AfterRead(@, nw)]
         \/ ctl' = [ctl EXCEPT ![e] = AfterRead(Close(e, @), nw)]
         \/ lost[e] = "reset" /\ ctl' = [ctl EXCEPT ![e] = AfterRead(OnClose(e, @), nw)]
         \/ ctl' = [ctl EXCEPT ![e].pc = "rcv", ![e].needWrite = nw]
  BY DEF DoRcv, RcvBytes
<1> QED BY <1>4, <1>6, <1>7, <1>8, <1>9, <1>10, <1>11

(* A failing select keeps the flags. *)
LEMMA SelectErrorCtl ==
  ASSUME CtlInv, NEW e \in Ends, SelectError(e)
  PROVE  CtlInv'
<1> DEFINE c == ctl[e]
<1>1. CtlCore(e, c, lost[e]) /\ c.alive /\ c.hSocket
      /\ ~c.outtaHere /\ c.pc = "idle" /\ UNCHANGED lost
  BY DEF CtlInv, SelectError
<1>2. CtlCore(e, Close(e, c), lost[e]) /\ Close(e, c).alive
      /\ Close(e, c).pc = "idle"
  BY <1>1, SelectUntold, CloseCore
<1>3. PcOK(Close(e, c))
  BY <1>2 DEF PcOK
<1>4. ctl' = [ctl EXCEPT ![e] = Close(e, c)]
  BY DEF SelectError
<1> QED BY <1>1, <1>2, <1>3, <1>4, CtlUpdate

(* The write event of a pass keeps the flags. *)
LEMMA WriteCtl ==
  ASSUME CtlInv, NEW e \in Ends, Write(e)
  PROVE  CtlInv'
<1> DEFINE c == ctl[e]
<1>1. c \in Ctl /\ CtlCore(e, c, lost[e]) /\ PcOK(c) /\ c.pc = "write"
      /\ UNCHANGED lost
  BY DEF CtlInv, Write
<1>2. c.hSocket /\ c.alive
  BY <1>1 DEF PcOK
<1>3. CASE ctl' = [ctl EXCEPT ![e].connectInProgress = FALSE,
                              ![e].bConnected = TRUE, ![e].pc = "idle"]
  <2>1. PICK t : t = [c EXCEPT !.connectInProgress = FALSE,
                               !.bConnected = TRUE, !.pc = "idle"]
    OBVIOUS
  <2>2. t \in Ctl /\ t.pc = "idle" /\ t.hSocket = c.hSocket
        /\ t.closes = c.closes /\ t.outtaHere = c.outtaHere
        /\ t.autoDeleteReq = c.autoDeleteReq /\ t.alive = c.alive
    BY <1>1, <2>1 DEF Ctl
  <2>3. CtlCore(e, t, lost[e]) /\ PcOK(t)
    BY <1>1, <2>2 DEF CtlCore, PcOK
  <2>4. ctl' = [ctl EXCEPT ![e] = t]
    BY <1>3, <2>1 DEF CtlInv
  <2> QED BY <1>1, <2>3, <2>4, CtlUpdate
<1>4. CASE ctl' = [ctl EXCEPT ![e].pc = "idle"]
  <2>1. PICK t : t = [c EXCEPT !.pc = "idle"]
    OBVIOUS
  <2>2. CtlCore(e, t, lost[e]) /\ t.pc = "idle"
    BY <1>1, <2>1, SetPcCore
  <2>3. PcOK(t)
    BY <2>2 DEF PcOK
  <2>4. ctl' = [ctl EXCEPT ![e] = t]
    BY <1>4, <2>1 DEF CtlInv
  <2> QED BY <1>1, <2>2, <2>3, <2>4, CtlUpdate
<1>5. ASSUME ~c.outtaHere, NEW aborted \in BOOLEAN,
             ctl' = [ctl EXCEPT ![e] =
                [Close(e, [c EXCEPT !.outtaHere = @ \/ ~aborted])
                   EXCEPT !.pc = "idle"]]
      PROVE  CtlInv'
  <2>1. PICK b : b = [c EXCEPT !.outtaHere = @ \/ ~aborted]
    OBVIOUS
  <2>2. b \in Ctl /\ b.hSocket = c.hSocket /\ b.closes = c.closes
        /\ b.autoDeleteReq = c.autoDeleteReq
    BY <1>1, <2>1 DEF Ctl
  <2>3. Untold(e, c)
    BY <1>5, SelectUntold
  <2>4. CtlCore(e, b, lost[e]) /\ Untold(e, b)
    BY <1>1, <2>2, <2>3 DEF CtlCore, Untold
  <2>5. PICK d : d = Close(e, b)
    OBVIOUS
  <2>6. CtlCore(e, d, lost[e]) /\ ~d.hSocket
    BY <2>4, <2>5, CloseCore
  <2>7. PICK t : t = [d EXCEPT !.pc = "idle"]
    OBVIOUS
  <2>8. CtlCore(e, t, lost[e]) /\ t.pc = "idle"
    BY <2>6, <2>7, SetPcCore
  <2>9. PcOK(t)
    BY <2>8 DEF PcOK
  <2>10. ctl' = [ctl EXCEPT ![e] = t]
    BY <1>5, <2>1, <2>5, <2>7
  <2> QED BY <1>1, <2>8, <2>9, <2>10, CtlUpdate
<1> QED BY <1>3, <1>4, <1>5 DEF Write, DoSend

(* Every step keeps the flags. *)
LEMMA CtlNext ==
  ASSUME CtlInv, [Next]_vars
  PROVE  CtlInv'
<1>1. CASE UNCHANGED vars
  BY <1>1 DEF vars, CtlInv
<1>2. ASSUME NEW e \in Ends, NEW sz \in Sizes, NEW flags \in Flags,
             Send(e, sz, flags)
      PROVE  CtlInv'
  BY <1>2 DEF Send, CtlInv
<1>3. ASSUME NEW e \in Ends, Select(e) PROVE CtlInv'
  BY <1>3, SelectCtl
<1>4. ASSUME NEW e \in Ends, RcvDone(e) PROVE CtlInv'
  <2>1. CtlCore(e, ctl[e], lost[e]) /\ ctl[e].alive /\ UNCHANGED lost
        /\ ctl[e].needWrite \in BOOLEAN
    BY <1>4 DEF CtlInv, RcvDone, PcOK, Ctl
  <2>2. CtlCore(e, AfterRead(ctl[e], ctl[e].needWrite), lost[e])
        /\ PcOK(AfterRead(ctl[e], ctl[e].needWrite))
    BY <2>1, AfterReadOK
  <2>3. ctl' = [ctl EXCEPT ![e] = AfterRead(ctl[e], ctl[e].needWrite)]
    BY <1>4 DEF RcvDone
  <2> QED BY <2>1, <2>2, <2>3, CtlUpdate
<1>5. ASSUME NEW e \in Ends, Write(e) PROVE CtlInv'
  BY <1>5, WriteCtl
<1>6. ASSUME NEW e \in Ends, AutoDelete(e) \/ Delete(e) PROVE CtlInv'
  <2>1. PICK t : t = [ctl[e] EXCEPT !.alive = FALSE, !.hSocket = FALSE]
    OBVIOUS
  <2>2. CtlCore(e, ctl[e], lost[e]) /\ ctl[e].pc = "idle" /\ UNCHANGED lost
    BY <1>6 DEF CtlInv, AutoDelete, Delete
  <2>3. CtlCore(e, t, lost[e]) /\ PcOK(t)
    BY <2>1, <2>2, DeleteOK
  <2>4. ctl' = [ctl EXCEPT ![e] = t]
    BY <1>6, <2>1 DEF AutoDelete, Delete, CtlInv
  <2> QED BY <2>2, <2>3, <2>4, CtlUpdate
<1>7. ASSUME NEW e \in Ends, NEW how \in {"reset", "broken"}, Lose(e, how)
      PROVE  CtlInv'
  BY <1>7 DEF Lose, CtlInv, CtlCore
<1>8. CASE Disconnect
  <2>1. Server \in Ends /\ Server # Client
    BY EndsAssumption DEF Ends
  <2>2. CtlCore(Server, ctl[Server], lost[Server]) /\ UNCHANGED lost
        /\ ctl[Server].pc \in {"idle", "rcv"} /\ ctl[Server].alive
    BY <1>8, <2>1 DEF CtlInv, Disconnect, CanCall
  <2>3. PICK t : t = Close(Server, ctl[Server])
    OBVIOUS
  <2>4. CtlCore(Server, t, lost[Server]) /\ t.pc = ctl[Server].pc
        /\ t.alive = ctl[Server].alive
    BY <2>1, <2>2, <2>3, CloseCore DEF Untold
  <2>5. PcOK(t)
    BY <2>2, <2>4 DEF PcOK
  <2>6. ctl' = [ctl EXCEPT ![Server] = t]
    BY <1>8, <2>3 DEF Disconnect
  <2> QED BY <2>1, <2>2, <2>4, <2>5, <2>6, CtlUpdate
<1>9. ASSUME NEW e \in Ends, SelectError(e) PROVE CtlInv'
  BY <1>9, SelectErrorCtl
<1> QED
  BY <1>1, <1>2, <1>3, <1>4, <1>5, <1>6, <1>7, <1>8, <1>9 DEF Next

-----------------------------------------------------------------------------
(* The send buffers at every step *)

SndInv == /\ snd \in [Ends -> SndRec]
          /\ \A e \in Ends : SndOK(snd[e])
          /\ frames \in [Ends -> Seq(Frame)]

(* The stream has a length. *)
LEMMA StreamEndNat ==
  ASSUME SndInv, NEW e \in Ends
  PROVE  StreamEnd(e) \in Nat
<1>1. CASE frames[e] = <<>>
  BY <1>1 DEF StreamEnd
<1>2. CASE frames[e] # <<>>
  <2>1. frames[e] \in Seq(Frame)
    BY DEF SndInv
  <2>2. frames[e][Len(frames[e])] \in Frame
    BY <1>2, <2>1, EmptySeq, ElementOfSeq
  <2>3. frames[e][Len(frames[e])].start \in Nat
        /\ TtlSz(frames[e][Len(frames[e])].sz) \in Nat
    BY <2>2, Sizes1, SMTT(30) DEF Frame
  <2> QED BY <1>2, <2>3 DEF StreamEnd
<1> QED BY <1>1, <1>2

(* A step that changes the send buffer of one end only. *)
LEMMA SndUpdate ==
  ASSUME SndInv, NEW e \in Ends, NEW s, snd' = [snd EXCEPT ![e] = s], SndOK(s),
         frames' \in [Ends -> Seq(Frame)]
  PROVE  SndInv'
<1>1. s \in SndRec BY DEF SndOK
<1>2. snd' \in [Ends -> SndRec]
  BY <1>1 DEF SndInv
<1>3. ASSUME NEW f \in Ends PROVE SndOK(snd'[f])
  <2>1. CASE f = e BY <2>1 DEF SndInv
  <2>2. CASE f # e BY <2>2 DEF SndInv
  <2> QED BY <2>1, <2>2
<1> QED BY <1>2, <1>3 DEF SndInv

(* send3a keeps the send buffers. *)
LEMMA Send3aSnd ==
  ASSUME SndInv, NEW e \in Ends, NEW sz \in 0..MaxMsg, NEW flags \in Flags,
         Send3a(e, sz, flags)
  PROVE  SndInv'
<1>1. CASE HasRoom(e, TtlSz(sz))
  <2>1. TtlSz(sz) \in Nat \ {0} /\ TtlSz(sz) <= snd[e].nFree
    BY <1>1, Sizes1 DEF HasRoom
  <2>2. StreamEnd(e) \in Nat /\ SndOK(snd[e])
    BY StreamEndNat DEF SndInv
  <2>3. SndOK(Enqueue(snd[e], StreamEnd(e), TtlSz(sz)))
    BY <2>1, <2>2, EnqueueOK
  <2>4. PICK f : f = [start |-> StreamEnd(e), sz |-> sz, flags |-> flags]
    OBVIOUS
  <2>7. f \in Frame
    BY <2>2, <2>4 DEF Frame
  <2>8. Append(frames[e], f) \in Seq(Frame)
    BY <2>7, AppendProperties DEF SndInv
  <2>9. frames' = [frames EXCEPT ![e] = Append(frames[e], f)]
    BY <1>1, <2>4 DEF Send3a
  <2>5. frames' \in [Ends -> Seq(Frame)]
    BY <2>8, <2>9 DEF SndInv
  <2>6. snd' = [snd EXCEPT ![e] = Enqueue(snd[e], StreamEnd(e), TtlSz(sz))]
    BY <1>1 DEF Send3a
  <2> QED BY <2>3, <2>5, <2>6, SndUpdate
<1>2. CASE ~HasRoom(e, TtlSz(sz))
  BY <1>2 DEF Send3a, SndInv
<1> QED BY <1>1, <1>2

(* DoSend keeps the send buffers, whatever part TCP takes. *)
LEMMA DoSendSnd ==
  ASSUME SndInv, NEW e \in Ends, DoSend(e), UNCHANGED frames
  PROVE  SndInv'
<1>1. CASE UNCHANGED snd
  BY <1>1 DEF SndInv
<1>2. ASSUME NEW n \in 1..snd[e].nPending,
             snd' = [snd EXCEPT ![e] = Progress(snd[e], n)]
      PROVE  SndInv'
  <2>1. SndOK(Progress(snd[e], n))
    BY <1>2, ProgressOK DEF SndInv
  <2> QED BY <1>2, <2>1, SndUpdate DEF SndInv
<1>3. \/ UNCHANGED snd
      \/ \E n \in 1..snd[e].nPending :
           snd' = [snd EXCEPT ![e] = Progress(snd[e], n)]
  BY DEF DoSend, Progress
<1> QED BY <1>1, <1>2, <1>3

(* Every step keeps the send buffers. *)
LEMMA SndNext ==
  ASSUME SndInv, [Next]_vars
  PROVE  SndInv'
<1>0. Server \in Ends /\ 0 \in 0..MaxMsg /\ "notice" \in Flags
      /\ Sizes \subseteq 0..MaxMsg
  BY SizesAssumption DEF Ends, Flags
<1>1. CASE UNCHANGED vars
  BY <1>1 DEF vars, SndInv
<1>2. ASSUME NEW e \in Ends, NEW sz \in Sizes, NEW flags \in Flags,
             Send(e, sz, flags)
      PROVE  SndInv'
  BY <1>0, <1>2, Send3aSnd DEF Send
<1>3. ASSUME NEW e \in Ends, Write(e) PROVE SndInv'
  <2>1. CASE UNCHANGED <<snd, frames>>
    BY <2>1 DEF SndInv
  <2>2. CASE DoSend(e) /\ UNCHANGED frames
    BY <2>2, DoSendSnd
  <2> QED BY <1>3, <2>1, <2>2 DEF Write
<1>4. ASSUME NEW e \in Ends,
             \/ Select(e) \/ SelectError(e) \/ RcvDone(e)
             \/ AutoDelete(e) \/ Delete(e)
             \/ \E how \in {"reset", "broken"} : Lose(e, how)
      PROVE  SndInv'
  BY <1>4 DEF Select, SelectError, RcvDone, AutoDelete, Delete, Lose, SndInv
<1>5. CASE Disconnect
  BY <1>0, <1>5, Send3aSnd DEF Disconnect
<1> QED BY <1>1, <1>2, <1>3, <1>4, <1>5 DEF Next

-----------------------------------------------------------------------------
(* Theorems *)

(* Both invariants hold at the start. *)
LEMMA InitInv == Init => CtlInv /\ SndInv
<1> SUFFICES ASSUME Init PROVE CtlInv /\ SndInv
  OBVIOUS
<1>1. CtlInv
  BY DEF Init, CtlInv, CtlCore, PcOK, Ctl, Ends
<1>2. SndOK(EmptySnd)
  BY Sizes1 DEF SndOK, SndRec, EmptySnd, Byte
<1>3. SndInv
  BY <1>2 DEF Init, SndInv, SndOK
<1> QED BY <1>1, <1>3

(* The invariant of the send buffers. *)
LEMMA BufferInvariant == Spec => []SndInv
<1>1. Init => SndInv
  BY InitInv
<1>2. SndInv /\ [Next]_vars => SndInv'
  BY SndNext
<1> QED BY <1>1, <1>2, PTL DEF Spec

(* The invariant of the flags. *)
LEMMA FlagsInvariant == Spec => []CtlInv
<1>1. Init => CtlInv
  BY InitInv
<1>2. CtlInv /\ [Next]_vars => CtlInv'
  BY CtlNext
<1> QED BY <1>1, <1>2, PTL DEF Spec

(* send3a and DoSend keep the pointers and counters of the linear send     *)
(* buffer in agreement, whatever the sizes of header, trailer and messages *)
(* and however TCP cuts what it takes: no copy passes the buffer's end.    *)
THEOREM SendAccountingHolds == Spec => []SendAccounting
<1>1. SndInv => SendAccounting
  BY DEF SndInv, SndOK, SendAccounting
<1> QED BY <1>1, BufferInvariant, PTL

(* OnSocketClose or OnDisconnect is called at most once per connection.    *)
THEOREM ClosedOnceHolds == Spec => []ClosedOnce
<1>1. CtlInv => ClosedOnce
  BY DEF CtlInv, CtlCore, ClosedOnce
<1> QED BY <1>1, FlagsInvariant, PTL

(***************************************************************************)
(* The byte stream of GenSock: whatever is cut where, what an end has      *)
(* taken from TCP, what TCP still holds and what waits in the peer's send  *)
(* buffer are consecutive stretches of the frames the peer enqueued, and   *)
(* the receive buffer starts at the beginning of a frame.  From this come  *)
(* the framing, the order of delivery and the channel of MsgChannel.       *)
(***************************************************************************)

-----------------------------------------------------------------------------
(* The invariant, for one direction: F are the frames enqueued, s the      *)
(* sender's buffer, w the bytes on the wire, r the receive buffer, d what  *)
(* was delivered, and j the frame the receiver is at.                      *)

RcvRec == [buf : Seq(Byte), nPending : 0..BufSz, hdr : BOOLEAN]

EndOf(F) == IF F = <<>> THEN 0
            ELSE F[Len(F)].start + TtlSz(F[Len(F)].sz)

(* Frame i of F ends where frame j starts, or before. *)
Before(F, i, j) == F[i].start + TtlSz(F[i].sz) <= F[j].start

(* Frames follow each other without gap or overlap. *)
FramesOK(F) ==
  /\ F \in Seq(Frame)
  /\ Len(F) > 0 => F[1].start = 0
  /\ \A i \in 1..Len(F) - 1 : F[i + 1].start = F[i].start + TtlSz(F[i].sz)
  /\ \A i \in 1..Len(F) : \A j \in 1..Len(F) : i < j => Before(F, i, j)

(* Where frame j of F starts, or will. *)
Base(F, j) == IF j <= Len(F) THEN F[j].start ELSE EndOf(F)

InOrder(d, F) ==
  \A i \in 1..Len(d) : F[i].flags = "none" /\ d[i] = Body(F[i])

DelOK(d, F) == /\ d \in Seq(Seq(Byte))
               /\ Len(d) <= Len(F)
               /\ InOrder(d, F)

RcvOK(r, j, F) ==
  /\ r \in RcvRec
  /\ j \in 1..Len(F) + 1
  /\ Len(r.buf) > 0 => j <= Len(F)
  /\ \A k \in 1..Len(r.buf) : r.buf[k] = Base(F, j) + k
  /\ r.hdr => Len(r.buf) + r.nPending = HdrSz
  /\ ~r.hdr => /\ j <= Len(F) /\ Len(r.buf) >= HdrSz
               /\ F[j].flags = "none"
               /\ Len(r.buf) + r.nPending = TtlSz(F[j].sz)

(* What has left the send buffer, and what waits in it. *)
Sent(s, F) == EndOf(F) - s.nPending

PendOK(s, F) ==
  /\ s.nPending <= EndOf(F)
  /\ \A k \in 1..s.nPending : s.buf[s.ptr0 + k] = Sent(s, F) + k

PipeOK(w, r, j, F, s) ==
  /\ Base(F, j) + Len(r.buf) + Len(w) = Sent(s, F)
  /\ \A k \in 1..Len(w) : w[k] = Base(F, j) + Len(r.buf) + k

-----------------------------------------------------------------------------
(* Frames *)

(* The sizes in a frame that was enqueued. *)
LEMMA FrameFacts ==
  ASSUME NEW F \in Seq(Frame), NEW i \in 1..Len(F)
  PROVE  /\ F[i] \in Frame /\ F[i].start \in Nat /\ F[i].sz \in 0..MaxMsg
         /\ TtlSz(F[i].sz) \in 1..BufSz /\ TtlSz(F[i].sz) \in Nat
         /\ TtlSz(F[i].sz) - HdrSz \in 1..BufSz
         /\ F[i].flags \in Flags
<1>1. F[i] \in Frame
  BY ElementOfSeq
<1>2. F[i].start \in Nat /\ F[i].sz \in 0..MaxMsg /\ F[i].flags \in Flags
  BY <1>1 DEF Frame
<1>3. TtlSz(F[i].sz) \in 1..BufSz /\ TtlSz(F[i].sz) - HdrSz \in 1..BufSz
  BY <1>2, Sizes1
<1> QED BY <1>1, <1>2, <1>3, Sizes1

(* A stream of frames has a length. *)
LEMMA EndOfNat ==
  ASSUME NEW F \in Seq(Frame)
  PROVE  EndOf(F) \in Nat
<1>1. CASE F = <<>>
  BY <1>1 DEF EndOf
<1>2. CASE F # <<>>
  <2>1. Len(F) \in 1..Len(F)
    BY <1>2, EmptySeq
  <2> QED BY <1>2, <2>1, FrameFacts DEF EndOf
<1> QED BY <1>1, <1>2

(* No frame reaches beyond the end of the stream. *)
LEMMA FrameEnds ==
  ASSUME NEW F, FramesOK(F), NEW i \in 1..Len(F)
  PROVE  F[i].start + TtlSz(F[i].sz) <= EndOf(F)
<1>1. F \in Seq(Frame) /\ Len(F) \in Nat
  BY LenProperties DEF FramesOK
<1>2. Len(F) \in 1..Len(F) /\ F # <<>>
  BY <1>1, EmptySeq
<1>3. F[i].start \in Nat /\ TtlSz(F[i].sz) \in Nat
      /\ F[Len(F)].start \in Nat /\ TtlSz(F[Len(F)].sz) \in Nat
  BY <1>1, <1>2, FrameFacts
<1>4. EndOf(F) = F[Len(F)].start + TtlSz(F[Len(F)].sz)
  BY <1>2 DEF EndOf
<1>5. CASE i = Len(F)
  BY <1>3, <1>4, <1>5
<1>6. CASE i < Len(F)
  <2>1. Before(F, i, Len(F))
    BY <1>2, <1>6 DEF FramesOK
  <2> QED BY <1>3, <1>4, <2>1 DEF Before
<1> QED BY <1>1, <1>5, <1>6

(* Where frame j begins is in the stream or at its end. *)
LEMMA BaseNat ==
  ASSUME NEW F, FramesOK(F), NEW j \in Nat \ {0}
  PROVE  /\ Base(F, j) \in Nat /\ Base(F, j) <= EndOf(F)
         /\ Base(F, j) < EndOf(F) => j <= Len(F)
<1>1. F \in Seq(Frame) /\ Len(F) \in Nat /\ EndOf(F) \in Nat
  BY LenProperties, EndOfNat DEF FramesOK
<1>2. CASE j <= Len(F)
  <2>1. j \in 1..Len(F)
    BY <1>1, <1>2
  <2>2. F[j].start \in Nat /\ TtlSz(F[j].sz) \in Nat
    BY <1>1, <2>1, FrameFacts
  <2>3. F[j].start + TtlSz(F[j].sz) <= EndOf(F)
    BY <2>1, FrameEnds
  <2>4. Base(F, j) = F[j].start
    BY <1>2 DEF Base
  <2> QED BY <1>1, <1>2, <2>2, <2>3, <2>4
<1>3. CASE ~(j <= Len(F))
  BY <1>1, <1>3 DEF Base
<1> QED BY <1>2, <1>3

(* The next frame starts where this one ends. *)
LEMMA NextBase ==
  ASSUME NEW F, FramesOK(F), NEW j \in 1..Len(F)
  PROVE  Base(F, j + 1) = Base(F, j) + TtlSz(F[j].sz)
<1>1. F \in Seq(Frame) /\ Len(F) \in Nat
  BY LenProperties DEF FramesOK
<1>2. Base(F, j) = F[j].start
  BY <1>1 DEF Base
<1>3. CASE j = Len(F)
  <2>1. F # <<>> /\ ~(j + 1 <= Len(F))
    BY <1>1, <1>3, EmptySeq
  <2> QED BY <1>2, <1>3, <2>1 DEF Base, EndOf
<1>4. CASE j < Len(F)
  <2>1. j \in 1..Len(F) - 1 /\ j + 1 <= Len(F)
    BY <1>1, <1>4
  <2> QED BY <1>2, <2>1 DEF Base, FramesOK
<1> QED BY <1>1, <1>3, <1>4

(* A header tells which frame it begins. *)
LEMMA HeaderTells ==
  ASSUME NEW F, FramesOK(F), NEW i \in 1..Len(F), NEW j \in 1..Len(F),
         NEW buf, buf[1] = F[j].start + 1, HasHeader(buf, F[i])
  PROVE  i = j
<1>1. F \in Seq(Frame) /\ Len(F) \in Nat
  BY LenProperties DEF FramesOK
<1>2. F[i].start \in Nat /\ F[j].start \in Nat
      /\ TtlSz(F[i].sz) \in 1..BufSz /\ TtlSz(F[j].sz) \in 1..BufSz
  BY <1>1, FrameFacts
<1>3. buf[1] = F[i].start + 1
  <2>1. 1 \in 1..HdrSz BY Sizes1
  <2> QED BY <2>1 DEF HasHeader
<1>4. F[i].start = F[j].start
  BY <1>2, <1>3
<1>5. ~(i < j)
  <2>1. i < j => Before(F, i, j) BY DEF FramesOK
  <2> QED BY <1>2, <1>4, <2>1, Sizes1 DEF Before
<1>6. ~(j < i)
  <2>1. j < i => Before(F, j, i) BY DEF FramesOK
  <2> QED BY <1>2, <1>4, <2>1, Sizes1 DEF Before
<1> QED BY <1>1, <1>5, <1>6

-----------------------------------------------------------------------------
(* One more frame *)

(* A frame enqueued at the end leaves the stream without gaps. *)
LEMMA AppendFrames ==
  ASSUME NEW F, FramesOK(F), NEW f \in Frame, f.start = EndOf(F),
         NEW G, G = Append(F, f)
  PROVE  /\ FramesOK(G)
         /\ EndOf(G) = EndOf(F) + TtlSz(f.sz)
         /\ Len(G) = Len(F) + 1
         /\ \A i \in 1..Len(F) : G[i] = F[i]
         /\ \A j \in 1..Len(F) + 1 : Base(G, j) = Base(F, j)
<1>1. F \in Seq(Frame) /\ Len(F) \in Nat
  BY LenProperties DEF FramesOK
<1>2. G \in Seq(Frame) /\ Len(G) = Len(F) + 1
      /\ (\A i \in 1..Len(F) : G[i] = F[i]) /\ G[Len(F) + 1] = f
  BY <1>1, AppendProperties
<1>a. G # <<>>
  BY <1>1, <1>2, EmptySeq
<1>3. EndOf(G) = EndOf(F) + TtlSz(f.sz)
  BY <1>2, <1>a DEF EndOf
<1>4. f.start \in Nat /\ TtlSz(f.sz) \in Nat
  BY Sizes1 DEF Frame
<1>6. G[1].start = 0
  <2>1. CASE F = <<>>
    <3>1. Len(F) = 0 /\ EndOf(F) = 0
      BY <2>1, EmptySeq DEF EndOf
    <3> QED BY <1>2, <3>1
  <2>2. CASE F # <<>>
    <3>1. 1 \in 1..Len(F) /\ Len(F) > 0
      BY <1>1, <2>2, EmptySeq
    <3> QED BY <1>2, <3>1 DEF FramesOK
  <2> QED BY <2>1, <2>2
<1>7. ASSUME NEW i \in 1..Len(G) - 1
      PROVE  G[i + 1].start = G[i].start + TtlSz(G[i].sz)
  <2>1. i \in 1..Len(F) /\ G[i] = F[i]
    BY <1>1, <1>2
  <2>2. CASE i < Len(F)
    <3>1. i + 1 \in 1..Len(F) /\ i \in 1..Len(F) - 1
      BY <1>1, <2>1, <2>2
    <3> QED BY <1>2, <2>1, <3>1 DEF FramesOK
  <2>3. CASE i = Len(F)
    <3>1. F # <<>>
      BY <2>1, EmptySeq
    <3> QED BY <1>2, <2>1, <2>3, <3>1 DEF EndOf
  <2> QED BY <1>1, <2>1, <2>2, <2>3
<1>8. ASSUME NEW i \in 1..Len(G), NEW j \in 1..Len(G), i < j
      PROVE  Before(G, i, j)
  <2>1. i \in 1..Len(F) /\ G[i] = F[i]
    BY <1>1, <1>2, <1>8
  <2>2. CASE j \in 1..Len(F)
    <3>1. G[j] = F[j]
      BY <1>2, <2>2
    <3>2. Before(F, i, j)
      BY <1>8, <2>1, <2>2 DEF FramesOK
    <3> QED BY <2>1, <3>1, <3>2 DEF Before
  <2>3. CASE j = Len(F) + 1
    <3>1. F[i].start + TtlSz(F[i].sz) <= EndOf(F)
      BY <2>1, FrameEnds
    <3> QED BY <1>2, <2>1, <2>3, <3>1 DEF Before
  <2> QED BY <1>1, <1>2, <2>2, <2>3
<1>9. FramesOK(G)
  BY <1>2, <1>6, <1>7, <1>8 DEF FramesOK
<1>10. ASSUME NEW j \in 1..Len(F) + 1
       PROVE  Base(G, j) = Base(F, j)
  <2>1. CASE j \in 1..Len(F)
    <3>1. j <= Len(F) /\ j <= Len(G)
      BY <1>1, <1>2, <2>1
    <3> QED BY <1>2, <2>1, <3>1 DEF Base
  <2>2. CASE j = Len(F) + 1
    <3>1. ~(j <= Len(F)) /\ j <= Len(G)
      BY <1>1, <1>2, <2>2
    <3> QED BY <1>2, <2>2, <3>1 DEF Base
  <2> QED BY <1>1, <2>1, <2>2
<1> QED BY <1>2, <1>3, <1>9, <1>10

(* What is received and delivered is so of the frames with one more. *)
LEMMA AppendRcv ==
  ASSUME NEW F, FramesOK(F), NEW f \in Frame, f.start = EndOf(F),
         NEW G, G = Append(F, f), NEW r, NEW j, RcvOK(r, j, F)
  PROVE  RcvOK(r, j, G)
<1>1. Len(G) = Len(F) + 1 /\ (\A i \in 1..Len(F) : G[i] = F[i])
      /\ (\A i \in 1..Len(F) + 1 : Base(G, i) = Base(F, i))
      /\ Len(F) \in Nat
  BY AppendFrames, LenProperties, ZenonT(60) DEF FramesOK
<1>2. j \in 1..Len(F) + 1 /\ Base(G, j) = Base(F, j)
  BY <1>1 DEF RcvOK
<1>3. j <= Len(F) => j \in 1..Len(F) /\ G[j] = F[j] /\ j <= Len(G)
  BY <1>1, <1>2
<1>4. j \in 1..Len(G) + 1
  BY <1>1, <1>2
<1> QED BY <1>2, <1>3, <1>4 DEF RcvOK

(* What was delivered remains a beginning of the longer stream. *)
LEMMA AppendDel ==
  ASSUME NEW F, FramesOK(F), NEW f \in Frame, f.start = EndOf(F),
         NEW G, G = Append(F, f), NEW d, DelOK(d, F)
  PROVE  DelOK(d, G)
<1>1. Len(G) = Len(F) + 1 /\ (\A i \in 1..Len(F) : G[i] = F[i])
      /\ Len(F) \in Nat
  BY AppendFrames, LenProperties DEF FramesOK
<1>2. d \in Seq(Seq(Byte)) /\ Len(d) \in Nat /\ Len(d) <= Len(F)
  BY LenProperties DEF DelOK
<1>3. ASSUME NEW i \in 1..Len(d)
      PROVE  G[i].flags = "none" /\ d[i] = Body(G[i])
  <2>1. i \in 1..Len(F) /\ G[i] = F[i]
    BY <1>1, <1>2
  <2> QED BY <2>1 DEF DelOK, InOrder
<1> QED BY <1>1, <1>2, <1>3 DEF DelOK, InOrder

(* send3a puts the new frame behind what is pending. *)
Enqueued(F, f, G, s, t) ==
  G = Append(F, f) /\ t = Enqueue(s, EndOf(F), TtlSz(f.sz))

(* Enqueuing keeps the send buffer a stretch of the stream. *)
LEMMA EnqueuePend ==
  ASSUME NEW F, FramesOK(F), NEW f \in Frame, f.start = EndOf(F),
         NEW s, SndOK(s), PendOK(s, F), TtlSz(f.sz) <= s.nFree,
         NEW G, NEW t, Enqueued(F, f, G, s, t)
  PROVE  PendOK(t, G) /\ Sent(t, G) = Sent(s, F)
<1> DEFINE ttl == TtlSz(f.sz)
<1>a. EndOf(F) \in Nat
  BY EndOfNat DEF FramesOK
<1>1. EndOf(G) = EndOf(F) + ttl /\ EndOf(F) \in Nat
  BY <1>a, AppendFrames DEF Enqueued
<1>2. ttl \in Nat /\ BufSz \in Nat
  BY Sizes1 DEF Frame
<1> HIDE DEF ttl
<1>3. /\ s.ptr0 \in 0..BufSz /\ s.ptr1 \in 0..BufSz /\ s.nPending \in 0..BufSz
      /\ s.nFree \in 0..BufSz
  BY DEF SndOK, SndRec
<1>4. s.ptr1 = s.ptr0 + s.nPending /\ s.ptr1 + s.nFree = BufSz
  BY DEF SndOK
<1>5. /\ t.ptr0 = s.ptr0 /\ t.nPending = s.nPending + ttl
      /\ t.buf = [k \in 1..BufSz |-> IF k \in s.ptr1 + 1 .. s.ptr1 + ttl
                                     THEN EndOf(F) + (k - s.ptr1)
                                     ELSE s.buf[k]]
  BY DEF Enqueue, ttl, Enqueued
<1>6. Sent(t, G) = Sent(s, F)
  BY <1>1, <1>2, <1>3, <1>5 DEF Sent
<1>7. t.nPending <= EndOf(G)
  BY <1>1, <1>2, <1>3, <1>5 DEF PendOK
<1>8. ASSUME NEW k \in 1..t.nPending
      PROVE  t.buf[t.ptr0 + k] = Sent(t, G) + k
  <2>1. s.ptr0 + k \in 1..BufSz
    <3>1. ttl <= s.nFree BY DEF ttl
    <3> QED BY <1>2, <1>3, <1>4, <1>5, <3>1, SMTT(30)
  <2>2. CASE k <= s.nPending
    <3>1. k \in 1..s.nPending /\ s.ptr0 + k \notin s.ptr1 + 1 .. s.ptr1 + ttl
      BY <1>2, <1>3, <1>4, <2>2
    <3>2. t.buf[s.ptr0 + k] = s.buf[s.ptr0 + k]
      BY <1>5, <2>1, <3>1
    <3>3. s.buf[s.ptr0 + k] = Sent(s, F) + k
      BY <3>1 DEF PendOK
    <3> QED BY <1>5, <1>6, <3>2, <3>3
  <2>3. CASE ~(k <= s.nPending)
    <3>1. s.ptr0 + k \in s.ptr1 + 1 .. s.ptr1 + ttl
      BY <1>2, <1>3, <1>4, <1>5, <2>3
    <3>2. t.buf[s.ptr0 + k] = EndOf(F) + ((s.ptr0 + k) - s.ptr1)
      BY <1>5, <2>1, <3>1
    <3>3. (s.ptr0 + k) - s.ptr1 = k - s.nPending
      BY <1>2, <1>3, <1>4
    <3> QED BY <1>1, <1>2, <1>3, <1>5, <1>6, <3>2, <3>3, SMTT(30) DEF Sent
  <2> QED BY <2>2, <2>3
<1> QED BY <1>6, <1>7, <1>8 DEF PendOK

-----------------------------------------------------------------------------
(* DoSend moves bytes from the buffer to the wire *)

(* Sending takes the front of that stretch. *)
LEMMA ProgressPend ==
  ASSUME NEW F, FramesOK(F), NEW s, SndOK(s), PendOK(s, F),
         NEW n \in 1..s.nPending, NEW t, t = Progress(s, n)
  PROVE  PendOK(t, F) /\ Sent(t, F) = Sent(s, F) + n
<1>1. EndOf(F) \in Nat /\ BufSz \in Nat
  BY EndOfNat, Sizes1 DEF FramesOK
<1>2. s.ptr0 \in 0..BufSz /\ s.nPending \in 0..BufSz
  BY DEF SndOK, SndRec
<1>3. s.nPending <= EndOf(F)
  BY DEF PendOK
<1>4. PICK r : r = [s EXCEPT !.ptr0 = @ + n, !.nPending = @ - n]
  OBVIOUS
<1>5. r.ptr0 = s.ptr0 + n /\ r.nPending = s.nPending - n /\ r.buf = s.buf
  BY <1>4 DEF SndOK, SndRec
<1>6. t = IF r.nPending = 0 THEN SetupForSend(r) ELSE r
  BY <1>4 DEF Progress
<1>7. CASE s.nPending - n = 0
  <2>0. s \in SndRec
    BY DEF SndOK
  <2>1. r = [buf |-> s.buf, ptr0 |-> s.ptr0 + n, ptr1 |-> s.ptr1,
             nPending |-> s.nPending - n, nFree |-> s.nFree]
    BY <1>4, <2>0 DEF SndRec
  <2>2. t = [r EXCEPT !.ptr0 = 0, !.ptr1 = 0, !.nPending = 0, !.nFree = BufSz]
    BY <1>5, <1>6, <1>7 DEF SetupForSend
  <2>3. t.nPending = 0
    BY <2>1, <2>2
  <2> QED BY <1>1, <1>2, <1>3, <1>7, <2>3 DEF PendOK, Sent
<1>8. CASE s.nPending - n # 0
  <2>1. t = r
    BY <1>5, <1>6, <1>8
  <2>2. Sent(t, F) = Sent(s, F) + n
    BY <1>1, <1>2, <1>5, <2>1 DEF Sent
  <2>3. ASSUME NEW k \in 1..t.nPending
        PROVE  t.buf[t.ptr0 + k] = Sent(t, F) + k
    <3>1. n + k \in 1..s.nPending /\ (s.ptr0 + n) + k = s.ptr0 + (n + k)
      BY <1>2, <1>5, <2>1
    <3>2. s.buf[s.ptr0 + (n + k)] = Sent(s, F) + (n + k)
      BY <3>1 DEF PendOK
    <3>3. t.buf[t.ptr0 + k] = s.buf[s.ptr0 + (n + k)]
      BY <1>5, <2>1, <3>1
    <3> QED BY <1>1, <1>2, <2>2, <3>2, <3>3 DEF Sent
  <2>4. t.nPending <= EndOf(F)
    BY <1>1, <1>2, <1>3, <1>5, <2>1
  <2> QED BY <2>2, <2>3, <2>4 DEF PendOK
<1> QED BY <1>7, <1>8

(* The bytes that DoSend gives to TCP in one call of send. *)
Given(s, n) == [k \in 1..n |-> s.buf[s.ptr0 + k]]

(* What is given to TCP is as long as it says. *)
LEMMA GivenBytes ==
  ASSUME NEW s, SndOK(s), NEW n \in 1..s.nPending
  PROVE  Given(s, n) \in Seq(Byte) /\ Len(Given(s, n)) = n
<1>1. BufSz \in Nat /\ s.ptr0 \in 0..BufSz /\ s.nPending \in 0..BufSz
      /\ s.ptr1 = s.ptr0 + s.nPending
  BY Sizes1 DEF SndOK, SndRec
<1>2. ASSUME NEW k \in 1..n PROVE s.buf[s.ptr0 + k] \in Byte
  <2>1. s.ptr0 + k \in 1..s.ptr1
    BY <1>1
  <2> QED BY <2>1 DEF SndOK
<1>3. n \in Nat
  BY <1>1
<1>4. Given(s, n) \in [1..n -> Byte]
  BY <1>2 DEF Given
<1>5. Given(s, n) \in Seq(Byte)
  BY <1>3, <1>4, SeqDef
<1>6. Len(Given(s, n)) \in Nat /\ DOMAIN Given(s, n) = 1..Len(Given(s, n))
  BY <1>5, LenProperties
<1>7. DOMAIN Given(s, n) = 1..n
  BY <1>4
<1>8. n \in 1..Len(Given(s, n))
  BY <1>3, <1>6, <1>7
<1>9. Len(Given(s, n)) \in 1..n
  BY <1>3, <1>6, <1>7, <1>8
<1> QED BY <1>3, <1>5, <1>8, <1>9

(* What was sent follows, on the wire, what was there. *)
LEMMA SendPipe ==
  ASSUME NEW F, FramesOK(F), NEW s, SndOK(s), PendOK(s, F),
         NEW n \in 1..s.nPending, NEW w \in Seq(Byte), NEW r, NEW j,
         RcvOK(r, j, F), PipeOK(w, r, j, F, s),
         NEW t, Sent(t, F) = Sent(s, F) + n
  PROVE  PipeOK(w \o Given(s, n), r, j, F, t)
<1>0. r.buf \in Seq(Byte) /\ j \in Nat \ {0}
  BY LenProperties DEF RcvOK, RcvRec, FramesOK
<1>1. Base(F, j) \in Nat /\ Len(r.buf) \in Nat /\ Len(w) \in Nat
  BY <1>0, BaseNat, LenProperties
<1>2. s.nPending \in Nat
  BY Sizes1 DEF SndOK, SndRec
<1>3. PICK v : v = Given(s, n)
  OBVIOUS
<1>4. v \in Seq(Byte) /\ Len(v) = n
  BY <1>3, GivenBytes
<1>5. Len(w \o v) = Len(w) + n
      /\ \A k \in 1..Len(w) + n :
            (w \o v)[k] = IF k <= Len(w) THEN w[k] ELSE v[k - Len(w)]
  BY <1>4, ConcatProperties
<1>6. Base(F, j) + Len(r.buf) + Len(w) = Sent(s, F)
  BY DEF PipeOK
<1>7. Base(F, j) + Len(r.buf) + Len(w \o v) = Sent(t, F)
  BY <1>1, <1>2, <1>5, <1>6
<1>8. ASSUME NEW k \in 1..Len(w \o v)
      PROVE  (w \o v)[k] = Base(F, j) + Len(r.buf) + k
  <2>1. CASE k <= Len(w)
    <3>1. k \in 1..Len(w) /\ (w \o v)[k] = w[k]
      BY <1>1, <1>2, <1>5, <2>1
    <3> QED BY <3>1 DEF PipeOK
  <2>2. CASE ~(k <= Len(w))
    <3>1. k - Len(w) \in 1..n /\ (w \o v)[k] = v[k - Len(w)]
      BY <1>1, <1>2, <1>5, <2>2
    <3>2. v[k - Len(w)] = s.buf[s.ptr0 + (k - Len(w))]
      BY <1>3, <3>1 DEF Given
    <3>3. k - Len(w) \in 1..s.nPending
      BY <1>2, <3>1
    <3>4. s.buf[s.ptr0 + (k - Len(w))] = Sent(s, F) + (k - Len(w))
      BY <3>3 DEF PendOK
    <3> QED BY <1>1, <1>2, <1>5, <1>6, <3>1, <3>2, <3>4
  <2> QED BY <2>1, <2>2
<1> QED BY <1>3, <1>7, <1>8 DEF PipeOK

-----------------------------------------------------------------------------
(* DoRcv moves bytes from the wire to the receive buffer *)

RcvTypes(r) == /\ r.buf \in Seq(Byte) /\ Len(r.buf) \in Nat
               /\ r.nPending \in 0..BufSz /\ r.hdr \in BOOLEAN
               /\ r = [buf |-> r.buf, nPending |-> r.nPending, hdr |-> r.hdr]

(* The types of the fields of a receive buffer. *)
LEMMA RcvFields ==
  ASSUME NEW r \in RcvRec
  PROVE  RcvTypes(r)
<1>1. r.buf \in Seq(Byte) /\ r.nPending \in 0..BufSz /\ r.hdr \in BOOLEAN
      /\ r = [buf |-> r.buf, nPending |-> r.nPending, hdr |-> r.hdr]
  BY DEF RcvRec
<1> QED BY <1>1, LenProperties DEF RcvTypes

(* recv takes n of the bytes w: the receive buffer is then buf, and v is   *)
(* left on the wire.                                                       *)
Recv(r, w, n, buf, v) ==
  buf = r.buf \o SubSeq(w, 1, n) /\ v = SubSeq(w, n + 1, Len(w))

(* What recv brings continues what was there. *)
LEMMA Received ==
  ASSUME NEW F, FramesOK(F), NEW r, NEW j, RcvOK(r, j, F),
         NEW s, SndOK(s), NEW w \in Seq(Byte), PipeOK(w, r, j, F, s),
         NEW n \in 1..r.nPending, n <= Len(w),
         NEW buf, NEW v, Recv(r, w, n, buf, v)
  PROVE  /\ buf \in Seq(Byte) /\ Len(buf) = Len(r.buf) + n
         /\ \A k \in 1..Len(buf) : buf[k] = Base(F, j) + k
         /\ j \in 1..Len(F)
         /\ v \in Seq(Byte)
         /\ Base(F, j) + Len(buf) + Len(v) = Sent(s, F)
         /\ \A k \in 1..Len(v) : v[k] = Base(F, j) + Len(buf) + k
<1>0. RcvTypes(r) /\ j \in 1..Len(F) + 1 /\ F \in Seq(Frame)
  BY RcvFields DEF RcvOK, FramesOK
<1>a. Len(F) \in Nat /\ EndOf(F) \in Nat /\ BufSz \in Nat /\ Len(w) \in Nat
      /\ Len(r.buf) \in Nat /\ r.nPending \in 0..BufSz /\ r.buf \in Seq(Byte)
  BY <1>0, LenProperties, EndOfNat, Sizes1 DEF RcvTypes
<1>b. j \in Nat \ {0}
  BY <1>0, <1>a
<1>c. Base(F, j) \in Nat /\ (Base(F, j) < EndOf(F) => j <= Len(F))
  BY <1>b, BaseNat
<1>d. s.nPending \in Nat
  BY <1>a DEF SndOK, SndRec
<1>e. n \in Nat /\ n > 0 /\ n <= Len(w)
  BY <1>a
<1>f. Base(F, j) + Len(r.buf) + Len(w) = Sent(s, F)
  BY DEF PipeOK
<1>g. ASSUME NEW k \in 1..Len(w) PROVE w[k] = Base(F, j) + Len(r.buf) + k
  BY DEF PipeOK
<1>1. PICK u : u = SubSeq(w, 1, n)
  OBVIOUS
<1>2. u \in Seq(Byte) /\ Len(u) = n /\ \A k \in 1..n : u[k] = w[k]
  <2>1. \A k \in 1..n : w[k] \in Byte
    <3> SUFFICES ASSUME NEW k \in 1..n PROVE w[k] \in Byte
      OBVIOUS
    <3>1. k \in 1..Len(w) BY <1>a, <1>e
    <3> QED BY <3>1, ElementOfSeq
  <2>2. 1 \in Int /\ n \in Int /\ (1 <= n) /\ n - 1 + 1 = n
    BY <1>e
  <2>3. /\ SubSeq(w, 1, n) \in Seq(Byte)
        /\ Len(SubSeq(w, 1, n)) = IF 1 <= n THEN n - 1 + 1 ELSE 0
        /\ \A i \in 1 .. n - 1 + 1 : SubSeq(w, 1, n)[i] = w[1 + i - 1]
    BY <2>1, <2>2, SubSeqProperties
  <2> QED BY <1>1, <1>e, <2>2, <2>3
<1>3. buf \in Seq(Byte) /\ Len(buf) = Len(r.buf) + n
      /\ \A k \in 1..Len(r.buf) + n :
            buf[k] = IF k <= Len(r.buf) THEN r.buf[k] ELSE u[k - Len(r.buf)]
  <2>1. buf = r.buf \o u
    BY <1>1 DEF Recv
  <2> QED BY <1>2, <1>a, <2>1, ConcatProperties
<1>4. ASSUME NEW k \in 1..Len(buf) PROVE buf[k] = Base(F, j) + k
  <2>1. CASE k <= Len(r.buf)
    <3>1. k \in 1..Len(r.buf) /\ buf[k] = r.buf[k]
      BY <1>3, <1>a, <1>e, <2>1
    <3> QED BY <3>1 DEF RcvOK
  <2>2. CASE ~(k <= Len(r.buf))
    <3>1. k - Len(r.buf) \in 1..n /\ buf[k] = u[k - Len(r.buf)]
      BY <1>3, <1>a, <1>e, <2>2
    <3>2. buf[k] = w[k - Len(r.buf)]
      BY <1>2, <3>1
    <3>3. k - Len(r.buf) \in 1..Len(w)
      BY <1>a, <1>e, <3>1
    <3>4. w[k - Len(r.buf)] = Base(F, j) + Len(r.buf) + (k - Len(r.buf))
      BY <1>g, <3>3
    <3>5. k \in Nat /\ Len(r.buf) \in Nat
      BY <1>3, <1>a, <1>e
    <3> QED BY <1>c, <3>2, <3>4, <3>5
  <2> QED BY <2>1, <2>2
<1>5. j \in 1..Len(F)
  BY <1>0, <1>a, <1>b, <1>c, <1>d, <1>e, <1>f, SMTT(30) DEF Sent
<1>6. v \in Seq(Byte) /\ Len(v) = Len(w) - n
      /\ \A k \in 1..Len(w) - n : v[k] = w[n + k]
  <2>1. \A k \in n + 1 .. Len(w) : w[k] \in Byte
    <3> SUFFICES ASSUME NEW k \in n + 1 .. Len(w) PROVE w[k] \in Byte
      OBVIOUS
    <3>1. k \in 1..Len(w) BY <1>a, <1>e
    <3> QED BY <3>1, ElementOfSeq
  <2>2. n + 1 \in Int /\ Len(w) \in Int /\ Len(w) - (n + 1) + 1 = Len(w) - n
    BY <1>a, <1>e
  <2>0. v = SubSeq(w, n + 1, Len(w))
    BY DEF Recv
  <2>3. /\ v \in Seq(Byte)
        /\ Len(v) = IF n + 1 <= Len(w) THEN Len(w) - (n + 1) + 1 ELSE 0
        /\ \A i \in 1 .. Len(w) - (n + 1) + 1 : v[i] = w[(n + 1) + i - 1]
    BY <2>0, <2>1, <2>2, SubSeqProperties
  <2>4. v \in Seq(Byte)
    BY <2>3
  <2>5. Len(v) = Len(w) - n
    <3>1. CASE n + 1 <= Len(w)
      BY <2>2, <2>3, <3>1
    <3>2. CASE ~(n + 1 <= Len(w))
      <4>1. Len(w) - n = 0
        BY <1>a, <1>e, <3>2
      <4> QED BY <2>3, <3>2, <4>1
    <3> QED BY <3>1, <3>2
  <2>6. ASSUME NEW k \in 1..Len(w) - n PROVE v[k] = w[n + k]
    <3>1. (n + 1) + k - 1 = n + k BY <1>a, <1>e
    <3> QED BY <2>2, <2>3, <3>1
  <2> QED BY <2>4, <2>5, <2>6
<1>7. Base(F, j) + Len(buf) + Len(v) = Sent(s, F)
  BY <1>3, <1>6, <1>a, <1>c, <1>e, <1>f
<1>8. ASSUME NEW k \in 1..Len(v) PROVE v[k] = Base(F, j) + Len(buf) + k
  <2>0. k \in 1..Len(w) - n
    BY <1>6
  <2>a. v[k] = w[n + k]
    BY <1>6, <2>0
  <2>b. n + k \in 1..Len(w)
    BY <1>a, <1>e, <2>0
  <2>1. n + k \in 1..Len(w) /\ v[k] = w[n + k]
    BY <2>a, <2>b
  <2>2. w[n + k] = Base(F, j) + Len(r.buf) + (n + k)
    BY <1>g, <2>1
  <2> QED BY <1>3, <1>6, <1>a, <1>c, <1>e, <2>1, <2>2
<1> QED BY <1>3, <1>4, <1>5, <1>6, <1>7, <1>8

(* A part of what was asked for, or all of it; the header flag is as it was. *)
LEMMA PartReceived ==
  ASSUME NEW F, FramesOK(F), NEW r, NEW j, RcvOK(r, j, F),
         NEW s, SndOK(s), NEW w \in Seq(Byte), PipeOK(w, r, j, F, s),
         NEW n \in 1..r.nPending, n <= Len(w),
         NEW buf, NEW v, Recv(r, w, n, buf, v),
         NEW q, q = [r EXCEPT !.buf = buf, !.nPending = r.nPending - n]
  PROVE  RcvOK(q, j, F) /\ PipeOK(v, q, j, F, s)
<1>0. RcvTypes(r) /\ r \in RcvRec
  BY RcvFields DEF RcvOK
<1>a. BufSz \in Nat
  BY Sizes1
<1>1. /\ buf \in Seq(Byte) /\ Len(buf) = Len(r.buf) + n
      /\ \A k \in 1..Len(buf) : buf[k] = Base(F, j) + k
      /\ j \in 1..Len(F)
      /\ v \in Seq(Byte)
      /\ Base(F, j) + Len(buf) + Len(v) = Sent(s, F)
      /\ \A k \in 1..Len(v) : v[k] = Base(F, j) + Len(buf) + k
  BY Received
<1>2. q = [buf |-> buf, nPending |-> r.nPending - n, hdr |-> r.hdr]
  BY <1>0 DEF RcvRec
<1>3. r.nPending - n \in 0..BufSz
  BY <1>0, <1>a DEF RcvTypes
<1>4. q \in RcvRec
  BY <1>0, <1>1, <1>2, <1>3 DEF RcvRec, RcvTypes
<1>5. Len(F) \in Nat
  BY LenProperties DEF FramesOK
<1>6. q.buf = buf /\ q.nPending = r.nPending - n /\ q.hdr = r.hdr
  BY <1>2
<1>7. Len(buf) + (r.nPending - n) = Len(r.buf) + r.nPending
      /\ Len(buf) >= Len(r.buf) /\ j \in 1..Len(F) + 1 /\ j <= Len(F)
  BY <1>0, <1>1, <1>a, <1>5 DEF RcvTypes
<1>8. q.hdr => Len(q.buf) + q.nPending = HdrSz
  BY <1>6, <1>7 DEF RcvOK
<1>9. ~q.hdr => /\ Len(q.buf) >= HdrSz
                /\ F[j].flags = "none"
                /\ Len(q.buf) + q.nPending = TtlSz(F[j].sz)
  <2> SUFFICES ASSUME ~q.hdr
               PROVE  /\ Len(q.buf) >= HdrSz
                      /\ F[j].flags = "none"
                      /\ Len(q.buf) + q.nPending = TtlSz(F[j].sz)
    OBVIOUS
  <2>1. /\ Len(r.buf) >= HdrSz
        /\ F[j].flags = "none"
        /\ Len(r.buf) + r.nPending = TtlSz(F[j].sz)
    BY <1>6 DEF RcvOK
  <2> QED BY <1>0, <1>1, <1>6, <1>7, <1>a, <2>1, Sizes1, SMTT(30) DEF RcvTypes
<1>10. RcvOK(q, j, F)
  BY <1>1, <1>4, <1>6, <1>7, <1>8, <1>9 DEF RcvOK
<1>11. PipeOK(v, q, j, F, s)
  BY <1>1, <1>6 DEF PipeOK
<1> QED BY <1>10, <1>11

(* The last byte of a header: what is asked for now ends the frame. *)
LEMMA HeaderReceived ==
  ASSUME NEW F, FramesOK(F), NEW r, NEW j, RcvOK(r, j, F),
         NEW s, SndOK(s), NEW w \in Seq(Byte), PipeOK(w, r, j, F, s),
         NEW n \in 1..r.nPending, n <= Len(w),
         NEW buf, NEW v, Recv(r, w, n, buf, v),
         r.hdr, r.nPending - n = 0,
         NEW i \in 1..Len(F), HasHeader(buf, F[i]), F[i].flags = "none",
         NEW q, q = [buf |-> buf, nPending |-> TtlSz(F[i].sz) - HdrSz,
                     hdr |-> FALSE]
  PROVE  RcvOK(q, j, F) /\ PipeOK(v, q, j, F, s)
<1>0. RcvTypes(r)
  BY RcvFields DEF RcvOK
<1>a. BufSz \in Nat /\ HdrSz \in Nat /\ HdrSz > 0 /\ Len(F) \in Nat
  BY Sizes1, LenProperties DEF FramesOK
<1>1. /\ buf \in Seq(Byte) /\ Len(buf) = Len(r.buf) + n
      /\ \A k \in 1..Len(buf) : buf[k] = Base(F, j) + k
      /\ j \in 1..Len(F)
      /\ v \in Seq(Byte)
      /\ Base(F, j) + Len(buf) + Len(v) = Sent(s, F)
      /\ \A k \in 1..Len(v) : v[k] = Base(F, j) + Len(buf) + k
  BY Received
<1>2. Len(buf) = HdrSz
  <2>1. Len(r.buf) + r.nPending = HdrSz
    BY DEF RcvOK
  <2> QED BY <1>0, <1>1, <1>a, <2>1 DEF RcvTypes
<1>3. i = j
  <2>1. 1 \in 1..Len(buf)
    BY <1>2, <1>a
  <2>2. j <= Len(F)
    BY <1>1, <1>a
  <2>3. buf[1] = F[j].start + 1
    BY <1>1, <2>1, <2>2 DEF Base
  <2> QED BY <1>1, <2>3, HeaderTells
<1>4. TtlSz(F[j].sz) - HdrSz \in 1..BufSz /\ TtlSz(F[j].sz) \in Nat
  BY <1>1, FrameFacts DEF FramesOK
<1>5. q.buf = buf /\ q.nPending = TtlSz(F[j].sz) - HdrSz /\ q.hdr = FALSE
  BY <1>3
<1>6. q \in RcvRec
  BY <1>1, <1>3, <1>4, <1>a DEF RcvRec
<1>7. Len(q.buf) >= HdrSz /\ Len(q.buf) + q.nPending = TtlSz(F[j].sz)
  BY <1>2, <1>4, <1>5, <1>a, SMTT(30)
<1>8. j \in 1..Len(F) + 1 /\ j <= Len(F)
  BY <1>1, <1>a
<1>9. RcvOK(q, j, F)
  BY <1>1, <1>3, <1>5, <1>6, <1>7, <1>8 DEF RcvOK
<1>10. PipeOK(v, q, j, F, s)
  BY <1>1, <1>5 DEF PipeOK
<1> QED BY <1>9, <1>10

(* What DoRcv hands over of a frame f in the receive buffer. *)
BodyIn(buf, f) == SubSeq(buf, HdrSz + 1, HdrSz + f.sz)

Handed(buf, f, b, d, e) == b = BodyIn(buf, f) /\ e = Append(d, b)

(* The last byte of a frame: what OnRcvLo gets is the frame's body. *)
LEMMA BodyReceived ==
  ASSUME NEW F, FramesOK(F), NEW d, DelOK(d, F),
         NEW r, RcvOK(r, Len(d) + 1, F),
         NEW s, SndOK(s), NEW w \in Seq(Byte), PipeOK(w, r, Len(d) + 1, F, s),
         NEW n \in 1..r.nPending, n <= Len(w),
         NEW buf, NEW v, Recv(r, w, n, buf, v),
         ~r.hdr, r.nPending - n = 0,
         NEW i \in 1..Len(F), HasHeader(buf, F[i]),
         NEW b, NEW e, Handed(buf, F[i], b, d, e)
  PROVE  /\ DelOK(e, F) /\ Len(e) = Len(d) + 1
         /\ i = Len(d) + 1 /\ b \in Seq(Byte) /\ b = Body(F[i])
         /\ F[i].flags = "none"
<1>0. RcvTypes(r)
  BY RcvFields DEF RcvOK
<1>a. BufSz \in Nat /\ HdrSz \in Nat /\ HdrSz > 0
      /\ TrlSz \in Nat /\ MaxMsg \in Nat /\ F \in Seq(Frame)
  BY Sizes1 DEF FramesOK
<1>z. Len(F) \in Nat
  BY <1>a, LenProperties
<1>b. d \in Seq(Seq(Byte)) /\ Len(d) \in Nat /\ Len(d) <= Len(F)
  BY LenProperties DEF DelOK
<1>c. PICK j : j = Len(d) + 1
  OBVIOUS
<1>d. RcvOK(r, j, F) /\ PipeOK(w, r, j, F, s)
  BY <1>c
<1>1. /\ buf \in Seq(Byte) /\ Len(buf) = Len(r.buf) + n
      /\ \A k \in 1..Len(buf) : buf[k] = Base(F, j) + k
      /\ j \in 1..Len(F)
  BY <1>d, Received
<1>2. F[j].flags = "none" /\ Len(r.buf) + r.nPending = TtlSz(F[j].sz)
  BY <1>d DEF RcvOK
<1>3. F[j].start \in Nat /\ F[j].sz \in 0..MaxMsg
      /\ TtlSz(F[j].sz) \in Nat /\ F[j] \in Frame
  BY <1>1, <1>a, FrameFacts
<1>4. Len(buf) = TtlSz(F[j].sz)
  BY <1>0, <1>1, <1>2 DEF RcvTypes
<1>5. Base(F, j) = F[j].start
  <2>1. j <= Len(F) BY <1>1, <1>z
  <2> QED BY <2>1 DEF Base
<1>6. i = j
  <2>1. 1 \in 1..Len(buf)
    BY <1>3, <1>4, <1>a, SMTT(30) DEF TtlSz
  <2>2. buf[1] = F[j].start + 1
    BY <1>1, <1>5, <2>1
  <2> QED BY <1>1, <2>2, HeaderTells
<1>7. PICK sz \in 0..MaxMsg : sz = F[j].sz
  BY <1>3
<1>8. Len(buf) = HdrSz + sz + TrlSz /\ sz \in Nat
  BY <1>4, <1>7, <1>a DEF TtlSz
<1>9. /\ b \in Seq(Byte) /\ Len(b) = sz
      /\ \A k \in 1..sz : b[k] = buf[HdrSz + k]
  <2>1. ASSUME NEW k \in HdrSz + 1 .. HdrSz + sz PROVE buf[k] \in Byte
    <3>1. k \in 1..Len(buf) BY <1>8, <1>a
    <3> QED BY <1>1, <3>1, ElementOfSeq
  <2>2. HdrSz + 1 \in Int /\ HdrSz + sz \in Int
        /\ (HdrSz + sz) - (HdrSz + 1) + 1 = sz
    BY <1>8, <1>a
  <2>3. b = SubSeq(buf, HdrSz + 1, HdrSz + sz)
    BY <1>6, <1>7 DEF Handed, BodyIn
  <2>4. /\ b \in Seq(Byte)
        /\ Len(b) = IF HdrSz + 1 <= HdrSz + sz
                    THEN (HdrSz + sz) - (HdrSz + 1) + 1 ELSE 0
        /\ \A k \in 1 .. (HdrSz + sz) - (HdrSz + 1) + 1 :
             b[k] = buf[HdrSz + 1 + k - 1]
    BY <2>1, <2>2, <2>3, SubSeqProperties, SMTT(30)
  <2>5. Len(b) = sz
    <3>1. CASE sz = 0
      BY <1>8, <1>a, <2>4, <3>1
    <3>2. CASE sz # 0
      <4>1. HdrSz + 1 <= HdrSz + sz BY <1>8, <1>a, <3>2
      <4> QED BY <2>2, <2>4, <4>1
    <3> QED BY <3>1, <3>2
  <2>6. ASSUME NEW k \in 1..sz PROVE b[k] = buf[HdrSz + k]
    <3>1. HdrSz + 1 + k - 1 = HdrSz + k BY <1>8, <1>a
    <3> QED BY <2>2, <2>4, <3>1
  <2> QED BY <2>4, <2>5, <2>6
<1>10. b = Body(F[j])
  <2>1. b \in [1..sz -> Byte]
    BY <1>9, LenProperties
  <2>2. ASSUME NEW k \in 1..sz PROVE b[k] = F[j].start + HdrSz + k
    <3>1. HdrSz + k \in 1..Len(buf)
      BY <1>8, <1>a
    <3>2. buf[HdrSz + k] = F[j].start + (HdrSz + k)
      BY <1>1, <1>5, <3>1
    <3> QED BY <1>3, <1>8, <1>9, <1>a, <3>2, SMTT(30)
  <2>3. b = [k \in 1..sz |-> F[j].start + HdrSz + k]
    BY <2>1, <2>2
  <2> QED BY <1>7, <2>3 DEF Body
<1>11. /\ e \in Seq(Seq(Byte)) /\ Len(e) = Len(d) + 1
       /\ \A k \in 1..Len(d) : e[k] = d[k]
       /\ e[Len(d) + 1] = b
  BY <1>9, <1>b, AppendProperties DEF Handed
<1>12. ASSUME NEW k \in 1..Len(e)
       PROVE  F[k].flags = "none" /\ e[k] = Body(F[k])
  <2>1. CASE k \in 1..Len(d)
    BY <1>11, <2>1 DEF DelOK, InOrder
  <2>2. CASE k = Len(d) + 1
    BY <1>2, <1>10, <1>11, <1>c, <2>2
  <2> QED BY <1>11, <1>b, <2>1, <2>2
<1>13. Len(e) <= Len(F)
  BY <1>1, <1>11, <1>b, <1>c, <1>z
<1>14. DelOK(e, F)
  BY <1>11, <1>12, <1>13 DEF DelOK, InOrder
<1> QED BY <1>2, <1>6, <1>9, <1>10, <1>11, <1>14, <1>c

(* OnRcv has returned: SetupForRcv, and on to the next frame. *)
LEMMA NextFrame ==
  ASSUME NEW F, FramesOK(F), NEW r, NEW j, RcvOK(r, j, F),
         ~r.hdr, r.nPending = 0
  PROVE  /\ RcvOK(EmptyRcv, j + 1, F)
         /\ \A w, s : PipeOK(w, r, j, F, s) => PipeOK(w, EmptyRcv, j + 1, F, s)
<1>0. RcvTypes(r) /\ F \in Seq(Frame) /\ Len(F) \in Nat
  BY RcvFields, LenProperties DEF RcvOK, FramesOK
<1>a. BufSz \in Nat /\ HdrSz \in 0..BufSz
  BY Sizes1
<1>1. j \in 1..Len(F) + 1 /\ j <= Len(F)
      /\ Len(r.buf) + r.nPending = TtlSz(F[j].sz)
  BY DEF RcvOK
<1>2. j \in 1..Len(F) /\ Len(r.buf) = TtlSz(F[j].sz)
  BY <1>0, <1>1 DEF RcvTypes
<1>3. Base(F, j + 1) = Base(F, j) + Len(r.buf)
  BY <1>2, NextBase
<1>4. Len(EmptyRcv.buf) = 0 /\ EmptyRcv.nPending = HdrSz /\ EmptyRcv.hdr = TRUE
      /\ EmptyRcv \in RcvRec
  BY <1>a, EmptySeq DEF EmptyRcv, RcvRec
<1>5. j + 1 \in 1..Len(F) + 1
  BY <1>0, <1>2
<1>6. RcvOK(EmptyRcv, j + 1, F)
  BY <1>4, <1>5, <1>a DEF RcvOK
<1>7. ASSUME NEW w, NEW s, PipeOK(w, r, j, F, s)
      PROVE  PipeOK(w, EmptyRcv, j + 1, F, s)
  <2>1. j \in Nat \ {0} /\ Len(r.buf) \in Nat
    BY <1>0, <1>2 DEF RcvTypes
  <2>2. Base(F, j) \in Nat
    BY <2>1, BaseNat
  <2>3. Base(F, j + 1) + Len(EmptyRcv.buf) = Base(F, j) + Len(r.buf)
    BY <1>3, <1>4, <2>1, <2>2
  <2> QED BY <1>7, <2>3 DEF PipeOK
<1> QED BY <1>6, <1>7

-----------------------------------------------------------------------------
(* The stream at every step *)

(* The frame an end with flags c and deliveries d is at.                   *)
At(c, d) == IF c.pc = "rcv" THEN Len(d) ELSE Len(d) + 1

SendSide(s, F) == FramesOK(F) /\ PendOK(s, F)

(* What an end has received, up to the peer's send buffer; l is the state  *)
(* of its TCP.                                                             *)
RcvSide(c, r, d, w, l, F, s) ==
  /\ DelOK(d, F)
  /\ RcvOK(r, At(c, d), F)
  /\ l = "up" => PipeOK(w, r, At(c, d), F, s)
  /\ c.pc = "rcv" => ~c.outtaHere /\ ~r.hdr /\ r.nPending = 0

RcvSideOf(e) == RcvSide(ctl[e], rcv[e], delivered[e], wire[Peer(e)], lost[e],
                        frames[Peer(e)], snd[Peer(e)])

StreamInv ==
  /\ rcv \in [Ends -> RcvRec]
  /\ wire \in [Ends -> Seq(Byte)]
  /\ delivered \in [Ends -> Seq(Seq(Byte))]
  /\ \A e \in Ends : SendSide(snd[e], frames[e]) /\ RcvSideOf(e)

IInv == CtlInv /\ SndInv /\ StreamInv

(* There are two ends, each the peer of the other. *)
LEMMA PeerFacts ==
  ASSUME NEW e \in Ends
  PROVE  /\ Peer(e) \in Ends /\ Peer(Peer(e)) = e /\ Peer(e) # e
         /\ \A f \in Ends : f = e \/ f = Peer(e)
  BY EndsAssumption DEF Peer, Ends

(* The flags do not matter while the end is not in OnRcv. *)
LEMMA OtherFlags ==
  ASSUME NEW c, NEW r, NEW d, NEW w, NEW l, NEW F, NEW s,
         RcvSide(c, r, d, w, l, F, s), c.pc # "rcv", NEW g, g.pc # "rcv"
  PROVE  RcvSide(g, r, d, w, l, F, s)
<1>1. At(g, d) = At(c, d)
  BY DEF At
<1> QED BY <1>1 DEF RcvSide

(* Only the receiving side of end e changes. *)
LEMMA RcvUpdate ==
  ASSUME CtlInv, SndInv, StreamInv, NEW e \in Ends,
         NEW c, NEW r, NEW d, NEW w \in Seq(Byte),
         ctl' = [ctl EXCEPT ![e] = c], rcv' = [rcv EXCEPT ![e] = r],
         delivered' = [delivered EXCEPT ![e] = d],
         wire' = [wire EXCEPT ![Peer(e)] = w],
         UNCHANGED <<snd, lost, frames>>,
         RcvSide(c, r, d, w, lost[e], frames[Peer(e)], snd[Peer(e)])
  PROVE  StreamInv'
<1>0. Peer(e) \in Ends /\ Peer(Peer(e)) = e /\ Peer(e) # e
      /\ \A f \in Ends : f = e \/ f = Peer(e)
  BY PeerFacts
<1>1. r \in RcvRec /\ d \in Seq(Seq(Byte))
  BY DEF RcvSide, RcvOK, DelOK
<1>2. rcv' \in [Ends -> RcvRec] /\ delivered' \in [Ends -> Seq(Seq(Byte))]
      /\ wire' \in [Ends -> Seq(Byte)]
  BY <1>0, <1>1 DEF StreamInv
<1>3. ctl'[e] = c /\ rcv'[e] = r /\ delivered'[e] = d /\ wire'[Peer(e)] = w
  BY <1>0 DEF StreamInv, CtlInv
<1>4. ctl'[Peer(e)] = ctl[Peer(e)] /\ rcv'[Peer(e)] = rcv[Peer(e)]
      /\ delivered'[Peer(e)] = delivered[Peer(e)] /\ wire'[e] = wire[e]
  BY <1>0 DEF StreamInv, CtlInv
<1>5. ASSUME NEW f \in Ends
      PROVE  SendSide(snd'[f], frames'[f]) /\ RcvSideOf(f)'
  <2>1. SendSide(snd'[f], frames'[f])
    BY DEF StreamInv
  <2>2. CASE f = e
    BY <1>3, <2>1, <2>2 DEF RcvSideOf
  <2>3. CASE f = Peer(e)
    <3>1. RcvSideOf(f)
      BY DEF StreamInv
    <3> QED BY <1>0, <1>4, <2>1, <2>3, <3>1 DEF RcvSideOf
  <2> QED BY <1>0, <2>2, <2>3
<1> QED BY <1>2, <1>5 DEF StreamInv

(* Only the sending side of end e changes, and its flags. *)
LEMMA SendUpdate ==
  ASSUME CtlInv, SndInv, StreamInv, NEW e \in Ends,
         NEW c, NEW s, NEW F, NEW w \in Seq(Byte),
         ctl' = [ctl EXCEPT ![e] = c], snd' = [snd EXCEPT ![e] = s],
         frames' = [frames EXCEPT ![e] = F], wire' = [wire EXCEPT ![e] = w],
         UNCHANGED <<rcv, lost, delivered>>,
         SendSide(s, F),
         RcvSide(c, rcv[e], delivered[e], wire[Peer(e)], lost[e],
                 frames[Peer(e)], snd[Peer(e)]),
         RcvSide(ctl[Peer(e)], rcv[Peer(e)], delivered[Peer(e)], w,
                 lost[Peer(e)], F, s)
  PROVE  StreamInv'
<1>0. Peer(e) \in Ends /\ Peer(Peer(e)) = e /\ Peer(e) # e
      /\ \A f \in Ends : f = e \/ f = Peer(e)
  BY PeerFacts
<1>2. rcv' \in [Ends -> RcvRec] /\ delivered' \in [Ends -> Seq(Seq(Byte))]
      /\ wire' \in [Ends -> Seq(Byte)]
  BY <1>0 DEF StreamInv
<1>3. ctl'[e] = c /\ snd'[e] = s /\ frames'[e] = F /\ wire'[e] = w
  BY <1>0 DEF StreamInv, CtlInv, SndInv
<1>4. ctl'[Peer(e)] = ctl[Peer(e)] /\ snd'[Peer(e)] = snd[Peer(e)]
      /\ frames'[Peer(e)] = frames[Peer(e)] /\ wire'[Peer(e)] = wire[Peer(e)]
  BY <1>0 DEF StreamInv, CtlInv, SndInv
<1>5. ASSUME NEW f \in Ends
      PROVE  SendSide(snd'[f], frames'[f]) /\ RcvSideOf(f)'
  <2>2. CASE f = e
    <3>1. SendSide(snd'[f], frames'[f])
      BY <1>3, <2>2
    <3>2. RcvSideOf(f)'
      BY <1>3, <1>4, <2>2 DEF RcvSideOf
    <3> QED BY <3>1, <3>2
  <2>3. CASE f = Peer(e)
    <3>1. SendSide(snd'[f], frames'[f])
      BY <1>0, <1>4, <2>3 DEF StreamInv
    <3>2. RcvSideOf(f)'
      BY <1>0, <1>3, <1>4, <2>3 DEF RcvSideOf
    <3> QED BY <3>1, <3>2
  <2> QED BY <1>0, <2>2, <2>3
<1> QED BY <1>2, <1>5 DEF StreamInv

(* A step that keeps the stream, and end e out of OnRcv. *)
LEMMA FlagStep ==
  ASSUME CtlInv, SndInv, StreamInv, NEW e \in Ends, NEW g,
         ctl' = [ctl EXCEPT ![e] = g], ctl[e].pc # "rcv", g.pc # "rcv",
         UNCHANGED <<snd, rcv, wire, lost, frames, delivered>>
  PROVE  StreamInv'
<1>0. Peer(e) \in Ends
  BY PeerFacts
<1>1. RcvSideOf(e) /\ wire[Peer(e)] \in Seq(Byte)
  BY <1>0 DEF StreamInv
<1>2. RcvSide(g, rcv[e], delivered[e], wire[Peer(e)], lost[e],
              frames[Peer(e)], snd[Peer(e)])
  BY <1>1, OtherFlags DEF RcvSideOf
<1>3. rcv' = [rcv EXCEPT ![e] = rcv[e]]
      /\ delivered' = [delivered EXCEPT ![e] = delivered[e]]
      /\ wire' = [wire EXCEPT ![Peer(e)] = wire[Peer(e)]]
  BY <1>0 DEF StreamInv
<1> QED BY <1>1, <1>2, <1>3, RcvUpdate

-----------------------------------------------------------------------------
(* The steps *)

(* Flags that the receiving side does not look at may change. *)
LEMMA SameFlags ==
  ASSUME NEW c, NEW r, NEW d, NEW w, NEW l, NEW F, NEW s,
         RcvSide(c, r, d, w, l, F, s),
         NEW g, g.pc = c.pc, g.outtaHere = c.outtaHere
  PROVE  RcvSide(g, r, d, w, l, F, s)
<1>1. At(g, d) = At(c, d)
  BY DEF At
<1> QED BY <1>1 DEF RcvSide

(* send3a, in a call that may also close the socket. *)
LEMMA Send3aStream ==
  ASSUME CtlInv, SndInv, StreamInv, NEW e \in Ends, NEW sz \in 0..MaxMsg,
         NEW flags \in Flags, Send3a(e, sz, flags),
         NEW g, g.pc = ctl[e].pc, g.outtaHere = ctl[e].outtaHere,
         ctl' = [ctl EXCEPT ![e] = g],
         UNCHANGED <<rcv, wire, lost, delivered>>
  PROVE  StreamInv'
<1>0. Peer(e) \in Ends /\ Peer(Peer(e)) = e
  BY PeerFacts
<1>1. RcvSideOf(e) /\ RcvSideOf(Peer(e)) /\ wire[e] \in Seq(Byte)
      /\ SendSide(snd[e], frames[e]) /\ SndOK(snd[e])
  BY <1>0 DEF StreamInv, SndInv
<1>2. wire' = [wire EXCEPT ![e] = wire[e]]
  BY DEF StreamInv
<1>3. RcvSide(g, rcv[e], delivered[e], wire[Peer(e)], lost[e],
              frames[Peer(e)], snd[Peer(e)])
  BY <1>1, SameFlags DEF RcvSideOf
<1>4. RcvSide(ctl[Peer(e)], rcv[Peer(e)], delivered[Peer(e)], wire[e],
              lost[Peer(e)], frames[e], snd[e])
  BY <1>0, <1>1 DEF RcvSideOf
<1>5. CASE HasRoom(e, TtlSz(sz))
  <2>1. PICK f : f = [start |-> EndOf(frames[e]), sz |-> sz, flags |-> flags]
    OBVIOUS
  <2>2. FramesOK(frames[e]) /\ PendOK(snd[e], frames[e])
    BY <1>1 DEF SendSide
  <2>3. f.start = EndOf(frames[e]) /\ f.sz = sz /\ f \in Frame
    BY <2>1, <2>2, EndOfNat DEF FramesOK, Frame
  <2>4. PICK G : G = Append(frames[e], f)
    OBVIOUS
  <2>5. PICK t : t = Enqueue(snd[e], EndOf(frames[e]), TtlSz(f.sz))
    OBVIOUS
  <2>6. StreamEnd(e) = EndOf(frames[e])
    BY DEF StreamEnd, EndOf
  <2>7. frames' = [frames EXCEPT ![e] = G] /\ snd' = [snd EXCEPT ![e] = t]
    BY <1>5, <2>1, <2>3, <2>4, <2>5, <2>6 DEF Send3a
  <2>8. TtlSz(f.sz) <= snd[e].nFree
    BY <1>5, <2>3 DEF HasRoom
  <2>9. PendOK(t, G) /\ Sent(t, G) = Sent(snd[e], frames[e])
    <3>1. PICK F : F = frames[e]
      OBVIOUS
    <3>2. PICK s : s = snd[e]
      OBVIOUS
    <3>3. /\ FramesOK(F) /\ PendOK(s, F) /\ SndOK(s) /\ f.start = EndOf(F)
          /\ f \in Frame /\ TtlSz(f.sz) <= s.nFree
      BY <1>1, <2>2, <2>3, <2>8, <3>1, <3>2
    <3>5. Enqueued(F, f, G, s, t)
      BY <2>4, <2>5, <3>1, <3>2 DEF Enqueued
    <3>4. PendOK(t, G) /\ Sent(t, G) = Sent(s, F)
      BY <3>3, <3>5, EnqueuePend
    <3> QED BY <3>1, <3>2, <3>4
  <2>10. FramesOK(G)
    BY <2>2, <2>3, <2>4, AppendFrames
  <2>11. PICK p : p = Peer(e)
    OBVIOUS
  <2>12. PICK j : j = At(ctl[p], delivered[p])
    OBVIOUS
  <2>13. /\ DelOK(delivered[p], frames[e]) /\ RcvOK(rcv[p], j, frames[e])
         /\ lost[p] = "up" => PipeOK(wire[e], rcv[p], j, frames[e], snd[e])
         /\ ctl[p].pc = "rcv" =>
              ~ctl[p].outtaHere /\ ~rcv[p].hdr /\ rcv[p].nPending = 0
    BY <1>4, <2>11, <2>12 DEF RcvSide
  <2>14. j \in 1..Len(frames[e]) + 1
    BY <2>13 DEF RcvOK
  <2>15. DelOK(delivered[p], G)
    BY <2>2, <2>3, <2>4, <2>13, AppendDel
  <2>16. RcvOK(rcv[p], j, G)
    BY <2>2, <2>3, <2>4, <2>13, AppendRcv
  <2>17. lost[p] = "up" => PipeOK(wire[e], rcv[p], j, G, t)
    <3>1. Base(G, j) = Base(frames[e], j)
      BY <2>2, <2>3, <2>4, <2>14, AppendFrames
    <3> QED BY <2>9, <2>13, <3>1 DEF PipeOK
  <2>18. RcvSide(ctl[p], rcv[p], delivered[p], wire[e], lost[p], G, t)
    BY <2>12, <2>13, <2>15, <2>16, <2>17 DEF RcvSide
  <2> QED
    BY <1>1, <1>2, <1>3, <2>7, <2>9, <2>10, <2>11, <2>18, SendUpdate
       DEF SendSide
<1>6. CASE ~HasRoom(e, TtlSz(sz))
  <2>1. frames' = [frames EXCEPT ![e] = frames[e]]
        /\ snd' = [snd EXCEPT ![e] = snd[e]]
    BY <1>6 DEF Send3a, SndInv
  <2> QED BY <1>1, <1>2, <1>3, <1>4, <2>1, SendUpdate
<1> QED BY <1>5, <1>6

(* DoSend. *)
LEMMA DoSendStream ==
  ASSUME CtlInv, SndInv, StreamInv, NEW e \in Ends, ctl[e].pc = "write",
         DoSend(e), UNCHANGED <<rcv, lost, frames, delivered>>
  PROVE  StreamInv'
<1>0. Peer(e) \in Ends /\ Peer(Peer(e)) = e
  BY PeerFacts
<1>c. ctl[e] \in Ctl /\ ctl \in [Ends -> Ctl] /\ CtlCore(e, ctl[e], lost[e])
  BY DEF CtlInv
<1>1. PICK g : g = [ctl[e] EXCEPT !.pc = "idle"]
  OBVIOUS
<1>2. g.pc # "rcv" /\ [ctl EXCEPT ![e].pc = "idle"] = [ctl EXCEPT ![e] = g]
  BY <1>1, <1>c DEF Ctl
<1>3. CASE UNCHANGED <<snd, wire>> /\ ctl' = [ctl EXCEPT ![e].pc = "idle"]
  BY <1>2, <1>3, FlagStep
<1>4. ASSUME ~ctl[e].outtaHere, UNCHANGED <<snd, wire>>,
             NEW aborted \in BOOLEAN,
             ctl' = [ctl EXCEPT ![e] =
                [Close(e, [ctl[e] EXCEPT !.outtaHere = @ \/ ~aborted])
                   EXCEPT !.pc = "idle"]]
      PROVE  StreamInv'
  <2>1. PICK b : b = [ctl[e] EXCEPT !.outtaHere = @ \/ ~aborted]
    OBVIOUS
  <2>2. b \in Ctl /\ b.hSocket = ctl[e].hSocket /\ b.closes = ctl[e].closes
        /\ b.autoDeleteReq = ctl[e].autoDeleteReq
    BY <1>c, <2>1 DEF Ctl
  <2>3. Untold(e, ctl[e])
    BY <1>4, SelectUntold
  <2>4. CtlCore(e, b, lost[e]) /\ Untold(e, b)
    BY <1>c, <2>1, <2>2, <2>3 DEF CtlCore, Untold, Ctl
  <2>5. PICK d : d = Close(e, b)
    OBVIOUS
  <2>6. CtlCore(e, d, lost[e])
    BY <2>4, <2>5, CloseCore
  <2>7. PICK t : t = [d EXCEPT !.pc = "idle"]
    OBVIOUS
  <2>8. t.pc = "idle"
    BY <2>6, <2>7, SetPcCore
  <2>9. ctl' = [ctl EXCEPT ![e] = t]
    BY <1>4, <2>1, <2>5, <2>7
  <2> QED BY <1>4, <2>8, <2>9, FlagStep
<1>5. ASSUME NEW n \in 1..snd[e].nPending,
             wire' = [wire EXCEPT ![e] = wire[e] \o Given(snd[e], n)],
             snd' = [snd EXCEPT ![e] = Progress(snd[e], n)],
             ctl' = [ctl EXCEPT ![e].pc = "idle"]
      PROVE  StreamInv'
  <2>1. RcvSideOf(e) /\ RcvSideOf(Peer(e)) /\ wire[e] \in Seq(Byte)
        /\ FramesOK(frames[e]) /\ PendOK(snd[e], frames[e]) /\ SndOK(snd[e])
    BY <1>0 DEF StreamInv, SndInv, SendSide
  <2>2. PICK w : w = wire[e] \o Given(snd[e], n)
    OBVIOUS
  <2>3. w \in Seq(Byte)
    BY <2>1, <2>2, GivenBytes, ConcatProperties
  <2>4. PICK t : t = Progress(snd[e], n)
    OBVIOUS
  <2>5. PendOK(t, frames[e]) /\ Sent(t, frames[e]) = Sent(snd[e], frames[e]) + n
    BY <2>1, <2>4, ProgressPend
  <2>6. PICK p : p = Peer(e)
    OBVIOUS
  <2>7. PICK j : j = At(ctl[p], delivered[p])
    OBVIOUS
  <2>8. /\ DelOK(delivered[p], frames[e]) /\ RcvOK(rcv[p], j, frames[e])
        /\ lost[p] = "up" => PipeOK(wire[e], rcv[p], j, frames[e], snd[e])
        /\ ctl[p].pc = "rcv" =>
             ~ctl[p].outtaHere /\ ~rcv[p].hdr /\ rcv[p].nPending = 0
    BY <1>0, <2>1, <2>6, <2>7 DEF RcvSide, RcvSideOf
  <2>9. lost[p] = "up" => PipeOK(w, rcv[p], j, frames[e], t)
    BY <2>1, <2>2, <2>5, <2>8, SendPipe
  <2>10. RcvSide(ctl[p], rcv[p], delivered[p], w, lost[p], frames[e], t)
    BY <2>7, <2>8, <2>9 DEF RcvSide
  <2>11. RcvSide(g, rcv[e], delivered[e], wire[Peer(e)], lost[e],
                 frames[Peer(e)], snd[Peer(e)])
    <3>1. ctl[e].pc # "rcv" OBVIOUS
    <3> QED BY <1>2, <2>1, <3>1, OtherFlags DEF RcvSideOf
  <2>12. frames' = [frames EXCEPT ![e] = frames[e]]
    BY DEF SndInv
  <2>13. wire' = [wire EXCEPT ![e] = w] /\ snd' = [snd EXCEPT ![e] = t]
         /\ ctl' = [ctl EXCEPT ![e] = g]
    BY <1>2, <1>5, <2>2, <2>4
  <2> QED
    BY <2>1, <2>3, <2>5, <2>6, <2>10, <2>11, <2>12, <2>13, SendUpdate
       DEF SendSide
<1>6. \/ UNCHANGED <<snd, wire>> /\ ctl' = [ctl EXCEPT ![e].pc = "idle"]
      \/ \E n \in 1..snd[e].nPending :
           /\ wire' = [wire EXCEPT ![e] = wire[e] \o Given(snd[e], n)]
           /\ snd' = [snd EXCEPT ![e] = Progress(snd[e], n)]
           /\ ctl' = [ctl EXCEPT ![e].pc = "idle"]
      \/ /\ ~ctl[e].outtaHere /\ UNCHANGED <<snd, wire>>
         /\ \E aborted \in BOOLEAN :
              ctl' = [ctl EXCEPT ![e] =
                [Close(e, [ctl[e] EXCEPT !.outtaHere = @ \/ ~aborted])
                   EXCEPT !.pc = "idle"]]
  BY DEF DoSend, Progress, Given
<1> QED BY <1>3, <1>4, <1>5, <1>6

(* After the read event a pass is no longer reading. *)
LEMMA AfterReadPc ==
  ASSUME NEW c \in Ctl, NEW nw \in BOOLEAN
  PROVE  AfterRead(c, nw).pc # "rcv"
<1>1. PICK p \in {"idle", "write"} :
        p = IF c.hSocket /\ nw THEN "write" ELSE "idle"
  OBVIOUS
<1>2. PICK t : t = [c EXCEPT !.pc = p, !.needWrite = FALSE]
  OBVIOUS
<1>3. AfterRead(c, nw) = t
  BY <1>1, <1>2 DEF AfterRead
<1>4. t.pc = p
  BY <1>2 DEF Ctl
<1> QED BY <1>1, <1>3, <1>4

(* A read that leaves the frame unfinished, or ends the connection. *)
LEMMA ReadStep ==
  ASSUME CtlInv, SndInv, StreamInv, NEW e \in Ends,
         NEW c, c.pc # "rcv", NEW r, NEW w \in Seq(Byte),
         ctl' = [ctl EXCEPT ![e] = c], rcv' = [rcv EXCEPT ![e] = r],
         wire' = [wire EXCEPT ![Peer(e)] = w],
         UNCHANGED <<snd, lost, frames, delivered>>,
         NEW j, j = Len(delivered[e]) + 1,
         RcvOK(r, j, frames[Peer(e)]),
         PipeOK(w, r, j, frames[Peer(e)], snd[Peer(e)])
  PROVE  StreamInv'
<1>1. At(c, delivered[e]) = j
  BY DEF At
<1>2. DelOK(delivered[e], frames[Peer(e)])
  BY DEF StreamInv, RcvSideOf, RcvSide
<1>3. RcvSide(c, r, delivered[e], w, lost[e], frames[Peer(e)], snd[Peer(e)])
  BY <1>1, <1>2 DEF RcvSide
<1>4. delivered' = [delivered EXCEPT ![e] = delivered[e]]
  BY DEF StreamInv
<1> QED BY <1>3, <1>4, RcvUpdate

(* What OnRcvLo is given when the last bytes of a frame come. *)
LEMMA LastBytes ==
  ASSUME SndInv, StreamInv, NEW e \in Ends,
         ctl[e].pc = "idle", lost[e] = "up",
         NEW n \in 1..rcv[e].nPending, n <= Len(wire[Peer(e)]),
         NEW buf, buf = rcv[e].buf \o SubSeq(wire[Peer(e)], 1, n),
         ~rcv[e].hdr, rcv[e].nPending - n = 0,
         NEW i \in 1..Len(frames[Peer(e)]), HasHeader(buf, frames[Peer(e)][i]),
         NEW b, NEW d, Handed(buf, frames[Peer(e)][i], b, delivered[e], d)
  PROVE  /\ DelOK(d, frames[Peer(e)]) /\ Len(d) = Len(delivered[e]) + 1
         /\ i = Len(delivered[e]) + 1 /\ b \in Seq(Byte)
         /\ b = Body(frames[Peer(e)][i])
         /\ frames[Peer(e)][i].flags = "none"
         /\ d = Append(delivered[e], b)
<1>1. PICK p \in Ends : p = Peer(e)
  BY PeerFacts
<1>2. PICK F : F = frames[p]
  OBVIOUS
<1>3. PICK w : w = wire[p]
  OBVIOUS
<1>4. PICK s : s = snd[p]
  OBVIOUS
<1>5. PICK x : x = rcv[e]
  OBVIOUS
<1>6. PICK z : z = delivered[e]
  OBVIOUS
<1>7. PICK v : v = SubSeq(w, n + 1, Len(w))
  OBVIOUS
<1>8. Recv(x, w, n, buf, v)
  BY <1>1, <1>3, <1>5, <1>7 DEF Recv
<1>9. At(ctl[e], delivered[e]) = Len(z) + 1
  BY <1>6 DEF At
<1>10. /\ FramesOK(F) /\ SndOK(s) /\ w \in Seq(Byte) /\ DelOK(z, F)
       /\ RcvOK(x, Len(z) + 1, F) /\ PipeOK(w, x, Len(z) + 1, F, s)
  <2>1. RcvSideOf(e) /\ SendSide(snd[p], frames[p]) /\ SndOK(snd[p])
        /\ wire[p] \in Seq(Byte)
    BY <1>1 DEF StreamInv, SndInv
  <2> QED
    BY <1>1, <1>2, <1>3, <1>4, <1>5, <1>6, <1>9, <2>1
       DEF RcvSideOf, RcvSide, SendSide
<1>11. n \in 1..x.nPending /\ n <= Len(w) /\ ~x.hdr /\ x.nPending - n = 0
       /\ i \in 1..Len(F) /\ HasHeader(buf, F[i]) /\ Handed(buf, F[i], b, z, d)
  BY <1>1, <1>2, <1>3, <1>5, <1>6
<1>12. /\ DelOK(d, F) /\ Len(d) = Len(z) + 1
       /\ i = Len(z) + 1 /\ b \in Seq(Byte) /\ b = Body(F[i])
       /\ F[i].flags = "none"
  BY <1>8, <1>10, <1>11, BodyReceived
<1>13. d = Append(z, b)
  BY <1>11 DEF Handed
<1> QED BY <1>1, <1>2, <1>6, <1>12, <1>13

(* The bytes of one recv. *)
LEMMA RcvBytesStream ==
  ASSUME CtlInv, SndInv, StreamInv, NEW e \in Ends, NEW nw \in BOOLEAN,
         ctl[e].pc = "idle", ~ctl[e].outtaHere, lost[e] = "up",
         NEW n \in 1..rcv[e].nPending, n <= Len(wire[Peer(e)]),
         RcvBytes(e, n, nw), UNCHANGED <<snd, lost, frames>>
  PROVE  StreamInv'
<1> DEFINE p == Peer(e)
           F == frames[p]
           j == Len(delivered[e]) + 1
           r == rcv[e]
<1>0. p \in Ends /\ Peer(p) = e
  BY PeerFacts
<1>c. /\ ctl[e] \in Ctl /\ ctl \in [Ends -> Ctl] /\ CtlCore(e, ctl[e], lost[e])
      /\ Untold(e, ctl[e])
  BY SelectUntold DEF CtlInv
<1>1. At(ctl[e], delivered[e]) = j
  BY DEF At
<1>2. /\ FramesOK(F) /\ SndOK(snd[p]) /\ wire[p] \in Seq(Byte)
      /\ DelOK(delivered[e], F) /\ RcvOK(r, j, F)
      /\ PipeOK(wire[p], r, j, F, snd[p])
  <2>1. RcvSideOf(e) /\ SendSide(snd[p], F)
    BY <1>0 DEF StreamInv
  <2>2. SndOK(snd[p]) /\ wire[p] \in Seq(Byte)
    BY <1>0 DEF StreamInv, SndInv
  <2> QED BY <1>1, <2>1, <2>2 DEF RcvSideOf, RcvSide, SendSide
<1>3. PICK buf : buf = rcv[e].buf \o SubSeq(wire[p], 1, n)
  OBVIOUS
<1>4. PICK v : v = SubSeq(wire[p], n + 1, Len(wire[p]))
  OBVIOUS
<1>5. Recv(r, wire[p], n, buf, v)
  BY <1>3, <1>4 DEF Recv
<1>6. v \in Seq(Byte)
  BY <1>2, <1>5, Received
<1>7. wire' = [wire EXCEPT ![p] = v]
  BY <1>4 DEF RcvBytes
<1>8. PICK got : got = [r EXCEPT !.buf = buf, !.nPending = r.nPending - n]
  OBVIOUS
<1>9. RcvOK(got, j, F) /\ PipeOK(v, got, j, F, snd[p])
  <2>1. PICK w : w = wire[p]
    OBVIOUS
  <2>2. PICK s : s = snd[p]
    OBVIOUS
  <2>3. PICK q : q = rcv[e]
    OBVIOUS
  <2>4. /\ FramesOK(F) /\ SndOK(s) /\ w \in Seq(Byte) /\ RcvOK(q, j, F)
        /\ PipeOK(w, q, j, F, s) /\ Recv(q, w, n, buf, v)
        /\ n \in 1..q.nPending /\ n <= Len(w)
    BY <1>2, <1>5, <2>1, <2>2, <2>3
  <2>5. got = [q EXCEPT !.buf = buf, !.nPending = q.nPending - n]
    BY <1>8, <2>3
  <2> HIDE DEF F, j, r, p
  <2>6. RcvOK(got, j, F) /\ PipeOK(v, got, j, F, s)
    BY <2>4, <2>5, PartReceived
  <2> QED BY <2>2, <2>6
<1>10. CASE /\ rcv' = [rcv EXCEPT ![e] = got]
            /\ UNCHANGED delivered
            /\ \/ ctl' = [ctl EXCEPT ![e] = AfterRead(@, nw)]
               \/ ctl' = [ctl EXCEPT ![e] = AfterRead(Close(e, @), nw)]
  <2>1. CtlCore(e, Close(e, ctl[e]), lost[e])
    BY <1>c, CloseCore
  <2>2. Close(e, ctl[e]) \in Ctl
    BY <2>1 DEF CtlCore
  <2>3. PICK c \in {AfterRead(ctl[e], nw), AfterRead(Close(e, ctl[e]), nw)} :
           ctl' = [ctl EXCEPT ![e] = c]
    BY <1>10
  <2>4. c.pc # "rcv"
    BY <1>c, <2>2, <2>3, AfterReadPc
  <2> HIDE DEF r
  <2> QED BY <1>6, <1>7, <1>9, <1>10, <2>3, <2>4, ReadStep
<1>11. ASSUME r.hdr, r.nPending - n = 0, NEW i \in 1..Len(F),
              HasHeader(buf, F[i]), F[i].flags = "none",
              rcv' = [rcv EXCEPT ![e] =
                [got EXCEPT !.nPending = TtlSz(F[i].sz) - HdrSz, !.hdr = FALSE]],
              ctl' = [ctl EXCEPT ![e] = AfterRead(@, nw)], UNCHANGED delivered
       PROVE  StreamInv'
  <2>1. PICK q : q = [buf |-> buf, nPending |-> TtlSz(F[i].sz) - HdrSz,
                      hdr |-> FALSE]
    OBVIOUS
  <2>2. [got EXCEPT !.nPending = TtlSz(F[i].sz) - HdrSz, !.hdr = FALSE] = q
    <3>1. r \in RcvRec
      BY <1>2 DEF RcvOK
    <3>2. got = [buf |-> buf, nPending |-> r.nPending - n, hdr |-> r.hdr]
      BY <1>8, <3>1 DEF RcvRec
    <3>3. PICK m : m = TtlSz(F[i].sz) - HdrSz
      OBVIOUS
    <3>4. q = [buf |-> buf, nPending |-> m, hdr |-> FALSE]
      BY <2>1, <3>3
    <3>6. PICK y \in RcvRec : y = got
      BY <1>9 DEF RcvOK
    <3>7. PICK x : x = [y EXCEPT !.nPending = m, !.hdr = FALSE]
      OBVIOUS
    <3>8. x = [buf |-> y.buf, nPending |-> m, hdr |-> FALSE]
      BY <3>7 DEF RcvRec
    <3>9. y.buf = buf
      BY <3>2, <3>6
    <3>5. [got EXCEPT !.nPending = m, !.hdr = FALSE] = q
      BY <3>4, <3>6, <3>7, <3>8, <3>9
    <3> QED BY <3>3, <3>5
  <2>3. RcvOK(q, j, F) /\ PipeOK(v, q, j, F, snd[p])
    <3>1. PICK w : w = wire[p]
      OBVIOUS
    <3>2. PICK s : s = snd[p]
      OBVIOUS
    <3>3. PICK x : x = rcv[e]
      OBVIOUS
    <3>4. /\ FramesOK(F) /\ SndOK(s) /\ w \in Seq(Byte) /\ RcvOK(x, j, F)
          /\ PipeOK(w, x, j, F, s) /\ Recv(x, w, n, buf, v)
          /\ n \in 1..x.nPending /\ n <= Len(w) /\ x.hdr /\ x.nPending - n = 0
      BY <1>2, <1>5, <1>11, <3>1, <3>2, <3>3
    <3>5. i \in 1..Len(F) /\ HasHeader(buf, F[i]) /\ F[i].flags = "none"
      BY <1>11
    <3> HIDE DEF F, j, r, p
    <3>6. RcvOK(q, j, F) /\ PipeOK(v, q, j, F, s)
      BY <2>1, <3>4, <3>5, HeaderReceived
    <3> QED BY <3>2, <3>6
  <2>4. AfterRead(ctl[e], nw).pc # "rcv"
    BY <1>c, AfterReadPc
  <2>5. rcv' = [rcv EXCEPT ![e] = q]
        /\ ctl' = [ctl EXCEPT ![e] = AfterRead(ctl[e], nw)]
    BY <1>11, <2>2
  <2> QED BY <1>6, <1>7, <1>11, <2>3, <2>4, <2>5, ReadStep
<1>12. ASSUME ~r.hdr, r.nPending - n = 0, NEW i \in 1..Len(F),
              HasHeader(buf, F[i]),
              delivered' = [delivered EXCEPT ![e] =
                  Append(@, SubSeq(buf, HdrSz + 1, HdrSz + F[i].sz))],
              rcv' = [rcv EXCEPT ![e] = got],
              ctl' = [ctl EXCEPT ![e].pc = "rcv", ![e].needWrite = nw]
       PROVE  StreamInv'
  <2>1. PICK b : b = BodyIn(buf, F[i])
    OBVIOUS
  <2>2. PICK d : d = Append(delivered[e], b)
    OBVIOUS
  <2>3. delivered' = [delivered EXCEPT ![e] = d]
    BY <1>12, <2>1, <2>2 DEF BodyIn
  <2>4. PICK c : c = [ctl[e] EXCEPT !.pc = "rcv", !.needWrite = nw]
    OBVIOUS
  <2>5. ctl' = [ctl EXCEPT ![e] = c] /\ c.pc = "rcv" /\ ~c.outtaHere
    BY <1>12, <1>c, <2>4 DEF Ctl
  <2>6. DelOK(d, F) /\ Len(d) = Len(delivered[e]) + 1
    <3>1. Handed(buf, F[i], b, delivered[e], d)
      BY <2>1, <2>2 DEF Handed
    <3>2. HasHeader(buf, F[i]) /\ ~rcv[e].hdr /\ rcv[e].nPending - n = 0
      BY <1>12
    <3> QED BY <1>3, <3>1, <3>2, LastBytes
  <2>7. At(c, d) = j
    BY <2>5, <2>6 DEF At
  <2>8. ~got.hdr /\ got.nPending = 0
    <3>1. r \in RcvRec
      BY <1>2 DEF RcvOK
    <3>2. got = [buf |-> buf, nPending |-> r.nPending - n, hdr |-> r.hdr]
      BY <1>8, <3>1 DEF RcvRec
    <3> QED BY <1>12, <3>2
  <2>9. RcvSide(c, got, d, v, lost[e], F, snd[p])
    <3> HIDE DEF r, j, F, p
    <3> QED BY <1>9, <2>5, <2>6, <2>7, <2>8 DEF RcvSide
  <2>10. rcv' = [rcv EXCEPT ![e] = got]
    BY <1>12
  <2> HIDE DEF r, j
  <2> QED BY <1>6, <1>7, <2>3, <2>5, <2>9, <2>10, RcvUpdate
<1>13. \/ /\ rcv' = [rcv EXCEPT ![e] = got]
          /\ UNCHANGED delivered
          /\ \/ ctl' = [ctl EXCEPT ![e] = AfterRead(@, nw)]
             \/ ctl' = [ctl EXCEPT ![e] = AfterRead(Close(e, @), nw)]
       \/ /\ r.hdr /\ r.nPending - n = 0
          /\ \E i \in 1..Len(F) :
               /\ HasHeader(buf, F[i]) /\ F[i].flags = "none"
               /\ rcv' = [rcv EXCEPT ![e] =
                   [got EXCEPT !.nPending = TtlSz(F[i].sz) - HdrSz,
                               !.hdr = FALSE]]
               /\ ctl' = [ctl EXCEPT ![e] = AfterRead(@, nw)]
               /\ UNCHANGED delivered
       \/ /\ ~r.hdr /\ r.nPending - n = 0
          /\ \E i \in 1..Len(F) :
               /\ HasHeader(buf, F[i])
               /\ delivered' = [delivered EXCEPT ![e] =
                    Append(@, SubSeq(buf, HdrSz + 1, HdrSz + F[i].sz))]
               /\ rcv' = [rcv EXCEPT ![e] = got]
               /\ ctl' = [ctl EXCEPT ![e].pc = "rcv", ![e].needWrite = nw]
  BY <1>3, <1>8, Zenon DEF RcvBytes
<1> QED BY <1>10, <1>11, <1>12, <1>13, Zenon

(* The read event of a pass keeps the streams. *)
LEMMA SelectStream ==
  ASSUME CtlInv, SndInv, StreamInv, NEW e \in Ends, Select(e)
  PROVE  StreamInv'
<1> DEFINE c == ctl[e]
           nw == /\ c.connectInProgress \/ snd[e].nPending > 0
                 /\ WriteReady(e)
<1>1. c \in Ctl /\ CtlCore(e, c, lost[e]) /\ c.pc = "idle" /\ ~c.outtaHere
      /\ UNCHANGED <<snd, lost, frames>> /\ ctl \in [Ends -> Ctl]
  BY DEF CtlInv, Select
<1>2. Untold(e, c)
  BY <1>1, SelectUntold
<1>3. nw \in BOOLEAN
  OBVIOUS
<1> HIDE DEF nw
<1>4. \/ DoRcv(e, nw)
      \/ ctl' = [ctl EXCEPT ![e].pc = "write"]
         /\ UNCHANGED <<rcv, wire, delivered>>
  BY DEF Select, nw
<1>5. CASE UNCHANGED <<rcv, wire, delivered>>
           /\ ctl' = [ctl EXCEPT ![e].pc = "write"]
  <2>1. PICK g : g = [c EXCEPT !.pc = "write"]
    OBVIOUS
  <2>2. g.pc = "write" /\ ctl' = [ctl EXCEPT ![e] = g]
    BY <1>1, <1>5, <2>1 DEF Ctl
  <2> QED BY <1>1, <1>5, <2>2, FlagStep
<1>6. ASSUME NEW g \in Ctl, ctl' = [ctl EXCEPT ![e] = AfterRead(g, nw)],
             UNCHANGED <<rcv, wire, delivered>>
      PROVE  StreamInv'
  <2>1. AfterRead(g, nw).pc # "rcv"
    BY <1>3, AfterReadPc
  <2> QED BY <1>1, <1>6, <2>1, FlagStep
<1>7. ASSUME lost[e] = "up", NEW n \in 1..rcv[e].nPending,
             n <= Len(wire[Peer(e)]), RcvBytes(e, n, nw)
      PROVE  StreamInv'
  BY <1>1, <1>3, <1>7, RcvBytesStream
<1>8. Close(e, c) \in Ctl
  <2>1. CtlCore(e, Close(e, c), lost[e])
    BY <1>1, <1>2, CloseCore
  <2> QED BY <2>1 DEF CtlCore
<1>9. lost[e] = "reset" => OnClose(e, c) \in Ctl
  <2> SUFFICES ASSUME lost[e] = "reset" PROVE OnClose(e, c) \in Ctl
    OBVIOUS
  <2>1. lost[e] # "up" OBVIOUS
  <2>2. CtlCore(e, OnClose(e, c), lost[e])
    BY <1>1, <1>2, <2>1, OnCloseCore
  <2> QED BY <2>2 DEF CtlCore
<1>10. DoRcv(e, nw) =>
         \/ /\ lost[e] = "up"
            /\ \E n \in 1..rcv[e].nPending :
                 n <= Len(wire[Peer(e)]) /\ RcvBytes(e, n, nw)
         \/ /\ UNCHANGED <<rcv, wire, delivered>>
            /\ \/ ctl' = [ctl EXCEPT ![e] = AfterRead(Close(e, c), nw)]
               \/ /\ lost[e] = "reset"
                  /\ ctl' = [ctl EXCEPT ![e] = AfterRead(OnClose(e, c), nw)]
               \/ ctl' = [ctl EXCEPT ![e] = AfterRead(c, nw)]
  BY DEF DoRcv
<1> QED BY <1>1, <1>4, <1>5, <1>6, <1>7, <1>8, <1>9, <1>10

(* The end of a callback keeps the streams. *)
LEMMA RcvDoneStream ==
  ASSUME CtlInv, SndInv, StreamInv, NEW e \in Ends, RcvDone(e)
  PROVE  StreamInv'
<1> DEFINE p == Peer(e)
<1>0. p \in Ends
  BY PeerFacts
<1>1. PICK j : j = Len(delivered[e])
  OBVIOUS
<1>2. ctl[e] \in Ctl /\ ctl[e].pc = "rcv" /\ ctl[e].needWrite \in BOOLEAN
      /\ UNCHANGED <<snd, wire, lost, frames, reported, delivered>>
  BY DEF CtlInv, RcvDone, Ctl
<1>3. At(ctl[e], delivered[e]) = j
  BY <1>1, <1>2 DEF At
<1>4. /\ DelOK(delivered[e], frames[p]) /\ RcvOK(rcv[e], j, frames[p])
      /\ lost[e] = "up" => PipeOK(wire[p], rcv[e], j, frames[p], snd[p])
      /\ ~ctl[e].outtaHere /\ ~rcv[e].hdr /\ rcv[e].nPending = 0
      /\ FramesOK(frames[p]) /\ wire[p] \in Seq(Byte)
  BY <1>0, <1>2, <1>3 DEF StreamInv, RcvSideOf, RcvSide, SendSide
<1>5. RcvOK(EmptyRcv, j + 1, frames[p])
      /\ (lost[e] = "up" => PipeOK(wire[p], EmptyRcv, j + 1, frames[p], snd[p]))
  BY <1>4, NextFrame
<1>6. PICK g : g = AfterRead(ctl[e], ctl[e].needWrite)
  OBVIOUS
<1>7. g.pc # "rcv"
  BY <1>2, <1>6, AfterReadPc
<1>8. At(g, delivered[e]) = j + 1
  BY <1>1, <1>7 DEF At
<1>9. RcvSide(g, EmptyRcv, delivered[e], wire[p], lost[e], frames[p], snd[p])
  BY <1>4, <1>5, <1>7, <1>8 DEF RcvSide
<1>10. ctl' = [ctl EXCEPT ![e] = g] /\ rcv' = [rcv EXCEPT ![e] = EmptyRcv]
  BY <1>4, <1>6 DEF RcvDone, SetupForRcv
<1>11. delivered' = [delivered EXCEPT ![e] = delivered[e]]
       /\ wire' = [wire EXCEPT ![p] = wire[p]]
  BY <1>0, <1>2 DEF StreamInv
<1> QED BY <1>2, <1>4, <1>9, <1>10, <1>11, RcvUpdate

(* The loss of a connection keeps the streams. *)
LEMMA LoseStream ==
  ASSUME CtlInv, SndInv, StreamInv, NEW e \in Ends,
         NEW how \in {"reset", "broken"}, Lose(e, how)
  PROVE  StreamInv'
<1>0. Peer(e) \in Ends /\ Peer(Peer(e)) = e /\ Peer(e) # e
      /\ \A f \in Ends : f = e \/ f = Peer(e)
  BY PeerFacts
<1>1. /\ lost' = [lost EXCEPT ![e] = how]
      /\ wire' = [wire EXCEPT ![Peer(e)] = <<>>]
      /\ UNCHANGED <<ctl, snd, rcv, frames, reported, delivered>>
  BY DEF Lose
<1>2. lost'[e] = how /\ lost'[Peer(e)] = lost[Peer(e)] /\ wire'[e] = wire[e]
      /\ wire' \in [Ends -> Seq(Byte)]
  BY <1>0, <1>1, EmptySeq DEF CtlInv, StreamInv
<1>3. RcvSideOf(e)'
  <2>1. RcvSideOf(e)
    BY DEF StreamInv
  <2>2. lost'[e] # "up"
    BY <1>2
  <2> QED BY <1>1, <2>1, <2>2 DEF RcvSideOf, RcvSide
<1>4. RcvSideOf(Peer(e))'
  <2>1. RcvSideOf(Peer(e))
    BY <1>0 DEF StreamInv
  <2> QED BY <1>0, <1>1, <1>2, <2>1 DEF RcvSideOf
<1> QED BY <1>0, <1>1, <1>2, <1>3, <1>4 DEF StreamInv

(* Every step keeps the stream. *)
LEMMA StreamNext ==
  ASSUME CtlInv, SndInv, StreamInv, [Next]_vars
  PROVE  StreamInv'
<1>0. Server \in Ends /\ 0 \in 0..MaxMsg /\ "notice" \in Flags
      /\ Sizes \subseteq 0..MaxMsg /\ Server # Client
  BY SizesAssumption, EndsAssumption DEF Ends, Flags
<1>1. CASE UNCHANGED vars
  BY <1>1 DEF vars, StreamInv, RcvSideOf
<1>2. ASSUME NEW e \in Ends, NEW sz \in Sizes, NEW flags \in Flags,
             Send(e, sz, flags)
      PROVE  StreamInv'
  <2>1. sz \in 0..MaxMsg /\ Send3a(e, sz, flags)
        /\ UNCHANGED <<ctl, rcv, wire, lost, delivered>>
    BY <1>0, <1>2 DEF Send
  <2>2. ctl' = [ctl EXCEPT ![e] = ctl[e]]
    BY <2>1 DEF CtlInv
  <2> QED BY <2>1, <2>2, Send3aStream
<1>3. ASSUME NEW e \in Ends, Select(e) PROVE StreamInv'
  BY <1>3, SelectStream
<1>4. ASSUME NEW e \in Ends, RcvDone(e) PROVE StreamInv'
  BY <1>4, RcvDoneStream
<1>5. ASSUME NEW e \in Ends, Write(e) PROVE StreamInv'
  <2>1. CASE ctl[e].connectInProgress
    <3>1. PICK g : g = [ctl[e] EXCEPT !.connectInProgress = FALSE,
                                      !.bConnected = TRUE, !.pc = "idle"]
      OBVIOUS
    <3>2. ctl' = [ctl EXCEPT ![e] = g]
          /\ UNCHANGED <<snd, rcv, wire, lost, frames, delivered>>
      BY <1>5, <2>1, <3>1 DEF Write, CtlInv
    <3>3. ctl[e].pc # "rcv" /\ g.pc # "rcv"
      BY <1>5, <3>1 DEF Write, CtlInv, Ctl
    <3> QED BY <3>2, <3>3, FlagStep
  <2>2. CASE ~ctl[e].connectInProgress
    BY <1>5, <2>2, DoSendStream DEF Write
  <2> QED BY <2>1, <2>2
<1>6. ASSUME NEW e \in Ends, AutoDelete(e) \/ Delete(e) PROVE StreamInv'
  <2>1. PICK g : g = [ctl[e] EXCEPT !.alive = FALSE, !.hSocket = FALSE]
    OBVIOUS
  <2>2. ctl[e] \in Ctl /\ ctl[e].pc = "idle"
        /\ UNCHANGED <<snd, rcv, wire, lost, frames, delivered>>
    BY <1>6 DEF CtlInv, AutoDelete, Delete
  <2>3. g.pc = "idle"
    BY <2>1, <2>2 DEF Ctl
  <2>4. ctl' = [ctl EXCEPT ![e] = g]
    BY <1>6, <2>1 DEF AutoDelete, Delete, CtlInv
  <2> QED BY <2>2, <2>3, <2>4, FlagStep
<1>7. ASSUME NEW e \in Ends, NEW how \in {"reset", "broken"}, Lose(e, how)
      PROVE  StreamInv'
  BY <1>7, LoseStream
<1>8. ASSUME NEW e \in Ends, SelectError(e) PROVE StreamInv'
  <2>1. CtlCore(e, ctl[e], lost[e]) /\ ~ctl[e].outtaHere
        /\ ctl[e].pc = "idle"
        /\ UNCHANGED <<snd, rcv, wire, lost, frames, delivered>>
    BY <1>8 DEF CtlInv, SelectError
  <2>2. Close(e, ctl[e]).pc = "idle"
    BY <2>1, SelectUntold, CloseCore
  <2>3. ctl' = [ctl EXCEPT ![e] = Close(e, ctl[e])]
    BY <1>8 DEF SelectError
  <2> QED BY <2>1, <2>2, <2>3, FlagStep
<1>9. CASE Disconnect
  <2>1. PICK g : g = Close(Server, ctl[Server])
    OBVIOUS
  <2>2. ctl[Server] \in Ctl
    BY <1>0 DEF CtlInv
  <2>3. g.pc = ctl[Server].pc /\ g.outtaHere = ctl[Server].outtaHere
    BY <1>0, <2>1, <2>2 DEF Close, OnClose, Ctl
  <2>4. Send3a(Server, 0, "notice") /\ ctl' = [ctl EXCEPT ![Server] = g]
        /\ UNCHANGED <<rcv, wire, lost, delivered>>
    BY <1>9, <2>1 DEF Disconnect
  <2> QED BY <1>0, <2>3, <2>4, Send3aStream
<1> QED
  BY <1>1, <1>2, <1>3, <1>4, <1>5, <1>6, <1>7, <1>8, <1>9 DEF Next

-----------------------------------------------------------------------------
(* Theorems *)

ReportedType == reported \in [Ends -> Nat]

(* The invariant holds at the start. *)
LEMMA InitStream == Init => IInv /\ ReportedType
<1> SUFFICES ASSUME Init PROVE IInv /\ ReportedType
  OBVIOUS
<1>1. CtlInv /\ SndInv
  BY InitInv
<1>2. HdrSz \in 0..BufSz
  BY Sizes1
<1>3. EmptyRcv \in RcvRec /\ Len(EmptyRcv.buf) = 0 /\ EmptyRcv.hdr = TRUE
      /\ EmptyRcv.nPending = HdrSz
  BY <1>2, EmptySeq DEF EmptyRcv, RcvRec
<1>4. EmptySnd.nPending = 0
  BY DEF EmptySnd
<1>5. PICK none \in Seq(Frame) : none = <<>>
  BY EmptySeq
<1>6. Len(none) = 0 /\ EndOf(none) = 0
  BY <1>5, EmptySeq DEF EndOf
<1>7. FramesOK(none) /\ Base(none, 1) = 0
  BY <1>6 DEF FramesOK, Base
<1>8. PendOK(EmptySnd, none) /\ Sent(EmptySnd, none) = 0
  BY <1>4, <1>6 DEF PendOK, Sent
<1>9. ASSUME NEW e \in Ends
      PROVE  SendSide(snd[e], frames[e]) /\ RcvSideOf(e)
  <2>0. Peer(e) \in Ends
    BY PeerFacts
  <2>1. /\ snd[e] = EmptySnd /\ frames[e] = none /\ snd[Peer(e)] = EmptySnd
        /\ frames[Peer(e)] = none /\ rcv[e] = EmptyRcv
        /\ wire[Peer(e)] = <<>> /\ delivered[e] = <<>> /\ ctl[e].pc = "idle"
    BY <1>5, <2>0 DEF Init
  <2>2. <<>> \in Seq(Seq(Byte)) /\ <<>> \in Seq(Byte)
    BY EmptySeq
  <2>3. Len(<<>>) = 0
    BY EmptySeq
  <2>4. DelOK(delivered[e], none) /\ At(ctl[e], delivered[e]) = 1
    BY <1>6, <2>1, <2>2, <2>3 DEF DelOK, InOrder, At
  <2>5. RcvOK(EmptyRcv, 1, none)
    BY <1>2, <1>3, <1>6 DEF RcvOK
  <2>6. PipeOK(<<>>, EmptyRcv, 1, none, EmptySnd)
    BY <1>3, <1>7, <1>8, <2>3 DEF PipeOK
  <2>7. RcvSideOf(e)
    BY <2>1, <2>4, <2>5, <2>6 DEF RcvSideOf, RcvSide
  <2> QED BY <1>7, <1>8, <2>1, <2>7 DEF SendSide
<1>10. rcv \in [Ends -> RcvRec] /\ wire \in [Ends -> Seq(Byte)]
       /\ delivered \in [Ends -> Seq(Seq(Byte))] /\ ReportedType
  BY <1>3, EmptySeq DEF Init, ReportedType
<1> QED BY <1>1, <1>9, <1>10 DEF IInv, StreamInv

(* What send reported keeps its type. *)
LEMMA ReportedNext ==
  ASSUME ReportedType, [Next]_vars
  PROVE  ReportedType'
<1>1. \/ UNCHANGED reported
      \/ \E e \in Ends : reported' = [reported EXCEPT ![e] = @ + 1]
  <2>1. CASE UNCHANGED vars
    BY <2>1 DEF vars
  <2>2. CASE Next
    <3>1. CASE \E e \in Ends : \E sz \in Sizes, flags \in Flags :
                 Send(e, sz, flags)
      BY <3>1 DEF Send
    <3>2. CASE ~(\E e \in Ends : \E sz \in Sizes, flags \in Flags :
                 Send(e, sz, flags))
      BY <2>2, <3>2 DEF Next, Select, SelectError, RcvDone, Write, AutoDelete,
                        Delete, Lose, Disconnect
    <3> QED BY <3>1, <3>2
  <2> QED BY <2>1, <2>2
<1> QED BY <1>1 DEF ReportedType

(* The inductive invariant. *)
LEMMA StreamInvariant == Spec => []IInv
<1>1. Init => IInv
  BY InitStream
<1>2. IInv /\ [Next]_vars => IInv'
  BY CtlNext, SndNext, StreamNext DEF IInv
<1> QED BY <1>1, <1>2, PTL DEF Spec

(* Every variable keeps its type; in particular what is on the wire and in *)
(* the receive buffer was enqueued, and no counter leaves the buffer.      *)
THEOREM TypeOKHolds == Spec => []TypeOK
<1>1. IInv /\ ReportedType => TypeOK
  BY DEF IInv, CtlInv, SndInv, SndRec, StreamInv, RcvRec, ReportedType, TypeOK
<1>2. Spec => []ReportedType
  <2>1. Init => ReportedType
    BY InitStream
  <2>2. ReportedType /\ [Next]_vars => ReportedType'
    BY ReportedNext
  <2> QED BY <2>1, <2>2, PTL DEF Spec
<1> QED BY <1>1, <1>2, StreamInvariant, PTL

(* DoRcv never loses its place in the stream, whatever the sizes of header *)
(* and trailer and wherever TCP cuts what it carries.                      *)
THEOREM FramingIntactHolds == Spec => []FramingIntact
<1>1. IInv => FramingIntact
  <2> SUFFICES ASSUME IInv, NEW e \in Ends, rcv[e].buf # <<>>
               PROVE  \E i \in 1..Len(frames[Peer(e)]) :
                        LET f == frames[Peer(e)][i] IN
                        /\ \A k \in 1..Len(rcv[e].buf) :
                             rcv[e].buf[k] = f.start + k
                        /\ Len(rcv[e].buf) + rcv[e].nPending =
                             IF rcv[e].hdr THEN HdrSz ELSE TtlSz(f.sz)
    BY DEF FramingIntact
  <2>1. PICK F : F = frames[Peer(e)]
    OBVIOUS
  <2>2. PICK j : j = At(ctl[e], delivered[e])
    OBVIOUS
  <2>3. PICK r : r = rcv[e]
    OBVIOUS
  <2>4. RcvOK(r, j, F) /\ F \in Seq(Frame)
    <3>1. Peer(e) \in Ends BY PeerFacts
    <3> QED
      BY <2>1, <2>2, <2>3, <3>1
         DEF IInv, StreamInv, SndInv, RcvSideOf, RcvSide
  <2>5. Len(r.buf) > 0 /\ Len(F) \in Nat
    <3>1. r.buf \in Seq(Byte) /\ r.buf # <<>>
      BY <2>3, <2>4 DEF RcvOK, RcvRec
    <3>2. Len(r.buf) \in Nat \ {0}
      BY <3>1, EmptySeq
    <3> QED BY <2>4, <3>2, LenProperties
  <2>6. j \in 1..Len(F) /\ j <= Len(F)
    BY <2>4, <2>5 DEF RcvOK
  <2>7. \A k \in 1..Len(r.buf) : r.buf[k] = F[j].start + k
    BY <2>4, <2>6 DEF RcvOK, Base
  <2>8. Len(r.buf) + r.nPending = IF r.hdr THEN HdrSz ELSE TtlSz(F[j].sz)
    BY <2>4 DEF RcvOK
  <2> QED BY <2>1, <2>3, <2>6, <2>7, <2>8
<1> QED BY <1>1, StreamInvariant, PTL

(* OnRcvLo gets whole messages, each once, in the order of sending. *)
THEOREM DeliveredInOrderHolds == Spec => []DeliveredInOrder
<1>1. IInv => DeliveredInOrder
  BY DEF IInv, StreamInv, RcvSideOf, RcvSide, DelOK, InOrder, DeliveredInOrder
<1> QED BY <1>1, StreamInvariant, PTL

-----------------------------------------------------------------------------
(* What a step may do, as a user of the connection sees it *)

Told(e) == ctl[e].closes > 0

SameTold == \A e \in Ends : Told(e)' <=> Told(e)

(* send3a takes a frame at end e. *)
Took(e, f) ==
  f \in Frame /\ frames' = [frames EXCEPT ![e] = Append(frames[e], f)]

Accepts(e) == /\ \E f \in Frame : Took(e, f)
              /\ UNCHANGED delivered /\ SameTold

(* OnRcvLo of end e gets the next frame of its peer. *)
Delivers(e) ==
  LET F == frames[Peer(e)]
      j == Len(delivered[e]) + 1
  IN  /\ ~Told(e)
      /\ j <= Len(F) /\ F[j].flags = "none" /\ Body(F[j]) \in Seq(Byte)
      /\ delivered' = [delivered EXCEPT ![e] = Append(delivered[e], Body(F[j]))]
      /\ UNCHANGED frames /\ SameTold

(* The application of end e is told that the connection is gone; it may    *)
(* have left a notice in the same call.                                    *)
Ending(e) ==
  /\ ~Told(e) /\ Told(e)'
  /\ \A f \in Ends \ {e} : Told(f)' <=> Told(f)
  /\ UNCHANGED delivered
  /\ \/ UNCHANGED frames
     \/ \E f \in Frame : f.flags = "notice" /\ Took(e, f)

Kind == \/ \E e \in Ends : Accepts(e) \/ Delivers(e) \/ Ending(e)
        \/ UNCHANGED <<frames, delivered>> /\ SameTold

(* An application that was told stays so. *)
LEMMA FlagKind ==
  ASSUME CtlInv, NEW e \in Ends, NEW g, ctl' = [ctl EXCEPT ![e] = g],
         ctl[e].closes > 0 => g.closes > 0, UNCHANGED <<frames, delivered>>
  PROVE  Kind
<1>1. ctl'[e] = g /\ \A f \in Ends \ {e} : ctl'[f] = ctl[f]
  BY DEF CtlInv
<1>2. \A f \in Ends \ {e} : Told(f)' <=> Told(f)
  BY <1>1 DEF Told
<1>3. CASE g.closes > 0 /\ ~(ctl[e].closes > 0)
  <2>1. Ending(e)
    BY <1>1, <1>2, <1>3 DEF Ending, Told
  <2> QED BY <2>1 DEF Kind
<1>4. CASE ~(g.closes > 0 /\ ~(ctl[e].closes > 0))
  <2>1. Told(e)' <=> Told(e)
    BY <1>1, <1>4 DEF Told
  <2>2. SameTold
    BY <1>2, <2>1 DEF SameTold
  <2> QED BY <2>2 DEF Kind
<1> QED BY <1>3, <1>4

(* OnClose does not make a call of OnSocketClose unsaid. *)
LEMMA OnCloseTells ==
  ASSUME NEW e \in Ends, NEW c \in Ctl
  PROVE  c.closes > 0 => OnClose(e, c).closes > 0
<1>1. c.closes \in Nat
  BY DEF Ctl
<1>2. CASE e = Client
  <2>1. PICK t : t = [c EXCEPT !.outtaHere = TRUE, !.closes = @ + 1]
    OBVIOUS
  <2>2. t.closes = c.closes + 1
    BY <2>1 DEF Ctl
  <2>3. OnClose(e, c) = t
    BY <1>2, <2>1 DEF OnClose
  <2> QED BY <1>1, <2>2, <2>3
<1>3. CASE e # Client /\ c.autoDeleteReq
  BY <1>3 DEF OnClose
<1>4. CASE e # Client /\ ~c.autoDeleteReq
  <2>1. PICK t : t = [c EXCEPT !.autoDeleteReq = TRUE, !.closes = @ + 1]
    OBVIOUS
  <2>2. t.closes = c.closes + 1
    BY <2>1 DEF Ctl
  <2>3. OnClose(e, c) = t
    BY <1>4, <2>1 DEF OnClose
  <2> QED BY <1>1, <2>2, <2>3
<1> QED BY <1>2, <1>3, <1>4

(* Neither does Close. *)
LEMMA CloseTells ==
  ASSUME NEW e \in Ends, NEW c \in Ctl
  PROVE  c.closes > 0 => Close(e, c).closes > 0
<1>1. CASE ~c.hSocket
  BY <1>1 DEF Close
<1>2. CASE c.hSocket
  <2>1. PICK t : t = [c EXCEPT !.hSocket = FALSE]
    OBVIOUS
  <2>2. t \in Ctl /\ t.closes = c.closes
    BY <2>1 DEF Ctl
  <2>3. Close(e, c) = OnClose(e, t)
    BY <1>2, <2>1 DEF Close
  <2> QED BY <2>2, <2>3, OnCloseTells
<1> QED BY <1>1, <1>2

(* Nor the way from the read event to the write event. *)
LEMMA AfterReadTells ==
  ASSUME NEW c \in Ctl, NEW nw
  PROVE  AfterRead(c, nw).closes = c.closes
<1>1. PICK p : p = IF c.hSocket /\ nw THEN "write" ELSE "idle"
  OBVIOUS
<1>2. PICK t : t = [c EXCEPT !.pc = p, !.needWrite = FALSE]
  OBVIOUS
<1>3. AfterRead(c, nw) = t
  BY <1>1, <1>2 DEF AfterRead
<1>4. t.closes = c.closes
  BY <1>2 DEF Ctl
<1> QED BY <1>3, <1>4

(* A call of send, or of disconnect. *)
LEMMA Send3aKind ==
  ASSUME IInv, NEW e \in Ends, NEW sz \in 0..MaxMsg, NEW flags \in Flags,
         Send3a(e, sz, flags), NEW g, ctl' = [ctl EXCEPT ![e] = g],
         ctl[e].closes > 0 => g.closes > 0,
         g.closes = ctl[e].closes \/ flags = "notice", UNCHANGED delivered
  PROVE  Kind
<1>0. CtlInv /\ SndInv
  BY DEF IInv
<1>1. CASE HasRoom(e, TtlSz(sz))
  <2>1. PICK f : f = [start |-> StreamEnd(e), sz |-> sz, flags |-> flags]
    OBVIOUS
  <2>2. f \in Frame /\ f.flags = flags
    BY <1>0, <2>1, StreamEndNat DEF Frame
  <2>3. Took(e, f)
    BY <1>1, <2>1, <2>2 DEF Send3a, Took
  <2>4. ctl'[e] = g /\ \A d \in Ends \ {e} : ctl'[d] = ctl[d]
    BY <1>0 DEF CtlInv
  <2>5. \A d \in Ends \ {e} : Told(d)' <=> Told(d)
    BY <2>4 DEF Told
  <2>6. CASE g.closes > 0 /\ ~(ctl[e].closes > 0)
    <3>1. flags = "notice"
      BY <2>6
    <3>2. Ending(e)
      BY <2>2, <2>3, <2>4, <2>5, <2>6, <3>1 DEF Ending, Told
    <3> QED BY <3>2 DEF Kind
  <2>7. CASE ~(g.closes > 0 /\ ~(ctl[e].closes > 0))
    <3>1. Told(e)' <=> Told(e)
      BY <2>4, <2>7 DEF Told
    <3>2. SameTold
      BY <2>5, <3>1 DEF SameTold
    <3>3. Accepts(e)
      BY <2>2, <2>3, <3>2 DEF Accepts
    <3> QED BY <3>3 DEF Kind
  <2> QED BY <2>6, <2>7
<1>2. CASE ~HasRoom(e, TtlSz(sz))
  <2>1. UNCHANGED frames
    BY <1>2 DEF Send3a
  <2> QED BY <1>0, <2>1, FlagKind
<1> QED BY <1>1, <1>2

(* Reading some bytes delivers one message or none. *)
LEMMA RcvBytesKind ==
  ASSUME IInv, NEW e \in Ends, NEW nw \in BOOLEAN,
         ctl[e].pc = "idle", ~Told(e), lost[e] = "up",
         NEW n \in 1..rcv[e].nPending, n <= Len(wire[Peer(e)]),
         RcvBytes(e, n, nw), UNCHANGED <<snd, lost, frames>>
  PROVE  Kind
<1>0. CtlInv /\ SndInv /\ StreamInv /\ ctl[e] \in Ctl /\ ctl \in [Ends -> Ctl]
  BY DEF IInv, CtlInv
<1>1. PICK buf : buf = rcv[e].buf \o SubSeq(wire[Peer(e)], 1, n)
  OBVIOUS
<1>2. CASE /\ UNCHANGED delivered
           /\ \/ ctl' = [ctl EXCEPT ![e] = AfterRead(@, nw)]
              \/ ctl' = [ctl EXCEPT ![e] = AfterRead(Close(e, @), nw)]
  <2>1. PICK g : ctl' = [ctl EXCEPT ![e] = g]
    BY <1>2
  <2>2. ~(ctl[e].closes > 0)
    BY DEF Told
  <2> QED BY <1>0, <1>2, <2>1, <2>2, FlagKind
<1>3. ASSUME ~rcv[e].hdr, rcv[e].nPending - n = 0,
             NEW i \in 1..Len(frames[Peer(e)]),
             HasHeader(buf, frames[Peer(e)][i]),
             delivered' = [delivered EXCEPT ![e] = Append(@,
                 SubSeq(buf, HdrSz + 1, HdrSz + frames[Peer(e)][i].sz))],
             ctl' = [ctl EXCEPT ![e].pc = "rcv", ![e].needWrite = nw]
      PROVE  Kind
  <2>1. PICK b : b = BodyIn(buf, frames[Peer(e)][i])
    OBVIOUS
  <2>2. PICK d : d = Append(delivered[e], b)
    OBVIOUS
  <2>3. delivered' = [delivered EXCEPT ![e] = d]
    BY <1>3, <2>1, <2>2 DEF BodyIn
  <2>4. Handed(buf, frames[Peer(e)][i], b, delivered[e], d)
    BY <2>1, <2>2 DEF Handed
  <2>5. /\ i = Len(delivered[e]) + 1 /\ b \in Seq(Byte)
        /\ b = Body(frames[Peer(e)][i])
        /\ frames[Peer(e)][i].flags = "none"
    BY <1>0, <1>1, <1>3, <2>4, LastBytes, ZenonT(60)
  <2>6. PICK c : c = [ctl[e] EXCEPT !.pc = "rcv", !.needWrite = nw]
    OBVIOUS
  <2>7. ctl' = [ctl EXCEPT ![e] = c] /\ c.closes = ctl[e].closes
    BY <1>0, <1>3, <2>6 DEF Ctl
  <2>8. SameTold
    BY <1>0, <2>7 DEF SameTold, Told
  <2>9. i <= Len(frames[Peer(e)])
    <3>1. Len(frames[Peer(e)]) \in Nat
      BY <1>0, PeerFacts, LenProperties DEF SndInv
    <3> QED BY <3>1
  <2>10. Delivers(e)
    BY <2>2, <2>3, <2>5, <2>8, <2>9 DEF Delivers
  <2> QED BY <2>10 DEF Kind
<1>4. \/ /\ UNCHANGED delivered
         /\ \/ ctl' = [ctl EXCEPT ![e] = AfterRead(@, nw)]
            \/ ctl' = [ctl EXCEPT ![e] = AfterRead(Close(e, @), nw)]
      \/ /\ ~rcv[e].hdr /\ rcv[e].nPending - n = 0
         /\ \E i \in 1..Len(frames[Peer(e)]) :
              /\ HasHeader(buf, frames[Peer(e)][i])
              /\ delivered' = [delivered EXCEPT ![e] = Append(@,
                   SubSeq(buf, HdrSz + 1, HdrSz + frames[Peer(e)][i].sz))]
              /\ ctl' = [ctl EXCEPT ![e].pc = "rcv", ![e].needWrite = nw]
  BY <1>1, Zenon DEF RcvBytes
<1> QED BY <1>2, <1>3, <1>4

(* Only an end that was not told, and is alive, starts a pass. *)
LEMMA PassIsUntold ==
  ASSUME CtlInv, NEW e \in Ends, ctl[e].hSocket, ~ctl[e].outtaHere,
         ~ctl[e].autoDeleteReq
  PROVE  ~Told(e)
  BY DEF CtlInv, CtlCore, Told

(* The read event of a pass is one of the kinds of steps. *)
LEMMA SelectKind ==
  ASSUME IInv, NEW e \in Ends, Select(e)
  PROVE  Kind
<1> DEFINE nw == /\ ctl[e].connectInProgress \/ snd[e].nPending > 0
                 /\ WriteReady(e)
<1>0. CtlInv BY DEF IInv
<1>1. ~Told(e) /\ ctl[e].pc = "idle" /\ UNCHANGED <<snd, lost, frames>>
  BY <1>0, PassIsUntold DEF Select
<1>2. nw \in BOOLEAN
  OBVIOUS
<1> HIDE DEF nw
<1>3. \/ DoRcv(e, nw)
      \/ ctl' = [ctl EXCEPT ![e].pc = "write"]
         /\ UNCHANGED <<rcv, wire, delivered>>
  BY DEF Select, nw
<1>4. ASSUME NEW g, ctl' = [ctl EXCEPT ![e] = g], UNCHANGED delivered
      PROVE  Kind
  BY <1>0, <1>1, <1>4, FlagKind DEF Told
<1>5. CASE ctl' = [ctl EXCEPT ![e].pc = "write"] /\ UNCHANGED delivered
  <2>1. ctl' = [ctl EXCEPT ![e] = [ctl[e] EXCEPT !.pc = "write"]]
    BY <1>5
  <2> QED BY <1>4, <1>5, <2>1
<1>6. ASSUME lost[e] = "up", NEW n \in 1..rcv[e].nPending,
             n <= Len(wire[Peer(e)]), RcvBytes(e, n, nw)
      PROVE  Kind
  BY <1>1, <1>2, <1>6, RcvBytesKind
<1>7. DoRcv(e, nw) =>
        \/ /\ lost[e] = "up"
           /\ \E n \in 1..rcv[e].nPending :
                n <= Len(wire[Peer(e)]) /\ RcvBytes(e, n, nw)
        \/ /\ UNCHANGED delivered
           /\ \/ ctl' = [ctl EXCEPT ![e] = AfterRead(Close(e, ctl[e]), nw)]
              \/ ctl' = [ctl EXCEPT ![e] = AfterRead(OnClose(e, ctl[e]), nw)]
              \/ ctl' = [ctl EXCEPT ![e] = AfterRead(ctl[e], nw)]
  BY DEF DoRcv
<1> QED BY <1>3, <1>4, <1>5, <1>6, <1>7

(* The write event of a pass is one of the kinds of steps. *)
LEMMA WriteKind ==
  ASSUME IInv, NEW e \in Ends, Write(e)
  PROVE  Kind
<1>0. CtlInv /\ ctl[e] \in Ctl /\ ctl \in [Ends -> Ctl]
      /\ UNCHANGED <<frames, delivered>>
  BY DEF IInv, CtlInv, Write
<1>1. CASE ctl[e].connectInProgress
  <2>1. PICK g : g = [ctl[e] EXCEPT !.connectInProgress = FALSE,
                                    !.bConnected = TRUE, !.pc = "idle"]
    OBVIOUS
  <2>2. ctl' = [ctl EXCEPT ![e] = g]
    BY <1>0, <1>1, <2>1 DEF Write
  <2>3. g.closes = ctl[e].closes
    BY <1>0, <2>1 DEF Ctl
  <2> QED BY <1>0, <2>2, <2>3, FlagKind
<1>2. CASE ctl' = [ctl EXCEPT ![e].pc = "idle"]
  <2>1. PICK g : g = [ctl[e] EXCEPT !.pc = "idle"]
    OBVIOUS
  <2>2. ctl' = [ctl EXCEPT ![e] = g] /\ g.closes = ctl[e].closes
    BY <1>0, <1>2, <2>1 DEF Ctl
  <2> QED BY <1>0, <2>2, FlagKind
<1>3. ASSUME NEW aborted,
             ~ctl[e].outtaHere,
             ctl' = [ctl EXCEPT ![e] =
                [Close(e, [ctl[e] EXCEPT !.outtaHere = @ \/ ~aborted])
                   EXCEPT !.pc = "idle"]]
      PROVE  Kind
  <2>1. PICK b : b = [ctl[e] EXCEPT !.outtaHere = @ \/ ~aborted]
    OBVIOUS
  <2>2. b \in Ctl /\ b.closes = ctl[e].closes /\ b.hSocket = ctl[e].hSocket
        /\ b.autoDeleteReq = ctl[e].autoDeleteReq
    BY <1>0, <2>1 DEF Ctl
  <2>3. PICK d : d = Close(e, b)
    OBVIOUS
  <2>4. CtlCore(e, b, lost[e]) /\ Untold(e, b)
    <3>1. Untold(e, ctl[e])
      BY <1>0, <1>3, SelectUntold
    <3>2. CtlCore(e, ctl[e], lost[e])
      BY <1>0 DEF CtlInv
    <3> QED BY <1>0, <2>1, <2>2, <3>1, <3>2 DEF CtlCore, Untold, Ctl
  <2>5. d \in Ctl /\ (b.closes > 0 => d.closes > 0)
    <3>1. CtlCore(e, d, lost[e])
      BY <2>3, <2>4, CloseCore
    <3> QED BY <2>2, <2>3, <3>1, CloseTells DEF CtlCore
  <2>6. PICK g : g = [d EXCEPT !.pc = "idle"]
    OBVIOUS
  <2>7. g.closes = d.closes
    BY <2>5, <2>6 DEF Ctl
  <2>8. ctl' = [ctl EXCEPT ![e] = g]
    BY <1>3, <2>1, <2>3, <2>6
  <2> QED BY <1>0, <2>2, <2>5, <2>7, <2>8, FlagKind
<1> QED BY <1>1, <1>2, <1>3 DEF Write, DoSend

(* Every step is of a kind. *)
LEMMA NextKind ==
  ASSUME IInv, [Next]_vars
  PROVE  Kind
<1>0. /\ Server \in Ends /\ 0 \in 0..MaxMsg /\ "notice" \in Flags
      /\ Sizes \subseteq 0..MaxMsg /\ CtlInv /\ ctl \in [Ends -> Ctl]
  BY SizesAssumption DEF Ends, Flags, IInv, CtlInv
<1>1. CASE UNCHANGED <<ctl, frames, delivered>>
  BY <1>1 DEF Kind, SameTold, Told
<1>2. ASSUME NEW e \in Ends, NEW sz \in Sizes, NEW flags \in Flags,
             Send(e, sz, flags)
      PROVE  Kind
  <2>1. Send3a(e, sz, flags) /\ UNCHANGED delivered
        /\ ctl' = [ctl EXCEPT ![e] = ctl[e]]
    BY <1>0, <1>2 DEF Send
  <2> QED BY <1>0, <2>1, Send3aKind
<1>3. ASSUME NEW e \in Ends, Select(e) PROVE Kind
  BY <1>3, SelectKind
<1>4. ASSUME NEW e \in Ends, RcvDone(e) PROVE Kind
  <2>1. PICK g : g = AfterRead(ctl[e], ctl[e].needWrite)
    OBVIOUS
  <2>2. ctl' = [ctl EXCEPT ![e] = g] /\ UNCHANGED <<frames, delivered>>
        /\ g.closes = ctl[e].closes
    BY <1>0, <1>4, <2>1, AfterReadTells DEF RcvDone
  <2> QED BY <1>0, <2>2, FlagKind
<1>5. ASSUME NEW e \in Ends, Write(e) PROVE Kind
  BY <1>5, WriteKind
<1>6. ASSUME NEW e \in Ends, AutoDelete(e) \/ Delete(e) PROVE Kind
  <2>1. PICK g : g = [ctl[e] EXCEPT !.alive = FALSE, !.hSocket = FALSE]
    OBVIOUS
  <2>2. ctl[e] \in Ctl /\ UNCHANGED <<frames, delivered>>
    BY <1>0, <1>6 DEF AutoDelete, Delete
  <2>3. ctl' = [ctl EXCEPT ![e] = g] /\ g.closes = ctl[e].closes
    BY <1>0, <1>6, <2>1, <2>2 DEF AutoDelete, Delete, Ctl
  <2> QED BY <1>0, <2>2, <2>3, FlagKind
<1>7. ASSUME NEW e \in Ends, NEW how \in {"reset", "broken"}, Lose(e, how)
      PROVE  Kind
  BY <1>1, <1>7 DEF Lose
<1>8. ASSUME NEW e \in Ends, SelectError(e) PROVE Kind
  <2>1. ctl' = [ctl EXCEPT ![e] = Close(e, ctl[e])]
        /\ UNCHANGED <<frames, delivered>>
    BY <1>8 DEF SelectError
  <2>2. ctl[e].closes > 0 => Close(e, ctl[e]).closes > 0
    BY <1>0, CloseTells
  <2> QED BY <1>0, <2>1, <2>2, FlagKind
<1>9. CASE Disconnect
  <2>1. Send3a(Server, 0, "notice") /\ UNCHANGED delivered
        /\ ctl' = [ctl EXCEPT ![Server] = Close(Server, ctl[Server])]
    BY <1>9 DEF Disconnect
  <2>2. ctl[Server].closes > 0 => Close(Server, ctl[Server]).closes > 0
    BY <1>0, CloseTells
  <2> QED BY <1>0, <2>1, <2>2, Send3aKind
<1> QED
  BY <1>1, <1>2, <1>3, <1>4, <1>5, <1>6, <1>7, <1>8, <1>9 DEF Next, vars

-----------------------------------------------------------------------------
(* After the end *)

(* Of an end that was told, or deleted, no step delivers or sends. *)
Silent(e) == /\ delivered'[e] = delivered[e]
             /\ Len(wire'[e]) <= Len(wire[e])

(* Reading makes nothing longer. *)
LEMMA ShorterWire ==
  ASSUME NEW w \in Seq(Byte), NEW n \in 1..Len(w), NEW v,
         v = SubSeq(w, n + 1, Len(w))
  PROVE  Len(v) <= Len(w)
<1>1. Len(w) \in Nat
  BY LenProperties
<1>2. \A k \in n + 1 .. Len(w) : w[k] \in Byte
  <2> SUFFICES ASSUME NEW k \in n + 1 .. Len(w) PROVE w[k] \in Byte
    OBVIOUS
  <2>1. k \in 1..Len(w) BY <1>1
  <2> QED BY <2>1, ElementOfSeq
<1>3. n + 1 \in Int /\ Len(w) \in Int
  BY <1>1
<1>4. Len(SubSeq(w, n + 1, Len(w)))
        = IF n + 1 <= Len(w) THEN Len(w) - (n + 1) + 1 ELSE 0
  BY <1>2, <1>3, SubSeqProperties
<1>5. PICK x : x = Len(SubSeq(w, n + 1, Len(w)))
  OBVIOUS
<1>6. x <= Len(w)
  BY <1>1, <1>4, <1>5
<1> QED BY <1>5, <1>6

(* The read event is silent about an end that was told. *)
LEMMA SelectSilent ==
  ASSUME IInv, NEW e \in Ends, NEW f \in Ends, Select(f),
         Told(e) \/ ~ctl[e].alive
  PROVE  Silent(e)
<1>0. CtlInv /\ StreamInv
  BY DEF IInv
<1>1. ~Told(f) /\ ctl[f].alive
  BY <1>0, PassIsUntold DEF Select
<1>2. e # f /\ e = Peer(f)
  <2>1. e # f BY <1>1
  <2> QED BY <2>1, PeerFacts
<1>3. wire[e] \in Seq(Byte) /\ Len(wire[e]) \in Nat
  BY <1>0, LenProperties DEF StreamInv
<1>4. CASE UNCHANGED <<wire, delivered>>
  BY <1>3, <1>4 DEF Silent
<1>5. ASSUME NEW n \in 1..rcv[f].nPending, n <= Len(wire[e]), NEW nw,
             RcvBytes(f, n, nw)
      PROVE  Silent(e)
  <2>1. PICK v : v = SubSeq(wire[e], n + 1, Len(wire[e]))
    OBVIOUS
  <2>2. wire' = [wire EXCEPT ![e] = v]
    BY <1>2, <1>5, <2>1 DEF RcvBytes
  <2>3. wire'[e] = v
    BY <1>0, <2>2 DEF StreamInv
  <2>4. n \in 1..Len(wire[e])
    <3>1. rcv[f] \in RcvRec
      BY <1>0 DEF StreamInv
    <3>2. rcv[f].nPending \in 0..BufSz /\ BufSz \in Nat
      BY <3>1, Sizes1 DEF RcvRec
    <3> QED BY <1>3, <1>5, <3>2
  <2>5. Len(v) <= Len(wire[e])
    BY <1>3, <2>1, <2>4, ShorterWire
  <2>6. \/ UNCHANGED delivered
        \/ \E d : delivered' = [delivered EXCEPT ![f] = d]
    BY <1>5 DEF RcvBytes
  <2>7. delivered'[e] = delivered[e]
    BY <1>0, <1>2, <2>6 DEF StreamInv
  <2> QED BY <2>3, <2>5, <2>7 DEF Silent
<1>6. \/ UNCHANGED <<wire, delivered>>
      \/ \E nw \in BOOLEAN : \E n \in 1..rcv[f].nPending :
           n <= Len(wire[e]) /\ RcvBytes(f, n, nw)
  <2> DEFINE nw == /\ ctl[f].connectInProgress \/ snd[f].nPending > 0
                   /\ WriteReady(f)
  <2>1. nw \in BOOLEAN
    OBVIOUS
  <2> HIDE DEF nw
  <2>2. DoRcv(f, nw) \/ UNCHANGED <<wire, delivered>>
    BY DEF Select, nw
  <2> QED BY <1>2, <2>1, <2>2 DEF DoRcv
<1> QED BY <1>4, <1>5, <1>6

(* The write event is silent about an end that was told. *)
LEMMA WriteSilent ==
  ASSUME IInv, NEW e \in Ends, NEW f \in Ends, Write(f),
         Told(e) \/ ~ctl[e].alive
  PROVE  Silent(e)
<1>0. CtlInv /\ StreamInv /\ UNCHANGED delivered
  BY DEF IInv, Write
<1>3. wire[e] \in Seq(Byte) /\ Len(wire[e]) \in Nat
  BY <1>0, LenProperties DEF StreamInv
<1>4. CASE UNCHANGED wire
  BY <1>0, <1>3, <1>4 DEF Silent
<1>5. CASE e # f /\ \E w : wire' = [wire EXCEPT ![f] = w]
  <2>1. wire'[e] = wire[e]
    BY <1>0, <1>5 DEF StreamInv
  <2> QED BY <1>0, <1>3, <2>1 DEF Silent
<1>6. \/ UNCHANGED wire
      \/ /\ ~ctl[f].outtaHere /\ lost[f] = "up"
         /\ \E w : wire' = [wire EXCEPT ![f] = w]
  BY DEF Write, DoSend
<1>7. e = f => ctl[f].outtaHere \/ lost[f] # "up"
  <2> SUFFICES ASSUME e = f PROVE ctl[f].outtaHere \/ lost[f] # "up"
    OBVIOUS
  <2>1. ctl[f].pc = "write" /\ CtlCore(f, ctl[f], lost[f]) /\ PcOK(ctl[f])
        /\ ctl[f] \in Ctl
    BY <1>0 DEF Write, CtlInv
  <2>2. ctl[f].hSocket /\ ctl[f].alive
    BY <2>1 DEF PcOK
  <2>3. Told(f)
    BY <2>2
  <2> QED BY <2>1, <2>2, <2>3 DEF CtlCore, Told
<1> QED BY <1>4, <1>5, <1>6, <1>7

(* Whoever was told that the connection is gone gets no message any more,  *)
(* and whoever was told, or was deleted, puts nothing more on the wire.    *)
THEOREM SilentAfterCloseHolds == Spec => SilentAfterClose
<1>1. ASSUME IInv, [Next]_vars, NEW e \in Ends, Told(e) \/ ~ctl[e].alive
      PROVE  Silent(e)
  <2>0. CtlInv /\ StreamInv
    BY <1>1 DEF IInv
  <2>1. Len(wire[e]) \in Nat
    BY <2>0, LenProperties DEF StreamInv
  <2>2. CASE UNCHANGED <<wire, delivered>>
    BY <2>1, <2>2 DEF Silent
  <2>3. ASSUME NEW f \in Ends, Select(f) PROVE Silent(e)
    BY <1>1, <2>3, SelectSilent
  <2>4. ASSUME NEW f \in Ends, Write(f) PROVE Silent(e)
    BY <1>1, <2>4, WriteSilent
  <2>5. ASSUME NEW f \in Ends, NEW how \in {"reset", "broken"}, Lose(f, how)
        PROVE  Silent(e)
    <3>1. wire' = [wire EXCEPT ![Peer(f)] = <<>>] /\ UNCHANGED delivered
      BY <2>5 DEF Lose
    <3>2. wire'[e] = wire[e] \/ wire'[e] = <<>>
      BY <2>0, <3>1 DEF StreamInv
    <3>3. Len(<<>>) = 0
      BY EmptySeq
    <3> QED BY <2>1, <3>1, <3>2, <3>3 DEF Silent
  <2> QED
    BY <1>1, <2>2, <2>3, <2>4, <2>5
       DEF Next, vars, Send, SelectError, RcvDone, AutoDelete, Delete,
           Disconnect
<1>2. IInv /\ [Next]_vars =>
        [\A e \in Ends :
           ctl[e].closes > 0 \/ ~ctl[e].alive =>
             /\ delivered'[e] = delivered[e]
             /\ Len(wire'[e]) <= Len(wire[e])]_vars
  BY <1>1 DEF Told, Silent
<1> QED BY <1>2, StreamInvariant, PTL DEF Spec, SilentAfterClose

-----------------------------------------------------------------------------
(* GenSock implements MsgChannel *)

(* The channel's message for a frame, and its messages for the frames. *)
MessageOf(f) == [notice |-> f.flags = "notice", body |-> Body(f)]
Messages(F)  == [i \in 1..Len(F) |-> [notice |-> F[i].flags = "notice",
                                      body   |-> Body(F[i])]]

(* The body of a frame is a message. *)
LEMMA BodyType ==
  ASSUME NEW f \in Frame
  PROVE  Body(f) \in Seq(Byte) /\ MessageOf(f) \in Channel!Message
<1>1. f.sz \in Nat /\ f.start \in Nat /\ HdrSz \in Nat
  BY Sizes1 DEF Frame
<1>2. \A k \in 1..f.sz : f.start + HdrSz + k \in Byte
  BY <1>1 DEF Byte
<1>3. Body(f) \in [1..f.sz -> Byte]
  BY <1>2 DEF Body
<1>4. Body(f) \in Seq(Byte)
  BY <1>1, <1>3, SeqDef
<1> QED BY <1>4 DEF MessageOf, Channel!Message

(* The messages of a sequence of frames. *)
LEMMA MessagesOf ==
  ASSUME NEW F \in Seq(Frame)
  PROVE  /\ Messages(F) \in Seq(Channel!Message)
         /\ Len(Messages(F)) = Len(F)
         /\ \A i \in 1..Len(F) : Messages(F)[i] = MessageOf(F[i])
<1>1. Len(F) \in Nat
  BY LenProperties
<1>2. \A i \in 1..Len(F) : Messages(F)[i] = MessageOf(F[i])
  BY DEF Messages, MessageOf
<1>3. ASSUME NEW i \in 1..Len(F) PROVE Messages(F)[i] \in Channel!Message
  BY <1>2, BodyType, ElementOfSeq
<1>4. DOMAIN Messages(F) = 1..Len(F)
      /\ Messages(F) = [i \in DOMAIN Messages(F) |-> Messages(F)[i]]
  BY DEF Messages
<1>5. Messages(F) \in [1..Len(F) -> Channel!Message]
  BY <1>3, <1>4
<1>6. Messages(F) \in Seq(Channel!Message)
  BY <1>1, <1>5, SeqDef
<1>7. Len(Messages(F)) = Len(F)
  <2>1. Len(Messages(F)) \in Nat /\ DOMAIN Messages(F) = 1..Len(Messages(F))
    BY <1>6, LenProperties
  <2> QED BY <1>1, <1>4, <2>1
<1> QED BY <1>2, <1>6, <1>7

(* One frame more is one message more. *)
LEMMA MessagesAppend ==
  ASSUME NEW F \in Seq(Frame), NEW f \in Frame
  PROVE  Messages(Append(F, f)) = Append(Messages(F), MessageOf(f))
<1>1. PICK G : G = Append(F, f)
  OBVIOUS
<1>2. G \in Seq(Frame) /\ Len(G) = Len(F) + 1
      /\ (\A i \in 1..Len(F) : G[i] = F[i]) /\ G[Len(F) + 1] = f
      /\ Len(F) \in Nat
  BY <1>1, AppendProperties, LenProperties
<1>3. PICK M : M = Messages(F)
  OBVIOUS
<1>4. PICK N : N = Messages(G)
  OBVIOUS
<1>5. PICK m \in Channel!Message : m = MessageOf(f)
  BY BodyType
<1>6. M \in Seq(Channel!Message) /\ Len(M) = Len(F)
      /\ \A i \in 1..Len(F) : M[i] = MessageOf(F[i])
  BY <1>3, MessagesOf
<1>7. N \in Seq(Channel!Message) /\ Len(N) = Len(G)
      /\ \A i \in 1..Len(G) : N[i] = MessageOf(G[i])
  BY <1>2, <1>4, MessagesOf
<1>8. PICK A : A = Append(M, m)
  OBVIOUS
<1>9. A \in Seq(Channel!Message) /\ Len(A) = Len(M) + 1
      /\ (\A i \in 1..Len(M) : A[i] = M[i]) /\ A[Len(M) + 1] = m
  BY <1>6, <1>8, AppendProperties
<1>10. ASSUME NEW i \in 1..Len(N) PROVE N[i] = A[i]
  <2>1. CASE i \in 1..Len(F)
    BY <1>2, <1>6, <1>7, <1>9, <2>1
  <2>2. CASE i = Len(F) + 1
    BY <1>2, <1>5, <1>6, <1>7, <1>9, <2>2
  <2> QED BY <1>2, <1>7, <2>1, <2>2
<1>11. Len(N) = Len(A)
  BY <1>2, <1>6, <1>7, <1>9
<1>12. N = A
  BY <1>7, <1>9, <1>10, <1>11, SeqEqual
<1> QED BY <1>1, <1>3, <1>4, <1>5, <1>8, <1>12

(* The variables of the channel. *)
Accepted  == [e \in Ends |-> Messages(frames[e])]
Delivered == [e \in Ends |-> delivered[Peer(e)]]
Closed    == [e \in Ends |-> ctl[Peer(e)].closes > 0]

(* Direction e takes message m. *)
TakenIn(e, m) ==
  /\ m \in Channel!Message
  /\ Accepted' = [Accepted EXCEPT ![e] = Append(@, m)]
  /\ Len(Accepted'[e]) > 0 /\ Accepted'[e][Len(Accepted'[e])] = m

(* A frame that was enqueued is a message that was accepted. *)
LEMMA TookMessage ==
  ASSUME SndInv, NEW e \in Ends, NEW f, Took(e, f)
  PROVE  TakenIn(e, MessageOf(f))
<1>1. f \in Frame /\ frames' = [frames EXCEPT ![e] = Append(frames[e], f)]
      /\ frames[e] \in Seq(Frame) /\ frames \in [Ends -> Seq(Frame)]
  BY DEF Took, SndInv
<1>2. PICK m \in Channel!Message : m = MessageOf(f)
  BY <1>1, BodyType
<1>3. Messages(frames'[e]) = Append(Messages(frames[e]), m)
  BY <1>1, <1>2, MessagesAppend
<1>4. \A d \in Ends \ {e} : frames'[d] = frames[d]
  BY <1>1
<1>5. PICK a : a = Accepted
  OBVIOUS
<1>6. a \in [Ends -> Seq(Channel!Message)] /\ a[e] = Messages(frames[e])
      /\ \A d \in Ends : a[d] = Messages(frames[d])
  BY <1>5, MessagesOf DEF Accepted, SndInv
<1>7. PICK b : b = Accepted'
  OBVIOUS
<1>8. b = [d \in Ends |-> Messages(frames'[d])]
  BY <1>7 DEF Accepted
<1>9. b[e] = Append(a[e], m) /\ \A d \in Ends \ {e} : b[d] = a[d]
  BY <1>3, <1>4, <1>6, <1>8
<1>10. b = [a EXCEPT ![e] = Append(a[e], m)]
  BY <1>6, <1>8, <1>9
<1>11. Len(b[e]) = Len(a[e]) + 1 /\ b[e][Len(a[e]) + 1] = m /\ Len(a[e]) \in Nat
  BY <1>6, <1>9, AppendProperties, LenProperties
<1>12. Len(b[e]) > 0 /\ b[e][Len(b[e])] = m
  BY <1>11
<1> QED BY <1>2, <1>5, <1>7, <1>10, <1>12 DEF TakenIn

(* No frames, no messages. *)
LEMMA NoMessages == Messages(<<>>) = <<>>
<1>1. <<>> \in Seq(Frame) /\ Len(<<>>) = 0
  OBVIOUS
<1>2. PICK M : M = Messages(<<>>)
  OBVIOUS
<1>3. M \in Seq(Channel!Message) /\ Len(M) = 0
  <2>1. PICK F \in Seq(Frame) : F = <<>> /\ Len(F) = 0
    BY <1>1
  <2>2. Messages(F) \in Seq(Channel!Message) /\ Len(Messages(F)) = 0
    BY <2>1, MessagesOf
  <2> QED BY <1>2, <2>1, <2>2
<1>4. M = <<>>
  BY <1>3, EmptySeq
<1> QED BY <1>2, <1>4

(* The message that was accepted is the newest of the channel. *)
LEMMA NewestTaken ==
  ASSUME NEW e \in Ends, NEW m, TakenIn(e, m)
  PROVE  /\ Channel!Newest(e) = m
         /\ Channel!Taken(e, Channel!Newest(e))
         /\ Len(Accepted'[e]) > 0
<1>1. Channel!Newest(e) = m
  BY DEF TakenIn, Channel!Newest, Accepted, Messages
<1>2. Len(Accepted'[e]) > 0
  BY DEF TakenIn
<1>3. /\ Channel!Newest(e) \in Channel!Message
      /\ Accepted' = [Accepted EXCEPT ![e] = Append(@, Channel!Newest(e))]
  <2>1. PICK n : n = Channel!Newest(e)
    OBVIOUS
  <2>2. n = m
    BY <1>1, <2>1
  <2>3. m \in Channel!Message /\ Accepted' = [Accepted EXCEPT ![e] = Append(@, m)]
    BY DEF TakenIn
  <2>4. n \in Channel!Message /\ Accepted' = [Accepted EXCEPT ![e] = Append(@, n)]
    BY <2>2, <2>3
  <2> QED BY <2>1, <2>4
<1>4. Channel!Taken(e, Channel!Newest(e))
  BY <1>3, Zenon DEF Channel!Taken, Accepted, Messages
<1> QED BY <1>1, <1>2, <1>4

(* A step that takes a message in is an Accept of the channel. *)
LEMMA AcceptStep ==
  ASSUME NEW e \in Ends, NEW m, TakenIn(e, m), Delivered' = Delivered,
         Closed' = Closed
  PROVE  Channel!Accept(e)
<1>1. Channel!Taken(e, Channel!Newest(e)) /\ Len(Accepted'[e]) > 0
  BY NewestTaken
<1>2. Len([d \in Ends |-> [i \in 1..Len(frames[d]) |->
                  [notice |-> frames[d][i].flags = "notice",
                   body   |-> Body(frames[d][i])]]]'[e]) > 0
  BY <1>1 DEF Accepted, Messages
<1>3. UNCHANGED <<[d \in Ends |-> delivered[Peer(d)]],
                  [d \in Ends |-> ctl[Peer(d)].closes > 0]>>
  BY DEF Delivered, Closed
<1> QED
  BY <1>1, <1>2, <1>3 DEF Channel!Accept

(* Who was told is who is closed. *)
LEMMA SameClosed ==
  ASSUME SameTold PROVE Closed' = Closed
<1>1. \A e \in Ends : Peer(e) \in Ends
  BY PeerFacts
<1>2. \A e \in Ends : ctl'[Peer(e)].closes > 0 <=> ctl[Peer(e)].closes > 0
  BY <1>1, Zenon DEF SameTold, Told
<1>3. \A e \in Ends : Closed'[e] = Closed[e]
  BY <1>2, SMT DEF Closed
<1> QED BY <1>3, Zenon DEF Closed

(* A step that delivers a message is a Deliver of the channel. *)
LEMMA DeliverStep ==
  ASSUME SndInv, delivered \in [Ends -> Seq(Seq(Byte))],
         NEW e \in Ends, Delivers(e)
  PROVE  Channel!Deliver(Peer(e))
<1>1. /\ Peer(e) \in Ends /\ Peer(Peer(e)) = e
      /\ \A d \in Ends : Peer(d) \in Ends
      /\ \A d \in Ends \ {Peer(e)} : Peer(d) # e
  BY EndsAssumption DEF Peer, Ends
<1>2. PICK j : j = Len(delivered[e]) + 1
  OBVIOUS
<1>3. /\ ~Told(e) /\ j <= Len(frames[Peer(e)])
      /\ frames[Peer(e)][j].flags = "none"
      /\ delivered' = [delivered EXCEPT ![e] =
                         Append(delivered[e], Body(frames[Peer(e)][j]))]
      /\ frames' = frames /\ SameTold
  BY <1>2 DEF Delivers
<1>4. j \in 1..Len(frames[Peer(e)])
  <2>1. delivered[e] \in Seq(Seq(Byte))
    OBVIOUS
  <2>2. Len(delivered[e]) \in Nat
    BY <2>1, LenProperties
  <2>3. Len(frames[Peer(e)]) \in Nat
    BY <1>1, LenProperties DEF SndInv
  <2> QED BY <1>2, <1>3, <2>2, <2>3
<1>5. PICK A : A = Accepted
  OBVIOUS
<1>6. PICK D : D = Delivered
  OBVIOUS
<1>7. A[Peer(e)] = Messages(frames[Peer(e)]) /\ D[Peer(e)] = delivered[e]
  BY <1>1, <1>5, <1>6 DEF Accepted, Delivered
<1>8. /\ Len(A[Peer(e)]) = Len(frames[Peer(e)])
      /\ A[Peer(e)][j] = MessageOf(frames[Peer(e)][j])
  BY <1>1, <1>4, <1>7, MessagesOf DEF SndInv
<1>9. /\ ~A[Peer(e)][j].notice
      /\ A[Peer(e)][j].body = Body(frames[Peer(e)][j])
  <2>1. PICK g : g = frames[Peer(e)][j] /\ g.flags = "none"
    BY <1>3
  <2>2. MessageOf(g).notice = FALSE /\ MessageOf(g).body = Body(g)
    BY <2>1 DEF MessageOf
  <2>3. A[Peer(e)][j] = MessageOf(g)
    BY <1>8, <2>1
  <2>4. A[Peer(e)][j].notice = FALSE /\ A[Peer(e)][j].body = Body(g)
    BY <2>2, <2>3
  <2> QED BY <2>1, <2>4
<1>10. PICK E : E = Delivered'
  OBVIOUS
<1>11. E = [d \in Ends |-> delivered'[Peer(d)]]
  BY <1>10 DEF Delivered
<1>12. E = [D EXCEPT ![Peer(e)] = Append(D[Peer(e)], A[Peer(e)][j].body)]
  <2>1. E[Peer(e)] = Append(D[Peer(e)], A[Peer(e)][j].body)
    BY <1>1, <1>3, <1>7, <1>9, <1>11
  <2>2. \A d \in Ends \ {Peer(e)} : E[d] = D[d]
    BY <1>1, <1>3, <1>6, <1>11 DEF Delivered
  <2>3. DOMAIN D = Ends /\ D = [d \in Ends |-> D[d]]
    BY <1>6 DEF Delivered
  <2> QED BY <1>1, <1>11, <2>1, <2>2, <2>3
<1>13. ~Closed[Peer(e)]
  BY <1>1, <1>3 DEF Closed, Told
<1>14. Accepted' = Accepted
  BY <1>3 DEF Accepted, Messages
<1>15. Closed' = Closed
  BY <1>3, SameClosed
<1>16. /\ Len(Delivered[Peer(e)]) + 1 <= Len(Accepted[Peer(e)])
       /\ ~Accepted[Peer(e)][Len(Delivered[Peer(e)]) + 1].notice
       /\ Delivered' = [Delivered EXCEPT ![Peer(e)] =
            Append(@, Accepted[Peer(e)][Len(Delivered[Peer(e)]) + 1].body)]
  BY <1>2, <1>3, <1>5, <1>6, <1>7, <1>8, <1>9, <1>10, <1>12
<1> QED
  BY <1>13, <1>14, <1>15, <1>16, Zenon
     DEF Channel!Deliver, Accepted, Delivered, Closed, Messages

(* A step that ends a connection is a CloseDown of the channel. *)
LEMMA CloseStep ==
  ASSUME SndInv, NEW e \in Ends, Ending(e)
  PROVE  Channel!CloseDown(Peer(e))
<1>1. Peer(e) \in Ends /\ Peer(Peer(e)) = e /\ e # Peer(e)
      /\ (\A d \in Ends : Peer(d) \in Ends)
      /\ \A d \in Ends \ {Peer(e)} : Peer(d) # e
  BY EndsAssumption DEF Peer, Ends
<1>2. ~Closed[Peer(e)]
  BY <1>1 DEF Ending, Closed, Told
<1>3. Closed' = [Closed EXCEPT ![Peer(e)] = TRUE]
  <2>1. \A d \in Ends \ {Peer(e)} :
          ctl'[Peer(d)].closes > 0 <=> ctl[Peer(d)].closes > 0
    BY <1>1, Zenon DEF Ending, Told
  <2>2. ctl'[Peer(Peer(e))].closes > 0
    BY <1>1, Zenon DEF Ending, Told
  <2>3. \A d \in Ends \ {Peer(e)} : Closed'[d] = Closed[d]
    BY <2>1, SMT DEF Closed
  <2>4. Closed'[Peer(e)] = TRUE
    <3>1. PICK p \in Ends : p = Peer(e) /\ ctl'[Peer(p)].closes > 0
      BY <1>1, <2>2, Zenon
    <3>2. (ctl'[Peer(p)].closes > 0) = TRUE
      BY <3>1, Zenon
    <3>3. Closed'[p] = (ctl'[Peer(p)].closes > 0)
      BY <3>1, Zenon DEF Closed
    <3> QED BY <3>1, <3>2, <3>3, Zenon
  <2> QED BY <1>1, <2>3, <2>4, Zenon DEF Closed
<1>4. Delivered' = Delivered
  BY DEF Ending, Delivered
<1>5. CASE UNCHANGED frames
  <2>1. Accepted' = Accepted
    BY <1>5 DEF Accepted, Messages
  <2> QED BY <1>2, <1>3, <1>4, <2>1, Zenon
          DEF Channel!CloseDown, Accepted, Delivered, Closed, Messages
<1>6. CASE \E f \in Frame : f.flags = "notice" /\ Took(e, f)
  <2>1. PICK f \in Frame : f.flags = "notice" /\ Took(e, f)
    BY <1>6
  <2>2. TakenIn(e, MessageOf(f))
    BY <2>1, TookMessage
  <2>3. MessageOf(f).notice
    BY <2>1 DEF MessageOf
  <2>4. PICK m : m = MessageOf(f)
    OBVIOUS
  <2>5. TakenIn(e, m) /\ m.notice
    BY <2>2, <2>3, <2>4
  <2>6. /\ Channel!Newest(e).notice /\ Channel!Taken(e, Channel!Newest(e))
        /\ Len(Accepted'[e]) > 0
    BY <2>5, NewestTaken
  <2>7. e \in Ends \ {Peer(e)}
    BY <1>1
  <2>8. /\ Accepted'[e][Len(Accepted'[e])].notice
        /\ Accepted'[e][Len(Accepted'[e])] \in Channel!Message
        /\ Accepted' = [Accepted EXCEPT ![e] =
                         Append(@, Accepted'[e][Len(Accepted'[e])])]
    BY <2>6 DEF Channel!Newest, Channel!Taken, Accepted, Messages
  <2>9. \E away \in Ends \ {Peer(e)} :
          /\ Len(Accepted'[away]) > 0
          /\ Accepted'[away][Len(Accepted'[away])].notice
          /\ Accepted'[away][Len(Accepted'[away])] \in Channel!Message
          /\ Accepted' = [Accepted EXCEPT ![away] =
                           Append(@, Accepted'[away][Len(Accepted'[away])])]
    BY <2>6, <2>7, <2>8
  <2> QED BY <1>2, <1>3, <1>4, <2>9, Zenon
          DEF Channel!CloseDown, Channel!Newest, Channel!Taken, Accepted,
              Delivered, Closed, Messages
<1> QED BY <1>5, <1>6 DEF Ending

(* GenSock implements MsgChannel, in each direction: whatever the          *)
(* applications, TCP and the polling passes of the two ends do, a step     *)
(* takes one message, hands over the next one, tells one application that  *)
(* the connection is gone, or is none of the channel's business.           *)
THEOREM ImplementsChannelHolds == Spec => ImplementsChannel
<1>1. Init => Channel!Init
  <2>1. ASSUME Init PROVE Channel!Init
    <3>1. \A e \in Ends : Peer(e) \in Ends
      BY PeerFacts
    <3>2. Delivered = [e \in Ends |-> <<>>]
      BY <2>1, <3>1 DEF Init, Delivered
    <3>3. \A e \in Ends : ctl[Peer(e)].closes = 0
      BY <2>1, <3>1 DEF Init
    <3>4. Closed = [e \in Ends |-> FALSE]
      <4>1. \A e \in Ends : ~(ctl[Peer(e)].closes > 0)
        BY <3>3
      <4>2. ASSUME NEW e \in Ends PROVE (ctl[Peer(e)].closes > 0) = FALSE
        <5>1. ctl[Peer(e)].closes > 0 <=> FALSE
          BY <4>1, Zenon
        <5> QED BY <5>1
      <4> QED BY <4>2, Zenon DEF Closed
    <3>5. \A e \in Ends : frames[e] = <<>>
      BY <2>1 DEF Init
    <3>6. \A e \in Ends : Messages(frames[e]) = <<>>
      BY <3>5, NoMessages
    <3>7. Accepted = [e \in Ends |-> <<>>]
      BY <3>6 DEF Accepted
    <3> QED BY <3>2, <3>4, <3>7
            DEF Channel!Init, Accepted, Delivered, Closed, Messages
  <2> QED BY <2>1
<1>2. ASSUME IInv, delivered \in [Ends -> Seq(Seq(Byte))], Kind
      PROVE  [Channel!Next]_(Channel!vars)
  <2>1. SndInv
    BY <1>2 DEF IInv
  <2>2. ASSUME NEW e \in Ends, Accepts(e) PROVE Channel!Next
    <3>1. PICK f : Took(e, f)
      BY <2>2 DEF Accepts
    <3>2. TakenIn(e, MessageOf(f))
      BY <2>1, <3>1, TookMessage
    <3>3. PICK m : TakenIn(e, m)
      BY <3>2
    <3>4. Delivered' = Delivered
      BY <2>2 DEF Accepts, Delivered
    <3>5. Closed' = Closed
      BY <2>2, SameClosed DEF Accepts
    <3>6. Channel!Accept(e)
      BY <3>3, <3>4, <3>5, AcceptStep
    <3> QED BY <3>6 DEF Channel!Next
  <2>3. ASSUME NEW e \in Ends, Delivers(e) PROVE Channel!Next
    <3>1. Channel!Deliver(Peer(e))
      BY <1>2, <2>1, <2>3, DeliverStep
    <3> QED BY <3>1, PeerFacts DEF Channel!Next
  <2>4. ASSUME NEW e \in Ends, Ending(e) PROVE Channel!Next
    <3>1. Channel!CloseDown(Peer(e))
      BY <2>1, <2>4, CloseStep
    <3> QED BY <3>1, PeerFacts DEF Channel!Next
  <2>5. ASSUME UNCHANGED <<frames, delivered>>, SameTold
        PROVE  UNCHANGED Channel!vars
    <3>1. Accepted' = Accepted
      BY <2>5 DEF Accepted, Messages
    <3>2. Delivered' = Delivered
      BY <2>5 DEF Delivered
    <3>3. Closed' = Closed
      BY <2>5, SameClosed
    <3> QED BY <3>1, <3>2, <3>3
            DEF Channel!vars, Accepted, Delivered, Closed, Messages
  <2> QED BY <1>2, <2>2, <2>3, <2>4, <2>5 DEF Kind
<1>3. IInv /\ [Next]_vars => [Channel!Next]_(Channel!vars)
  BY <1>2, NextKind DEF IInv, StreamInv
<1> QED BY <1>1, <1>3, StreamInvariant, PTL
        DEF Spec, ImplementsChannel, Channel!Spec

-----------------------------------------------------------------------------
(* Nothing is lost on the way *)

(* Outside OnRcv an end that has read a header still asks for bytes: it    *)
(* never sits on a whole message.                                          *)
Asking(c, r) == c.pc # "rcv" /\ ~r.hdr => r.nPending > 0

AskingInv == \A e \in Ends : Asking(ctl[e], rcv[e])

(* A step that receives nothing and leaves no OnRcv. *)
LEMMA AskingKept ==
  ASSUME AskingInv, rcv' = rcv,
         \A e \in Ends : ctl'[e].pc = ctl[e].pc \/ ctl[e].pc # "rcv"
  PROVE  AskingInv'
BY DEF AskingInv, Asking

(* One recv. *)
LEMMA RcvBytesAsking ==
  ASSUME IInv, AskingInv, NEW e \in Ends, NEW n \in 1..rcv[e].nPending,
         NEW nw \in BOOLEAN, RcvBytes(e, n, nw)
  PROVE  AskingInv'
<1>1. PICK p : p = Peer(e) OBVIOUS
<1>2. PICK F : F = frames[p] OBVIOUS
<1>3. F \in Seq(Frame)
  <2>1. p \in Ends BY <1>1, PeerFacts
  <2> QED BY <1>2, <2>1 DEF IInv, SndInv, StreamInv, SendSide, FramesOK
<1>4. PICK left : left = rcv[e].nPending - n OBVIOUS
<1>5. PICK buf : buf = rcv[e].buf \o SubSeq(wire[p], 1, n) OBVIOUS
<1>6. PICK o : o = rcv[e] OBVIOUS
<1>7. PICK got : got = [o EXCEPT !.buf = buf, !.nPending = left] OBVIOUS
<1>8. o \in RcvRec BY <1>6 DEF IInv, StreamInv
<1>9. /\ got.nPending = left /\ got.hdr = o.hdr
      /\ \A m : /\ [got EXCEPT !.nPending = m, !.hdr = FALSE].nPending = m
  BY <1>7, <1>8 DEF RcvRec
<1>10. PICK c, r : /\ ctl' = [ctl EXCEPT ![e] = c]
                   /\ rcv' = [rcv EXCEPT ![e] = r]
                   /\ \/ r = got /\ (left > 0 \/ o.hdr \/ c.pc = "rcv")
                      \/ \E i \in 1..Len(F) :
                           r = [got EXCEPT !.nPending = TtlSz(F[i].sz) - HdrSz,
                                           !.hdr = FALSE]
  <2>1. CASE /\ left > 0
             /\ rcv' = [rcv EXCEPT ![e] = got]
             /\ ctl' = [ctl EXCEPT ![e] = AfterRead(@, nw)]
    <3>1. PICK c : c = AfterRead(ctl[e], nw) OBVIOUS
    <3>2. ctl' = [ctl EXCEPT ![e] = c] BY <2>1, <3>1 DEF IInv, CtlInv
    <3> QED BY <2>1, <3>2
  <2>2. CASE \E i \in 1..Len(F) :
               /\ rcv' = [rcv EXCEPT ![e] =
                     [got EXCEPT !.nPending = TtlSz(F[i].sz) - HdrSz,
                                 !.hdr = FALSE]]
               /\ ctl' = [ctl EXCEPT ![e] = AfterRead(@, nw)]
    <3>1. PICK c : c = AfterRead(ctl[e], nw) OBVIOUS
    <3>2. ctl' = [ctl EXCEPT ![e] = c] BY <2>2, <3>1 DEF IInv, CtlInv
    <3> QED BY <2>2, <3>2
  <2>3. CASE /\ o.hdr
             /\ rcv' = [rcv EXCEPT ![e] = got]
             /\ ctl' = [ctl EXCEPT ![e] = AfterRead(Close(e, @), nw)]
    <3>1. PICK c : c = AfterRead(Close(e, ctl[e]), nw) OBVIOUS
    <3>2. ctl' = [ctl EXCEPT ![e] = c] BY <2>3, <3>1 DEF IInv, CtlInv
    <3> QED BY <2>3, <3>2
  <2>4. CASE /\ rcv' = [rcv EXCEPT ![e] = got]
             /\ ctl' = [ctl EXCEPT ![e].pc = "rcv", ![e].needWrite = nw]
    <3>1. PICK b : b = ctl[e] OBVIOUS
    <3>2. PICK c : c = [b EXCEPT !.pc = "rcv", !.needWrite = nw] OBVIOUS
    <3>3. b \in Ctl BY <3>1 DEF IInv, CtlInv
    <3>4. c.pc = "rcv" BY <3>2, <3>3 DEF Ctl
    <3>5. ctl' = [ctl EXCEPT ![e] = c] BY <2>4, <3>1, <3>2 DEF IInv, CtlInv
    <3> QED BY <2>4, <3>4, <3>5
  <2> QED BY <1>1, <1>2, <1>4, <1>5, <1>6, <1>7, <2>1, <2>2, <2>3, <2>4
          DEF RcvBytes
<1>11. ctl'[e] = c /\ rcv'[e] = r BY <1>10 DEF IInv, CtlInv, StreamInv
<1>12. Asking(c, r)
  <2>1. CASE r = got /\ (left > 0 \/ o.hdr \/ c.pc = "rcv")
    BY <1>9, <2>1 DEF Asking
  <2>2. CASE \E i \in 1..Len(F) :
               r = [got EXCEPT !.nPending = TtlSz(F[i].sz) - HdrSz,
                               !.hdr = FALSE]
    <3>1. PICK i \in 1..Len(F) :
             r = [got EXCEPT !.nPending = TtlSz(F[i].sz) - HdrSz, !.hdr = FALSE]
      BY <2>2
    <3>2. TtlSz(F[i].sz) - HdrSz \in 1..BufSz BY <1>3, FrameFacts
    <3>3. r.nPending \in 1..BufSz BY <1>9, <3>1, <3>2
    <3>4. r.nPending > 0 BY <3>3, Sizes1
    <3> QED BY <3>4 DEF Asking
  <2> QED BY <1>10, <2>1, <2>2
<1>13. \A f \in Ends : f # e => ctl'[f] = ctl[f] /\ rcv'[f] = rcv[f]
  BY <1>10 DEF IInv, CtlInv, StreamInv
<1> QED BY <1>11, <1>12, <1>13 DEF AskingInv

(* Every step keeps AskingInv. *)
LEMMA AskingNext ==
  ASSUME IInv, AskingInv, [Next]_vars
  PROVE  AskingInv'
<1>0. ctl \in [Ends -> Ctl] /\ rcv \in [Ends -> RcvRec]
  BY DEF IInv, CtlInv, StreamInv
<1>1. CASE rcv' = rcv /\ ctl' = ctl BY <1>1 DEF AskingInv
<1>2. ASSUME NEW e \in Ends, rcv' = rcv, ctl[e].pc # "rcv",
             NEW c, ctl' = [ctl EXCEPT ![e] = c]
      PROVE  AskingInv'
  <2>1. \A f \in Ends : f # e => ctl'[f] = ctl[f] BY <1>0, <1>2
  <2> QED BY <1>2, <2>1, AskingKept
<1>3. ASSUME NEW e \in Ends, Select(e) PROVE AskingInv'
  <2>1. ctl[e].pc # "rcv" BY <1>3 DEF Select
  <2>2. CASE \E nw \in BOOLEAN : DoRcv(e, nw)
    <3>1. PICK nw \in BOOLEAN : DoRcv(e, nw) BY <2>2
    <3>2. CASE \E n \in 1..rcv[e].nPending : RcvBytes(e, n, nw)
      BY <3>2, RcvBytesAsking
    <3>3. CASE rcv' = rcv /\ \E c : ctl' = [ctl EXCEPT ![e] = c]
      BY <1>2, <2>1, <3>3
    <3> QED BY <3>1, <3>2, <3>3 DEF DoRcv
  <2>3. CASE rcv' = rcv /\ ctl' = [ctl EXCEPT ![e].pc = "write"]
    <3>1. \E c : ctl' = [ctl EXCEPT ![e] = c] BY <2>3
    <3> QED BY <1>2, <2>1, <2>3, <3>1
  <2> QED BY <1>3, <2>2, <2>3 DEF Select
<1>4. ASSUME NEW e \in Ends, SelectError(e) PROVE AskingInv'
  BY <1>2, <1>4 DEF SelectError
<1>5. ASSUME NEW e \in Ends, AutoDelete(e) \/ Delete(e) PROVE AskingInv'
  <2>1. \E c : ctl' = [ctl EXCEPT ![e] = c]
    BY <1>5 DEF AutoDelete, Delete
  <2> QED BY <1>2, <1>5, <2>1 DEF AutoDelete, Delete
<1>6. ASSUME NEW e \in Ends, Write(e) PROVE AskingInv'
  <2>1. rcv' = rcv /\ ctl[e].pc # "rcv" BY <1>6 DEF Write
  <2>2. \E c : ctl' = [ctl EXCEPT ![e] = c] BY <1>6 DEF Write, DoSend
  <2> QED BY <1>2, <2>1, <2>2
<1>7. ASSUME NEW e \in Ends, RcvDone(e) PROVE AskingInv'
  <2>1. ctl[e].pc = "rcv" BY <1>7 DEF RcvDone
  <2>2. ~ctl[e].outtaHere BY <2>1 DEF IInv, StreamInv, RcvSideOf, RcvSide
  <2>3. rcv' = [rcv EXCEPT ![e] = EmptyRcv]
    BY <1>7, <2>2 DEF RcvDone, SetupForRcv
  <2>4. rcv'[e].hdr = TRUE BY <1>0, <2>3 DEF EmptyRcv
  <2>5. \A f \in Ends : f # e => ctl'[f] = ctl[f] /\ rcv'[f] = rcv[f]
    BY <1>0, <1>7, <2>3 DEF RcvDone
  <2> QED BY <2>4, <2>5 DEF AskingInv, Asking
<1>8. CASE Disconnect
  <2>1. rcv' = rcv /\ ctl' = [ctl EXCEPT ![Server] = Close(Server, @)]
    BY <1>8 DEF Disconnect
  <2>2. Server \in Ends BY DEF Ends
  <2>3. Close(Server, ctl[Server]).pc = ctl[Server].pc
    BY <1>0, <2>2, EndsAssumption DEF Close, OnClose, Ctl
  <2>4. \A e \in Ends : ctl'[e].pc = ctl[e].pc BY <1>0, <2>1, <2>3
  <2> QED BY <2>1, <2>4, AskingKept
<1>9. CASE UNCHANGED vars BY <1>1, <1>9 DEF vars
<1>10. ASSUME NEW e \in Ends,
              \/ \E sz \in Sizes, flags \in Flags : Send(e, sz, flags)
              \/ \E how \in {"reset", "broken"} : Lose(e, how)
       PROVE  AskingInv'
  BY <1>1, <1>10 DEF Send, Lose
<1> QED BY <1>3, <1>4, <1>5, <1>6, <1>7, <1>8, <1>9, <1>10 DEF Next

(* While TCP works, a message that was enqueued and not yet given to OnRcv *)
(* has bytes in the sender's buffer or on the wire: none is dropped        *)
(* between send3a and OnRcvLo, and none waits in the receive buffer for    *)
(* bytes that are not to come.  It is the safety half of                   *)
(* EnqueuedIsDelivered.                                                    *)
DrainedIsDelivered ==
  \A e \in Ends :
    lost[Peer(e)] = "up" /\ snd[e].nPending = 0 /\ wire[e] = <<>>
      => Len(delivered[Peer(e)]) = Len(frames[e])

(* The same for one direction. *)
LEMMA DrainedDirection ==
  ASSUME NEW c, NEW r, NEW d, NEW F, NEW s, FramesOK(F), DelOK(d, F),
         RcvOK(r, At(c, d), F), PipeOK(<<>>, r, At(c, d), F, s),
         s.nPending = 0, Asking(c, r)
  PROVE  Len(d) = Len(F)
<1>1. PICK j : j = At(c, d) OBVIOUS
<1>2. PICK m : m = Len(r.buf) OBVIOUS
<1>3. /\ F \in Seq(Frame) /\ Len(F) \in Nat /\ EndOf(F) \in Nat
      /\ Len(d) \in Nat /\ Len(d) <= Len(F) /\ m \in Nat
      /\ r.nPending \in Nat /\ r.hdr \in BOOLEAN
  <2>1. r \in RcvRec /\ d \in Seq(Seq(Byte)) BY DEF RcvOK, DelOK
  <2>2. r.buf \in Seq(Byte) /\ r.nPending \in 0..BufSz /\ r.hdr \in BOOLEAN
    BY <2>1 DEF RcvRec
  <2>3. r.nPending \in Nat BY <2>2, Sizes1
  <2> QED BY <1>2, <2>1, <2>2, <2>3, EndOfNat, LenProperties
          DEF FramesOK, DelOK
<1>4. Base(F, j) + m = EndOf(F)
  <2>1. Sent(s, F) = EndOf(F) BY <1>3 DEF Sent
  <2>2. Len(<<>>) = 0 BY EmptySeq
  <2>3. j \in 1..Len(F) + 1 BY <1>1 DEF RcvOK
  <2>4. Base(F, j) \in Nat BY <1>3, <2>3, BaseNat
  <2> QED BY <1>1, <1>2, <1>3, <2>1, <2>2, <2>4 DEF PipeOK
<1>5. j \in 1..Len(F) + 1 BY <1>1 DEF RcvOK
<1>6. CASE j = Len(F) + 1
  BY <1>1, <1>3, <1>6 DEF At
<1>7. CASE j \in 1..Len(F)
  <2>1. PICK t : t = TtlSz(F[j].sz) OBVIOUS
  <2>2. t \in Nat /\ t > HdrSz /\ HdrSz \in Nat
    <3>1. t \in Nat /\ t - HdrSz \in 1..BufSz BY <1>3, <1>7, <2>1, FrameFacts
    <3> QED BY <3>1, Sizes1
  <2>3. Base(F, j + 1) = Base(F, j) + t BY <1>7, <2>1, NextBase
  <2>4. /\ Base(F, j) \in Nat
        /\ Base(F, j + 1) \in Nat /\ Base(F, j + 1) <= EndOf(F)
        /\ Base(F, j + 1) < EndOf(F) => j + 1 <= Len(F)
    BY <1>3, <1>7, BaseNat
  <2>5. m >= t BY <1>3, <1>4, <2>2, <2>3, <2>4
  <2>6. ~r.hdr
    <3>1. r.hdr => m + r.nPending = HdrSz BY <1>2 DEF RcvOK
    <3> QED BY <1>3, <2>2, <2>5, <3>1
  <2>7. m + r.nPending = t BY <1>1, <1>2, <2>1, <2>6 DEF RcvOK
  <2>8. r.nPending = 0 /\ m = t BY <1>3, <2>2, <2>5, <2>7
  <2>9. c.pc = "rcv" BY <2>6, <2>8 DEF Asking
  <2>10. j = Len(d) BY <1>1, <2>9 DEF At
  <2>11. ~(j + 1 <= Len(F))
    <3>1. SUFFICES ASSUME j + 1 <= Len(F) PROVE FALSE OBVIOUS
    <3>2. j + 1 \in 1..Len(F) BY <1>3, <1>7, <3>1
    <3>3. Base(F, j + 2) = Base(F, j + 1) + TtlSz(F[j + 1].sz)
      <4>1. (j + 1) + 1 = j + 2 BY <1>7
      <4> QED BY <3>2, <4>1, NextBase
    <3>4. TtlSz(F[j + 1].sz) \in Nat /\ TtlSz(F[j + 1].sz) > 0
      <4>1. TtlSz(F[j + 1].sz) \in 1..BufSz BY <1>3, <3>2, FrameFacts
      <4> QED BY <4>1, Sizes1
    <3>5. Base(F, j + 2) \in Nat /\ Base(F, j + 2) <= EndOf(F)
      BY <1>3, <1>7, BaseNat
    <3> QED BY <1>3, <1>4, <2>2, <2>3, <2>4, <2>8, <3>3, <3>4, <3>5
  <2> QED BY <1>3, <1>7, <2>10, <2>11
<1> QED BY <1>3, <1>5, <1>6, <1>7

(* Nothing is lost between two ends that TCP still connects. *)
THEOREM DrainedIsDeliveredHolds == Spec => []DrainedIsDelivered
<1>1. Init => AskingInv BY DEF Init, AskingInv, Asking, EmptyRcv
<1>2. IInv /\ AskingInv /\ [Next]_vars => AskingInv' BY AskingNext
<1>3. IInv /\ AskingInv => DrainedIsDelivered
  <2> SUFFICES ASSUME IInv, AskingInv, NEW e \in Ends, lost[Peer(e)] = "up",
                      snd[e].nPending = 0, wire[e] = <<>>
               PROVE  Len(delivered[Peer(e)]) = Len(frames[e])
    BY DEF DrainedIsDelivered
  <2>1. PICK p : p = Peer(e) OBVIOUS
  <2>2. p \in Ends /\ Peer(p) = e BY <2>1, PeerFacts
  <2>3. FramesOK(frames[e]) /\ RcvSideOf(p)
    BY <2>2 DEF IInv, StreamInv, SendSide
  <2>4. RcvSide(ctl[p], rcv[p], delivered[p], <<>>, "up", frames[e], snd[e])
    BY <2>1, <2>2, <2>3 DEF RcvSideOf
  <2>5. /\ DelOK(delivered[p], frames[e])
        /\ RcvOK(rcv[p], At(ctl[p], delivered[p]), frames[e])
        /\ PipeOK(<<>>, rcv[p], At(ctl[p], delivered[p]), frames[e], snd[e])
    BY <2>4 DEF RcvSide
  <2>6. Asking(ctl[p], rcv[p]) BY <2>2 DEF AskingInv
  <2> QED BY <2>1, <2>3, <2>5, <2>6, DrainedDirection
<1> QED BY <1>1, <1>2, <1>3, StreamInvariant, PTL DEF Spec

-----------------------------------------------------------------------------
(* No end falls silent unheard *)

(* An end that exists, but whose timer does nothing any more or only       *)
(* deletes it, has told its application.                                   *)
Heard(c) == c.alive /\ (~c.hSocket \/ c.outtaHere \/ c.autoDeleteReq)
              => c.closes > 0

(* After OnClose the application was told, now or before. *)
LEMMA OnCloseHeard ==
  ASSUME NEW e, NEW c \in Ctl, c.alive /\ c.autoDeleteReq => c.closes > 0
  PROVE  OnClose(e, c) \in Ctl
         /\ (OnClose(e, c).alive => OnClose(e, c).closes > 0)
<1>1. PICK n : n = c.closes + 1 OBVIOUS
<1>2. n \in Nat /\ n > 0 BY <1>1 DEF Ctl
<1>3. PICK a : a = [c EXCEPT !.outtaHere = TRUE, !.closes = n] OBVIOUS
<1>4. PICK b : b = [c EXCEPT !.autoDeleteReq = TRUE, !.closes = n] OBVIOUS
<1>5. a \in Ctl /\ a.closes = n /\ b \in Ctl /\ b.closes = n
  BY <1>2, <1>3, <1>4 DEF Ctl
<1>6. \/ OnClose(e, c) = a \/ OnClose(e, c) = b
      \/ OnClose(e, c) = c /\ c.autoDeleteReq
  BY <1>1, <1>3, <1>4 DEF OnClose
<1> QED BY <1>2, <1>5, <1>6

(* So it was after Close, even if outtaHere was set just before. *)
LEMMA CloseHeard ==
  ASSUME NEW e, NEW c \in Ctl,
         c.alive /\ (~c.hSocket \/ c.autoDeleteReq) => c.closes > 0
  PROVE  Close(e, c) \in Ctl /\ (Close(e, c).alive => Close(e, c).closes > 0)
<1>1. CASE ~c.hSocket BY <1>1 DEF Close
<1>2. CASE c.hSocket
  <2>1. PICK t : t = [c EXCEPT !.hSocket = FALSE] OBVIOUS
  <2>2. t \in Ctl /\ t.alive = c.alive /\ t.closes = c.closes
        /\ t.autoDeleteReq = c.autoDeleteReq
    BY <2>1 DEF Ctl
  <2>3. Close(e, c) = OnClose(e, t) BY <1>2, <2>1 DEF Close
  <2> QED BY <2>2, <2>3, OnCloseHeard
<1> QED BY <1>1, <1>2

(* Where the thread is does not matter. *)
LEMMA PassHeard ==
  ASSUME NEW c \in Ctl, Heard(c), NEW p \in {"idle", "rcv", "write"},
         NEW w \in BOOLEAN
  PROVE  Heard([c EXCEPT !.pc = p, !.needWrite = w]) /\ Heard([c EXCEPT !.pc = p])
<1>1. PICK t : t = [c EXCEPT !.pc = p, !.needWrite = w] OBVIOUS
<1>2. PICK u : u = [c EXCEPT !.pc = p] OBVIOUS
<1>3. /\ t.alive = c.alive /\ t.hSocket = c.hSocket
      /\ t.outtaHere = c.outtaHere /\ t.autoDeleteReq = c.autoDeleteReq
      /\ t.closes = c.closes
      /\ u.alive = c.alive /\ u.hSocket = c.hSocket
      /\ u.outtaHere = c.outtaHere /\ u.autoDeleteReq = c.autoDeleteReq
      /\ u.closes = c.closes
  BY <1>1, <1>2 DEF Ctl
<1> QED BY <1>1, <1>2, <1>3 DEF Heard

(* Nor does it when the pass goes on after a read. *)
LEMMA AfterReadHeard ==
  ASSUME NEW c \in Ctl, Heard(c), NEW nw \in BOOLEAN
  PROVE  Heard(AfterRead(c, nw))
<1>1. PICK p \in {"idle", "rcv", "write"} :
        p = IF c.hSocket /\ nw THEN "write" ELSE "idle"
  OBVIOUS
<1>2. PICK t : t = [c EXCEPT !.pc = p, !.needWrite = FALSE] OBVIOUS
<1>3. Heard(t) BY <1>2, PassHeard
<1>4. AfterRead(c, nw) = t BY <1>1, <1>2 DEF AfterRead
<1> QED BY <1>3, <1>4

HeardInv == \A e \in Ends : Heard(ctl[e])

(* A step that changes the flags of one end. *)
LEMMA HeardUpdate ==
  ASSUME CtlInv, HeardInv, NEW e \in Ends, NEW c, Heard(c),
         ctl' = [ctl EXCEPT ![e] = c]
  PROVE  HeardInv'
BY DEF CtlInv, HeardInv

(* The read event. *)
LEMMA SelectHeard ==
  ASSUME CtlInv, HeardInv, NEW e \in Ends, Select(e)
  PROVE  HeardInv'
<1>1. PICK c : c = ctl[e] OBVIOUS
<1>2. PICK nw \in BOOLEAN : nw = (/\ c.connectInProgress \/ snd[e].nPending > 0
                                  /\ WriteReady(e))
  OBVIOUS
<1>3. c \in Ctl /\ Heard(c) /\ c.hSocket /\ ~c.autoDeleteReq
  BY <1>1 DEF CtlInv, HeardInv, Select
<1>4. Heard(AfterRead(c, nw)) BY <1>3, AfterReadHeard
<1>5. ASSUME NEW d \in Ctl, d.alive => d.closes > 0
      PROVE  Heard(AfterRead(d, nw))
  BY <1>5, AfterReadHeard DEF Heard
<1>6. Heard(AfterRead(Close(e, c), nw)) BY <1>3, <1>5, CloseHeard
<1>7. Heard(AfterRead(OnClose(e, c), nw)) BY <1>3, <1>5, OnCloseHeard
<1>8. /\ Heard([c EXCEPT !.pc = "rcv", !.needWrite = nw])
      /\ Heard([c EXCEPT !.pc = "write"])
  BY <1>3, PassHeard
<1>9. DoRcv(e, nw) =>
         \/ ctl' = [ctl EXCEPT ![e] = AfterRead(@, nw)]
         \/ ctl' = [ctl EXCEPT ![e] = AfterRead(Close(e, @), nw)]
         \/ ctl' = [ctl EXCEPT ![e] = AfterRead(OnClose(e, @), nw)]
         \/ ctl' = [ctl EXCEPT ![e].pc = "rcv", ![e].needWrite = nw]
  BY DEF DoRcv, RcvBytes
<1>10. DoRcv(e, nw) \/ ctl' = [ctl EXCEPT ![e].pc = "write"]
  BY <1>1, <1>2 DEF Select
<1>11. \E d : Heard(d) /\ ctl' = [ctl EXCEPT ![e] = d]
  BY <1>1, <1>4, <1>6, <1>7, <1>8, <1>9, <1>10 DEF CtlInv
<1> QED BY <1>11, HeardUpdate

(* The write event. *)
LEMMA WriteHeard ==
  ASSUME CtlInv, HeardInv, NEW e \in Ends, Write(e)
  PROVE  HeardInv'
<1>1. PICK c : c = ctl[e] OBVIOUS
<1>2. c \in Ctl /\ Heard(c) /\ c.hSocket
  BY <1>1 DEF CtlInv, HeardInv, Write, PcOK
<1>3. CASE ctl' = [ctl EXCEPT ![e].connectInProgress = FALSE,
                              ![e].bConnected = TRUE, ![e].pc = "idle"]
  <2>1. PICK t : t = [c EXCEPT !.connectInProgress = FALSE,
                               !.bConnected = TRUE, !.pc = "idle"]
    OBVIOUS
  <2>2. /\ t.alive = c.alive /\ t.hSocket = c.hSocket
        /\ t.outtaHere = c.outtaHere /\ t.autoDeleteReq = c.autoDeleteReq
        /\ t.closes = c.closes
    BY <1>2, <2>1 DEF Ctl
  <2>3. Heard(t) BY <1>2, <2>2 DEF Heard
  <2>4. ctl' = [ctl EXCEPT ![e] = t] BY <1>1, <1>3, <2>1 DEF CtlInv
  <2> QED BY <2>3, <2>4, HeardUpdate
<1>4. CASE ctl' = [ctl EXCEPT ![e].pc = "idle"]
  <2>1. PICK t : t = [c EXCEPT !.pc = "idle"] OBVIOUS
  <2>2. Heard(t) BY <1>2, <2>1, PassHeard
  <2>3. ctl' = [ctl EXCEPT ![e] = t] BY <1>1, <1>4, <2>1 DEF CtlInv
  <2> QED BY <2>2, <2>3, HeardUpdate
<1>5. ASSUME NEW aborted \in BOOLEAN,
             ctl' = [ctl EXCEPT ![e] =
                [Close(e, [c EXCEPT !.outtaHere = @ \/ ~aborted])
                   EXCEPT !.pc = "idle"]]
      PROVE  HeardInv'
  <2>1. PICK b : b = [c EXCEPT !.outtaHere = @ \/ ~aborted] OBVIOUS
  <2>2. b \in Ctl /\ b.hSocket = c.hSocket /\ b.closes = c.closes
        /\ b.autoDeleteReq = c.autoDeleteReq /\ b.alive = c.alive
    BY <1>2, <2>1 DEF Ctl
  <2>3. PICK d : d = Close(e, b) OBVIOUS
  <2>4. d \in Ctl /\ (d.alive => d.closes > 0)
    BY <1>2, <2>2, <2>3, CloseHeard DEF Heard
  <2>5. PICK t : t = [d EXCEPT !.pc = "idle"] OBVIOUS
  <2>6. Heard(t) BY <2>4, <2>5, PassHeard DEF Heard
  <2>7. ctl' = [ctl EXCEPT ![e] = t] BY <1>5, <2>1, <2>3, <2>5
  <2> QED BY <2>6, <2>7, HeardUpdate
<1> QED BY <1>1, <1>3, <1>4, <1>5 DEF Write, DoSend

(* Every step keeps HeardInv. *)
LEMMA HeardNext ==
  ASSUME CtlInv, HeardInv, [Next]_vars
  PROVE  HeardInv'
<1>1. CASE ctl' = ctl BY <1>1 DEF HeardInv
<1>2. ASSUME NEW e \in Ends, Select(e) \/ Write(e) PROVE HeardInv'
  BY <1>2, SelectHeard, WriteHeard
<1>3. ASSUME NEW e \in Ends, SelectError(e) PROVE HeardInv'
  <2>1. PICK d : d = Close(e, ctl[e]) OBVIOUS
  <2>2. ctl[e] \in Ctl /\ Heard(ctl[e]) BY DEF CtlInv, HeardInv
  <2>3. Heard(d) BY <2>1, <2>2, CloseHeard DEF Heard
  <2> QED BY <1>3, <2>1, <2>3, HeardUpdate DEF SelectError
<1>4. ASSUME NEW e \in Ends, RcvDone(e) PROVE HeardInv'
  <2>1. PICK d : d = AfterRead(ctl[e], ctl[e].needWrite) OBVIOUS
  <2>2. ctl[e] \in Ctl /\ Heard(ctl[e]) BY DEF CtlInv, HeardInv
  <2>3. ctl[e].needWrite \in BOOLEAN BY <2>2 DEF Ctl
  <2>4. Heard(d) BY <2>1, <2>2, <2>3, AfterReadHeard
  <2> QED BY <1>4, <2>1, <2>4, HeardUpdate DEF RcvDone
<1>5. ASSUME NEW e \in Ends, AutoDelete(e) \/ Delete(e) PROVE HeardInv'
  <2>1. PICK c : c = ctl[e] OBVIOUS
  <2>2. PICK d : d = [c EXCEPT !.alive = FALSE, !.hSocket = FALSE] OBVIOUS
  <2>3. c \in Ctl BY <2>1 DEF CtlInv
  <2>4. Heard(d) BY <2>2, <2>3 DEF Ctl, Heard
  <2>5. ctl' = [ctl EXCEPT ![e] = d]
    BY <1>5, <2>1, <2>2 DEF AutoDelete, Delete, CtlInv
  <2> QED BY <2>4, <2>5, HeardUpdate
<1>6. CASE Disconnect
  <2>1. PICK d : d = Close(Server, ctl[Server]) OBVIOUS
  <2>2. Server \in Ends BY DEF Ends
  <2>3. ctl[Server] \in Ctl /\ Heard(ctl[Server])
    BY <2>2 DEF CtlInv, HeardInv
  <2>4. Heard(d) BY <2>1, <2>3, CloseHeard DEF Heard
  <2> QED BY <1>6, <2>1, <2>2, <2>4, HeardUpdate DEF Disconnect
<1>7. ASSUME NEW e \in Ends,
             \/ \E sz \in Sizes, flags \in Flags : Send(e, sz, flags)
             \/ \E how \in {"reset", "broken"} : Lose(e, how)
      PROVE  HeardInv'
  BY <1>1, <1>7 DEF Send, Lose
<1>8. CASE UNCHANGED vars BY <1>1, <1>8 DEF vars
<1> QED BY <1>2, <1>3, <1>4, <1>5, <1>6, <1>7, <1>8 DEF Next

(* The safety half of PeerCloseIsNoticed: an end whose socket is closed,   *)
(* whose timer has been stopped or which waits for its deletion has told   *)
(* its application so; until then it goes on polling.                      *)
SilentIsTold ==
  \A e \in Ends :
    ctl[e].alive /\ ctl[e].closes = 0
      => ctl[e].hSocket /\ ~ctl[e].outtaHere /\ ~ctl[e].autoDeleteReq

(* No failure leaves an end alive, unable to read or write, and its        *)
(* application untold.                                                     *)
THEOREM SilentIsToldHolds == Spec => []SilentIsTold
<1>1. Init => HeardInv BY DEF Init, HeardInv, Heard
<1>2. CtlInv /\ HeardInv /\ [Next]_vars => HeardInv' BY HeardNext
<1>3. CtlInv /\ HeardInv => SilentIsTold
  BY DEF CtlInv, Ctl, HeardInv, Heard, SilentIsTold
<1> QED BY <1>1, <1>2, <1>3, FlagsInvariant, PTL DEF Spec
=============================================================================
