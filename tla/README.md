# Verification of the Sample Eagle App

TLA+ models, TLC runs and TLAPS proofs for the "Sample Eagle App": two MFC
programs, the GUI and the TCM, that exchange echo messages over TCP through a
small asynchronous client/server library (`src/Ipc_Etc/GenCliSvr2_*`).

## The system

| part | state | operations |
|---|---|---|
| `CMyAsyncSocket` (AsyncSock.cpp) | socket handle, connect/listen in progress, hold-off count | `OnTimer` (one `select` poll: except, read, write event), `Create`, `Listen`, `Accept`, `Connect`, `Close` |
| `CGenCliSvr2_Sock` (Sock.cpp) | linear send buffer (two pointers, pending and free counters), receive buffer (header or body, bytes missing), `m_bConnected`, `m_b_I_Am_So_Outta_Here`, `m_bAutoDeleteReq` | `send`/`send3a`, `DoSend`, `DoRcv`, `OnTimer` (polls for 10 ms, then deletes itself if asked to) |
| `CGenSvr2`, `CClientSock` (Server.cpp) | `m_C[32]`, `m_nClients`, the listening socket; per client index and tag | `StartService`, `OnAccept`, `OnDisconLo`, `disconnect`, `DisconnectAllClients`, `send` to one or all, destructor |
| `CGenClient2` (Client.cpp) | connection begin and timeout, a second `m_bConnected` | `BeginConnection`, `OnConnect` (retry), `OnClose` |
| GUI (`src/Gui`) | `g_client`, `g_bConnected`, `g_bConnectionFailed`, `g_bConnectionInProgress` | start-up connects, a button sends an echo request, a timer watches the flags, Cancel deletes the client |
| TCM (`src/Tcm`) | `g_svr` | start-up starts the service, every echo request is answered in place, Cancel deletes the server |
| ports and hosts (`src/Etc/VibCtlPorts.cpp`, `PrivateProfileStuff.cpp`) | an ini file | get/set accessors, defaults, command line |
| firewall (`src/Ipc_Etc/WinFirewallTools.cpp`) | COM objects | query, add, disable applications and ports; not called in the repository |
| names and arguments (`src/Etc/Fnsplit.cpp`) | none | split, merge, directories, arguments |

Both programs have one thread.  Everything happens in Windows messages: each
socket object has its own 10 ms timer, the dialogs have another, and `OnTimer`
of an object calls the application back (`OnConnection`, `OnRcv`,
`OnDisconnect`, `OnSocketClose`) from inside its polling pass.  The
application may call `send` and `disconnect` from these callbacks and from its
own handlers.  The two processes share nothing but TCP.

What makes it hard: TCP cuts and delays the stream; a pass serves a read event
and then a write event although the read event may have closed the connection;
an object cannot be deleted inside its own timer, so it outlives its slot as a
zombie; a slot is reused while the zombie of its last owner still runs; the two
ways a connection ends (`Close`, and `OnClose` alone after a reset) meet in the
same pass; and the client retries against a time limit.

PROJECT.json lists, under "hazards", each such place with its line and the
properties that watch it.

## Modules

| module | models | lines that matter |
|---|---|---|
| `MsgChannel` | what a connection promises its two users | abstract |
| `GenSock` | one connection, both ends in detail, and TCP | Sock.cpp, Proto.h, `CMyAsyncSocket::OnTimer` |
| `GenSockProofs` | theorems about `GenSock`: accounts, closing, the stream, `MsgChannel` | |
| `ConnRegistry` | what the server promises its application about client ids | abstract |
| `GenServer` | table, listening socket, objects, timers, application, clients | Server.cpp, AsyncSock.cpp, SampleAppSvr.cpp |
| `GenServerProofs`, `NatSteps` | theorems about `GenServer`; from 0 to n in steps of 1, and that recursion over 0..n defines a function | |
| `GenClient` | attempts, retries, verdict, flags of the client and of the GUI | Client.cpp, AsyncSock.cpp, SampleAppClient.cpp, Gui/GuiDlg.cpp |
| `GenClientProofs` | theorems about `GenClient` | |
| `FirewallCtl` | `CWindowsFirewallCtl` and `enableMyPort` | WinFirewallTools.cpp |
| `FirewallCtlProofs` | theorems about `FirewallCtl` | |
| `Paths` | split, merge, suffix, directories, as pure operators | Fnsplit.cpp |
| `PathsProofs` | theorems about `Paths` | |
| `CmdLine` | the arguments, and their precedence over the file; uses `Paths` | Fnsplit.cpp, VibCtlPorts.cpp |
| `CmdLineProofs` | theorems about `CmdLine` | |
| `PortsIni` | processes that share the ini file; uses `Paths` for the file's directories | VibCtlPorts.cpp, PrivateProfileStuff.cpp |
| `PortsIniProofs` | theorems about `PortsIni`, and about what its instance asks of `Paths` and `CmdLine` | |
| `MC*` | the instances that TLC checks | |

"map" in PROJECT.json gives the lines of every definition.

**GenSock.**  `snd` and `rcv` are the buffers with their counters under the
source's names, `ctl` the flags, `wire` and `lost` are TCP.  A process has one
thread, so an end is in its message loop, inside the application's `OnRcv`, or
between the read events and the write event of a pass; `Select`, `RcvDone` and
`Write` are these three stretches of `OnTimer`, and the other process and TCP
may do anything in between.  `Send` is `send` with `send3a`, which only enqueues:
the `DoSend` that `OnSend(0)` calls returns at once without the burst mode, and
the bytes go in the write event of a later pass, `DoSend`.  A byte is its position in the stream of all
that its end enqueued, so a header or a byte taken for another one is seen at
once.  `Disconnect`, `Delete` and `AutoDelete` are the three ways an object
goes.  `frames`, `reported` and `delivered` are history.

**GenServer.**  `svr` is the table `m_C`, `m_nClients`, the objects and the
callbacks made; `listener` the listening socket with its hold-off; `busy` the
place of the thread; `backlog` and `net` are TCP and the clients.  An object is
named by its connection, so an object and its successor in a slot are told
apart, which `m_iParentIdx` alone does not do.  The TCM's echo reply is `AppSend` while
`busy` is in `OnRcv`; `CallerOwnsSlot` is why it goes to the client that asked.

**GenClient.**  `cli` is the `CGenClient2`, `gui` the dialog's globals, `now`
the clock that `m_tConnectionTimeout` is compared with.  `Pass` and `Write` are
the two halves of a polling pass.  `BeginConnection` is made of `Socket`,
`CreateFails`, `Connect` and `ConnectFails`, the last two shared with the
retries of `OnConnectFailed`.  That `CGenClient2::m_bConnected` hides the
member of the base class is kept: they are `bConnected` and `sockConnected`.

**FirewallCtl.**  `op` is the method that runs and `op.pc` its place, a new one
wherever it looks at the firewall or changes it; `my` is the place in
`enableMyPort`; `refs` counts the COM references that outlive a step.
`Meddle` is another program or the user.  With "fail" in `Events` any COM call
may fail at any time.

**PortsIni, Paths, CmdLine.**  Each profile call and each `_tmkdir` is one step, so
the processes interleave between them.  `entry` has what the file says of the
port and of the host, `dirs` which directories exist, `proc` where each process
is in its call.  `Paths` has strings of five kinds of characters; what `strtok`,
`strrchr` and the buffers of `fnsplit` do is said by positions of separators.
In `CmdLine` a keyword is one symbol, for nothing in the code cuts one; what
counts is where the white space, the quotes and the "=" are.

Not every path and not every value is treated as the code's comments say, so two
reference definitions say which are.  `Splittable` paths are those that `fnsplit`
cuts at their last separator and at a dot of the name, if at any: their last
separator is a backslash if any of them is, and their last dot is not inside a
directory's name.  Names without an extension or with a dot at one end, and
directories with dots, are among them.  `Plain` adds that the path begins with a name
or a drive, ends with a name and has single separators.  `Survives` is said
of values without tabs, without spaces at their ends and without a "=" at their
beginning; `ValueIsRead` says that these, *and no others*, come back as they were
written.

## Runs

| run | question | instance |
|---|---|---|
| `GenSock_stream` | framing, order, delivery and the buffer's accounts over TCP that cuts anywhere | 3 messages one way, 1 back, sizes 0 and 1, a buffer of 8 units for frames of 3 and 4, 3 bytes in flight |
| `GenSock_events` | one `OnClose`, silence after it, `MsgChannel` implemented; the end is noticed, the zombie goes | 2 messages and 1; all events; a buffer for one frame; 1 byte in flight; fair |
| `GenServer_table` | table, count, objects; `ConnRegistry` implemented; silent zombies | 3 clients, 2 slots, all events |
| `GenServer_live` | zombies go, departures are told, the backlog drains | 2 clients, 1 slot, hold-off 1, all events, fair |
| `GenClient_all` | one verdict, its order, flags that agree, an end of waiting | timeout 3 of 6 seconds, hold-off 2, 3 messages, all events, fair |
| `FirewallCtl_calls` | what yes, no and 1 are worth; references | 1 application, 2 ports, 3 calls, failures and meddling, every first state of firewall and COM |
| `PortsIni_agree` | processes agree, writes find their directory; path functions and arguments against their definitions | 2 processes, 3 calls, 1 edit, 2 files; all splittable paths of up to 7 characters; values of up to 4 symbols of 7 in every place of a line; all lists of up to 3 of 10 arguments |
| `GenSock_reported`, `GenSock_break`, `GenServer_keepalive`, `GenClient_connected`, `PortsIni_quoted` | fail, see below | |

Every property of a passing run has a mutant in PROJECT.json: a plausible bug
in one definition with which the same run fails.

*Why the bounds are enough.*  Sizes are in units of the 8-byte trailer, so a
header is 2 units, and with 3 bytes in flight a frame never fits TCP: every
header and body is cut at every place.  `GenSock_stream` sends the smallest
bodies (empty ones too) into a buffer for two frames, so it is full, refuses,
gets empty and starts again from its beginning.  In `GenSock_events` one frame
fills it, and a single byte in flight cuts every frame between all of its bytes,
so that every event may come at each of these places; reads of several bytes are in
`GenSock_stream`.  Two slots and three clients let a client come into the slot of a
zombie while another slot is taken; a successor of a successor would meet only
one more zombie, and zombies do not meet each other.  `GenServer_live` has one
slot, so the second client always waits.  In `GenClient_all` the clock passes
the limit while attempts and the hold-off are still under way.  Three calls are
enough for every method after every other, and an `enableMyPort` with all of
its five; two ports, for one that is not asked about.  In `PortsIni`, the third
call is the look at what two racing calls left.  Seven characters are a drive,
two separators, a name and an extension with something to spare.  Three
arguments are one that is looked for, one that could hide it and one between
them, in every order.
`MaxSends`, `MaxIn`, `MaxTime`, `MaxCalls`, `MaxEdits` and `MaxLen` are
bounds of the models and not of the code; deadlock is not checked because at
these bounds, or after deletion, the models rightly stop.

*Fairness.*  An object's timer fires every 10 ms while the object exists and a
pass runs to its end; `OnRcv` returns; the dialog's timer fires; an attempt to
connect ends one way or another; time passes.  Only this is assumed.  Weak
fairness is enough where nothing else of the same thread can turn the step off
in the meantime.  In `GenServer` all timers share a thread, so each is disabled
whenever another one runs, and is strongly fair: Windows serves the timers
in turn.  Nobody is forced to send, to leave or to click, and no `select` need
fail, no connection break.

## What the runs say against the code

Five runs violate what the code's own comments say ("findings"):

* `GenSock_reported`: `send3a` refuses with -1 as a `size_t`; `send` tests
  `iret <= 0` (Sock.cpp:415) and reports the whole size of a message that is
  dropped.
* `GenSock_break`: `DoRcv` knows two errors of `recv` (Sock.cpp:291-316); after
  any other, such as that of a failed keepalive, a connection that has nothing
  to send is polled for ever and keeps its slot.
* `GenServer_keepalive`: `OnAccept` sets the keepalive options on its own
  socket, the listening one, after the accept (Server.cpp:389-401).  The first
  client has none; later ones may inherit them from the listening socket.
* `GenClient_connected`: a pass that sees the connection made and already reset
  calls `OnClose` and then `OnConnect(0)`; the client and the GUI believe in a
  connection that no timer serves any more.
* `PortsIni_quoted`: of a value in quotes `strArgGiven` trims the spaces next to the
  quotes (Fnsplit.cpp:491-493), and it cuts the value at a tab, which the quotes do
  not protect (453-457, 471).  Its comment says "strip the quotes and preserve the
  whitespace" (423).

Some definitions state further claims that fail; they are in the modules, under
"What the code's comments claim", but in no run.  Their counterexamples:

* `FirewallCtl!DisabledIsDisabled`: `DisableApp` and `DisablePort` return 1,
  "has been disabled" (1239-1243), when their look-up failed (1140, 1189), or
  the item could not be got.
* `FirewallCtl!ProfileIsThere`: `AddPort` ignores that its look-up failed for
  want of a profile and uses the null pointer (1171-1179), which
  `_ASSERT(fwProfile != NULL)` (787) denies.  `AddApp` looks first (1107).
* `FirewallCtl!ManagerIsReleased`: `WindowsFirewallInitialize` returns at 125,
  before it releases the manager and the policy (129, 135): each successful
  init leaves one reference of each.
* `FirewallCtl!ComIsInitialized`: the test at 1002 is the wrong way round, so
  "Initialize COM" (1001) never happens and every method depends on its caller
  having done so.  `ComStaysOff` proves it.
* `PortsIni!SetPortTakes`: `accPortAny` passes FALSE for `bSet`
  (VibCtlPorts.cpp:146), so that setting a port only adds a missing entry.
* `Paths!UpperDirsAreMade`: of a path that is not `Splittable`, such as `.a/a` or
  `a\a/a.a`, `fnsplit` cuts elsewhere than `strtok` does (Fnsplit.cpp:41), and
  `makeDirAndUpperDirs` may leave out a directory.
* The command line, outside what `ValuesAreAlwaysRead` and `PrecedenceHolds`
  say.  The latter has the file give way to every argument, but not any argument
  to another: an empty `/Host=` hides `/Localhost` and leaves the host to the file, and
  so does `/Hostname` when `gethostname` fails (VibCtlPorts.cpp:284);
  `/Port=0` cannot be told from no port; `ArgGiven` finds a keyword inside
  quotes and misses one that a tab follows (Fnsplit.cpp:441); the second search
  of `iArgGiven` finds nothing that the first one missed, and would search the
  process's own command line instead of the one it was given (Fnsplit.cpp:378), which
  is the same for the callers here.

Seen while modelling and stated by no property: the two applications call
`getVibCtlHost` and `getVibControllerPort` and not the `Ex` versions that look at
the command line; the default that a get found
missing is written without another look (PrivateProfileStuff.cpp:95), so it may
undo a set of the other process, which `GetsAgree` treats as a change; the
server's constructor sets its own timer although Server.h:30-33 says that the
application must call `OnTimer`; the default hosts of the units 1 to 3
(192.168.2.300 and up) are no addresses; `disconnect` enqueues a notice and
then closes the socket with the notice still in the buffer (Server.cpp:541).

## Proofs

Every property of a passing run that is not about liveness is a theorem.  Of most
liveness properties a safety half is proved: the state that would make the
system wait for ever, named and excluded.

| theorem | excludes, for the liveness property |
|---|---|
| `GenSockProofs!DrainedIsDeliveredHolds` | a message that is in no buffer and not delivered (`EnqueuedIsDelivered`) |
| `GenSockProofs!SilentIsToldHolds` | an end that no longer reads or writes and has told nobody (`PeerCloseIsNoticed`) |
| `GenSockProofs!SendAccountingHolds` | a drained buffer whose space was not taken back (`SendBufferDrains`) |
| `GenServerProofs!StoppedIsDeletedHolds` | an object whose timer is stopped before it deleted itself (`ZombieIsDeleted`) |
| `GenServerProofs!CallbacksArePairedHolds` | a client that left the table unreported (`DisconnectIsTold`) |
| `GenClientProofs!AwaitedHolds` | a client that waits for a callback which nothing can cause (`VerdictComes`) |

**`GenSockProofs`**, for all sizes of header, trailer and messages, all bounds
and events, and however TCP cuts:

* `SendAccountingHolds`.  The accounts alone are not inductive.  `SndInv` adds
  the types, that a frame fits, and that every used place of the buffer holds a
  byte that was enqueued; `Enqueue` and the progress of `DoSend` are lemmas
  about one buffer, and `Next` has a step for each action.
* `ClosedOnceHolds`.  `OnClose` may run twice in a pass.  `CtlInv` adds why the
  second one is not told: an application that was told has its end marked
  (`m_b_I_Am_So_Outta_Here` of a client, `m_bAutoDeleteReq` of a server's
  object), a marked end that still has a handle has lost its connection, and
  the write event is served only while there is a handle.
* `TypeOKHolds`, `FramingIntactHolds`, `DeliveredInOrderHolds`,
  `SilentAfterCloseHolds` and `ImplementsChannelHolds`.  `StreamInv` is what they
  need: what an end's peer has taken, what is on the wire and what waits in the
  send buffer are consecutive stretches of the frames it enqueued (`SendSide`,
  `RcvSide`), and the receive buffer is the beginning of the frame at which the
  first stretch ends, as far as the counters say.  Enqueueing lengthens the
  stream, sending and receiving move its borders, nothing else touches it.
  Every step then `Accepts`, `Delivers`, is an `Ending` or is quiet, which are
  the three steps of `MsgChannel` and a stutter.
* `DrainedIsDeliveredHolds`.  With the two later stretches empty, what was taken
  ends where the frames end.  A receive buffer that held a whole frame without
  handing it over would be in the way; `AskingInv` says that outside `OnRcv` an
  end that has read a header still asks for bytes.
* `SilentIsToldHolds`.  `HeardInv` follows the flags of one end through `OnClose`,
  `Close` and the rest of the pass.

**`GenServerProofs`**, for all numbers of clients and slots, backlogs, hold-offs,
bounds and events:

* `TypeOKHolds`, `ClientCountHolds`, `SlotsConsistentHolds`, `CallerOwnsSlotHolds`.
  `SInv` is about the server alone (types, the table, the count, nothing left of
  a deleted server), so that it can be carried through `OnDisconLo`, `Close` and
  `Disconnect` as they are applied to one another.  `IInv` adds where the thread
  may be (`Inside`), that an object with a handle is in the table or has the
  thread, that connections not accepted yet have no object, and that the backlog
  has no duplicates.  `DisconnectAllClients` is a recursive function over the
  slots; `NatSteps` gets from one slot to all of them with the least natural
  number for which a claim could fail, without an induction over operators.
* `ZombieIsSilentHolds`, `ImplementsRegistryHolds`, `CallbacksArePairedHolds`.
  Every step is of a `Kind` that says which callbacks it made; silence, the
  refinement and the pairs follow from the kinds.  The pairs also need that a
  deleted server stays deleted (`DeadStays`): the clients in its table are never
  reported as gone.
* `StoppedIsDeletedHolds`.  `DoSend` stops an object's timer and then closes it,
  and only the end of the same pass deletes it.  No disconnecting, of whatever
  object, deletes or stops one (`Held`), so `Lingers` is inductive: what is
  stopped has the thread at the end of its pass; and it is in no slot, hence has
  been asked to delete itself.
* `NoHandleLeaksHolds` is read off `IInv` where the thread is in its message loop.

**`GenClientProofs`**, for all time limits, hold-offs, bounds and events:

* `TypeOKHolds`, `OneVerdictHolds`, `ConnectedBeforeRcvHolds`, `GuiAgreesHolds`.
  They hold each other up, with four conjuncts more: `Fresh` (before the dialog
  opens there is nothing), `Outstanding` (an attempt is in progress exactly while
  no verdict was given, but for what a failed retry leaves of
  `m_bConnectInProgress`, to which no event can come any more), `Eventful` (what
  TCP reports, and the write event, are about a connection) and `FirstHeader` (the
  pass that reads the first header goes on to tell of the connection, before the
  body can be read).  `ToldStep` is the step of every way to `OnClose`; `Pass` has
  a lemma for each event.
* `ToldOnceHolds`, `SilentAtTheEndHolds` and `AwaitedHolds` sort the steps by what
  they do to the callbacks (`NextEffect`): begin, tell of a connection, tell of a
  failure, close, go on, end.  `EndInv` ties `m_b_I_Am_So_Outta_Here` to the call
  of `OnSocketClose`; the one callback that can follow it, the late
  `OnConnection` of `GenClient_connected`, needs a reset in the same pass.
* `ConnectedIsOpenHolds`: without resets `bIsConnected` is what its comment says,
  so that the counterexample of `GenClient_connected` is the only kind there is.

**`FirewallCtlProofs`**, for all applications, ports, bounds and events:

* `TypeOKHolds`, `YesIsTrueHolds`, `NoChangesNothingHolds`, `MyPortIsOpenHolds`,
  `ProfileAccountedHolds` and `ComStaysOff`.  None of them is inductive: that a
  no has changed nothing needs `Untouched` (until its last step a method leaves
  its entry as it was when it was called), that enableMyPort's 1 is true needs
  `MyPlace` (what each of its five calls is about and what the ones before have
  established), and the references need that `m_comInit` stays what the
  constructor made it.  `IInv` is all of these; the actions are grouped by what
  they can disturb, with `Advance` for a method's step that changes nothing.
* `DisabledHolds` and `ProfileHolds` are about two claims that fail (see above).
  Where COM is on in the thread and no COM call fails (`Fails` is about the
  constant `Events`), they are true: `Equipped` says that a method past its init
  has its profile, `Harmless` what each step may do.  A call that fails, or a
  thread without COM, is thus what every counterexample needs.

**`PathsProofs`**, for paths of any length: `fnsplit` (on every splittable path, with
an extension or without, `SplitHolds`), `fnmerge`, `fnSetSuffix` and
`makeDirAndUpperDirs` (on every plain path of a file, `MergeHolds`, `SuffixHolds`,
`DirsHold`) do what their definitions by components say.  The last separator
and the last dot exist because a bounded set of numbers has a greatest element;
where they are determines the parts.

**`CmdLineProofs`**, for arguments of every number, order and length:

* `ValueIsAlwaysRead`: `ValueIsRead` for every value and whatever stands before and
  behind the argument, as long as its quotes are closed (`Even`) and the keyword
  does not occur in it (`IsOther`).  A keyword, which begins at a blank or at the
  beginning, is found in the joined line where it is found in the parts; behind
  closed quotes nothing before counts; the value ends at the first tab, or space
  outside quotes.  What is left is trimmed (`Cleaned`), which gives the value back
  exactly if it survives (`CleanedBare`, `CleanedQuoted`); a value with a tab is
  read without what is behind the tab (`TabbedHostIsNotRead`).
* `PrecedenceIsKept`: `ArgsHavePrecedence` for every list of arguments in any number
  and order: hosts bare or quoted that survive and are not empty, ports in digits and not 0, flags,
  or other words, none with a tab or with a keyword other than its own (`IsArg`).
  `FindFinds` says where the search for a keyword in the whole line ends up: at the
  first argument that has it.
* The recursive functions (`LineOf`, `Atoi`) exist by `NatSteps!RecursionExists` and
  are followed position by position.

**`PortsIniProofs`**, for all processes, bounds and every plain path of a file in
a directory: `WriteSucceedsHolds`, `GotIsInFileHolds` and `GetsAgreeHolds`.  What
they need of each process in a call is `CallOK`: it makes the directories shortest
first, so those not made yet are the ones it still has to do (`DirsMade`), it
remembers what it was called for (`OpKept`), and what it saw missing can only
have become the default meanwhile if nobody sets or edits (`SeesEntry`).  The
properties of the path functions and of the arguments that `PortsIni_agree`
checks follow from `PathsProofs` and `CmdLineProofs` (`SplitIsAlwaysRightHolds`,
`MergeAlwaysInvertsHolds`, `SuffixIsAlwaysReplacedHolds`,
`DirsAreAlwaysRightHolds`, `ValuesAreAlwaysReadHolds`, `PrecedenceAlwaysHolds`): they
hold for every `MaxLen`.

The proofs assume only the named ASSUMEs of the modules, and `DisabledHolds`,
`ProfileHolds` and `ConnectedIsOpenHolds` what their statements say of `Events`.
The ASSUME of `PortsIni` on the path is one on a constant of the program: the name
of a file in a directory; that of `MCPortsIni` says that `MaxLen` is a number.
The inductive invariants, and the properties that only a theorem states, also
hold in TLC's instances.

Model-checked only: liveness, which needs fairness and ENABLED and is beyond the
prover.  For `BacklogDrains`, `ProgressEnds` and the `ZombieIsDeleted` of `GenSock`
no safety half is stated: there the only thing that could go wrong is that an
enabled step is never taken.

## What the models take for granted

* `msg()`, which runs between a failing `recv` and `GetLastError`, does not
  replace the error (Sock.cpp:260).
* The tag that `OnConnection` returns is the same for all clients, as in this
  application, so `OnDisconLo`'s comparison succeeds.
* The callbacks do what those of the two applications do; they do not call
  `disconnect`, and delete nothing.
* Adding an application or a port to the firewall enables it.
* Nobody removes directories.
* One profile call is atomic, as Windows promises.

## Not modelled

* Message boxes, logging, `StringEx`, tables of error names
  (`msg.cpp`, `WinSockErrors.cpp`, `VibCtl_Proto_Etc.cpp`, `AppSpt.cpp`): output
  only.
* The MFC boilerplate, resources, installers and build files.
* The second protocol, the burst mode of `DoSend` and the scratch copy of what
  `DoRcv` received: dead code and diagnostics.
* `WindowsFirewallIsOn`, `TurnOn`, `TurnOff` and the firewall demo: no method
  of the class calls them.
* The other profile accessors, which repeat the modelled one with other
  conversions, and the hexadecimal `xArgGiven`.
* The contents of the echo messages and the texts of the dialogs.
* Callbacks that call the server back from `OnDisconnect`: no callback of this
  repository does, and the modules would need a place of the thread for it.
* Paths that begin with a separator, and the wrappers of system calls.

## Plan

Done: all modules, runs and proofs above.

A next step, in this order:

1. Callbacks that call `disconnect` (Server.cpp:503).
2. Theorems about where the other claims that fail do hold: `PortsIni!SetPortTakes`
   for an entry that is there, `Paths!UpperDirsAreMade` for a splittable path.
