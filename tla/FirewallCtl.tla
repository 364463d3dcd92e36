---------------------------- MODULE FirewallCtl ----------------------------
(***************************************************************************)
(* CWindowsFirewallCtl and enableMyPort (WinFirewallTools.cpp): what the   *)
(* answers of the methods are worth when any COM call may fail and when    *)
(* somebody else, another program or the user, changes the firewall        *)
(* between two of them, and which COM references stay behind.              *)
(*                                                                         *)
(* A method runs in steps; op.pc is the place in it.  A step looks at the  *)
(* firewall or changes it at most once.  References that a step gets and   *)
(* releases on all its paths are left out.                                 *)
(***************************************************************************)
EXTENDS Integers

CONSTANTS Apps, Ports,      \* what the firewall has entries for
          MyApp, MyPort,    \* those of enableMyPort
          MaxCalls,         \* bound: calls of methods and of enableMyPort
          Events            \* which of the events in Disturbance may happen

Disturbance == {"fail", "meddle"}

ASSUME ItemsAssumption  == /\ Apps \cap Ports = {}
                           /\ MyApp \in Apps /\ MyPort \in Ports
ASSUME BoundsAssumption == MaxCalls \in Nat /\ Events \subseteq Disturbance

VARIABLES fw,       \* the firewall's entries
          com,      \* CoInitializeEx calls in force in this thread
          ctl,      \* the CWindowsFirewallCtl object
          refs,     \* COM references held: manager, policy, profile
          op,       \* the method that runs
          my,       \* place in enableMyPort, "no" outside it
          meddled,  \* history: somebody else changed the firewall meanwhile
          lost,     \* history: profiles of objects that are never deleted
          left      \* calls left

vars == <<fw, com, ctl, refs, op, my, meddled, lost, left>>

Items    == Apps \cup Ports
Entry    == {"absent", "enabled", "disabled"}
HRESULTs == {"S_OK", "RPC_E_CHANGED_MODE", "E_FAIL"}

Op == [call : {"init", "isEnabled", "add", "disable"},
       item : Items,
       was : Entry,     \* history: the entry when the call was made
       pc : {"idle", "init", "query", "init2", "recheck", "add", "put",
             "done", "crashed"},
       ret : BOOLEAN]

NoCtl  == [alive |-> FALSE, comInit |-> "E_FAIL", profile |-> FALSE]
NewCtl == [NoCtl EXCEPT !.alive = TRUE]

Init ==
  /\ fw \in [Items -> Entry]
  /\ com \in [others : BOOLEAN, ours : {0}]
  /\ ctl = NoCtl
  /\ refs = [mgr |-> 0, policy |-> 0, profile |-> 0]
  /\ op = [call |-> "init", item |-> MyApp, was |-> fw[MyApp],
           pc |-> "idle", ret |-> FALSE]
  /\ my = "no"
  /\ meddled = FALSE /\ lost = 0 /\ left = MaxCalls

-----------------------------------------------------------------------------
(* Operators *)

Call(call, i) == [call |-> call, item |-> i, was |-> fw[i], pc |-> "init",
                  ret |-> FALSE]

Return(ret) == [op EXCEPT !.pc = "done", !.ret = ret]

GoTo(pc) == [op EXCEPT !.pc = pc]

(* Every COM call may fail, and all fail in a thread without COM. *)
Fails == "fail" \in Events

(* What init leaves in m_comInit: it calls CoInitializeEx unless           *)
(* m_comInit is E_FAIL, which it is from the constructor on.               *)
ComInits == IF ctl.comInit = "E_FAIL" THEN {"E_FAIL"} ELSE HRESULTs

(* init and WindowsFirewallInitialize, which on success keeps the manager  *)
(* and the policy; then the method goes on as yes or as no says.  refused: *)
(* CoInitializeEx failed, for another reason than that COM is on already.  *)
InitThen(yes, no) ==
  \E hr \in ComInits :
    LET refused == hr = "E_FAIL" /\ ctl.comInit # "E_FAIL"
        comOn   == com'.others \/ com'.ours > 0
    IN
    /\ com' = IF hr = "S_OK" THEN [com EXCEPT !.ours = @ + 1] ELSE com
    /\ \/ /\ ~refused /\ ctl.profile
          /\ ctl' = [ctl EXCEPT !.comInit = hr]
          /\ op' = yes
          /\ UNCHANGED refs
       \/ /\ ~refused /\ ~ctl.profile /\ comOn
          /\ ctl' = [ctl EXCEPT !.comInit = hr, !.profile = TRUE]
          /\ refs' = [mgr |-> refs.mgr + 1, policy |-> refs.policy + 1,
                      profile |-> refs.profile + 1]
          /\ op' = yes
       \/ /\ refused \/ (~ctl.profile /\ (Fails \/ ~comOn))
          /\ ctl' = [ctl EXCEPT !.comInit = hr]
          /\ op' = no
          /\ UNCHANGED refs

(* Mutant: the profile is forgotten and not released. *)
CleanupForgets(after) ==
  /\ ctl' = after
  /\ com' = IF ctl.comInit = "S_OK" THEN [com EXCEPT !.ours = @ - 1] ELSE com
  /\ UNCHANGED refs

(* Mutant: the profile is released without a look at whether there is one. *)
CleanupAlways(after) ==
  /\ ctl' = after
  /\ com' = com
  /\ refs' = [refs EXCEPT !.profile = @ - 1]

(* cleanup, of an object that is as after says from then on. *)
Cleanup(after) ==
  /\ ctl' = after
  /\ com' = IF ctl.comInit = "S_OK" THEN [com EXCEPT !.ours = @ - 1] ELSE com
  /\ refs' = [refs EXCEPT !.profile = IF ctl.profile THEN @ - 1 ELSE @]

(* Mutant: AddApp and AddPort take a failure for success. *)
AfterCheckTrusting(found) ==
  CASE op.call = "isEnabled"         -> Return(found)
    [] op.call = "add"               -> Return(TRUE)
    [] op.call = "disable" /\ ~found -> Return(TRUE)
    [] op.call = "disable" /\ found  -> GoTo("put")

(* A method goes on after its IsAppEnabled or IsPortEnabled: AddApp calls  *)
(* init once more, AddPort does not; DisableApp and DisablePort are done   *)
(* with what is not enabled, and with what could not be asked.             *)
AfterCheck(found) ==
  CASE op.call = "isEnabled"         -> Return(found)
    [] op.call = "add" /\ found      -> Return(TRUE)
    [] op.call = "add" /\ ~found     -> GoTo(IF op.item \in Apps THEN "init2"
                                             ELSE "recheck")
    [] op.call = "disable" /\ ~found -> Return(TRUE)
    [] op.call = "disable" /\ found  -> GoTo("put")

-----------------------------------------------------------------------------
(* The steps of a method *)

InitStep ==
  /\ op.pc = "init"
  /\ IF op.call = "init" THEN InitThen(Return(TRUE), Return(FALSE))
     ELSE InitThen(GoTo("query"), AfterCheck(FALSE))
  /\ UNCHANGED <<fw, my, meddled, lost, left>>

(* WindowsFirewallAppIsEnabled and WindowsFirewallPortIsEnabled: an entry  *)
(* that is not there counts as not enabled.                                *)
AppIsEnabled(i)  == i \in Apps /\ fw[i] = "enabled"
PortIsEnabled(i) == i \in Ports /\ fw[i] = "enabled"
Found(i)         == AppIsEnabled(i) \/ PortIsEnabled(i)

Query ==
  /\ op.pc = "query"
  /\ \E hr \in {TRUE, ~Fails} : op' = AfterCheck(hr /\ Found(op.item))
  /\ UNCHANGED <<fw, com, ctl, refs, my, meddled, lost, left>>

Init2 ==
  /\ op.pc = "init2"
  /\ InitThen(GoTo("recheck"), Return(FALSE))
  /\ UNCHANGED <<fw, my, meddled, lost, left>>

(* The query at the start of WindowsFirewallAddApp and                     *)
(* WindowsFirewallPortAdd; an Item that fails, for whatever reason, counts *)
(* as no entry, and on a null profile the call ends the program.           *)
Recheck ==
  /\ op.pc = "recheck"
  /\ \/ ~ctl.profile /\ op' = GoTo("crashed")
     \/ ctl.profile /\ Found(op.item) /\ op' = Return(TRUE)
     \/ ctl.profile /\ (Fails \/ ~Found(op.item)) /\ op' = GoTo("add")
     \/ ctl.profile /\ Fails /\ op' = Return(FALSE)
  /\ UNCHANGED <<fw, com, ctl, refs, my, meddled, lost, left>>

(* Mutant: the entry is added before its name is set, which may fail. *)
AddAppFirst ==
  /\ op.pc = "add" /\ op.item \in Apps
  /\ fw' = [fw EXCEPT ![op.item] = "enabled"]
  /\ \E hr \in {TRUE, ~Fails} : op' = Return(hr)
  /\ UNCHANGED <<com, ctl, refs, my, meddled, lost, left>>

(* WindowsFirewallAddApp: a new entry, enabled from the start, is made,    *)
(* named and, last of all, added.                                          *)
AddApp ==
  /\ op.pc = "add" /\ op.item \in Apps
  /\ \/ fw' = [fw EXCEPT ![op.item] = "enabled"] /\ op' = Return(TRUE)
     \/ Fails /\ op' = Return(FALSE) /\ UNCHANGED fw
  /\ UNCHANGED <<com, ctl, refs, my, meddled, lost, left>>

(* WindowsFirewallPortAdd. *)
PortAdd ==
  /\ op.pc = "add" /\ op.item \in Ports
  /\ \/ fw' = [fw EXCEPT ![op.item] = "enabled"] /\ op' = Return(TRUE)
     \/ Fails /\ op' = Return(FALSE) /\ UNCHANGED fw
  /\ UNCHANGED <<com, ctl, refs, my, meddled, lost, left>>

(* What WindowsFirewallDisableApp and WindowsFirewallPortDisable do, for   *)
(* an entry that is there and enabled; they take a failing Item for no     *)
(* entry, which is success.                                                *)
Disable ==
  \/ /\ fw' = [fw EXCEPT ![op.item] = IF @ = "enabled" THEN "disabled" ELSE @]
     /\ op' = Return(TRUE)
  \/ Fails /\ op' \in {Return(TRUE), Return(FALSE)} /\ UNCHANGED fw

DisableApp ==
  /\ op.pc = "put" /\ op.item \in Apps
  /\ Disable
  /\ UNCHANGED <<com, ctl, refs, my, meddled, lost, left>>

PortDisable ==
  /\ op.pc = "put" /\ op.item \in Ports
  /\ Disable
  /\ UNCHANGED <<com, ctl, refs, my, meddled, lost, left>>

-----------------------------------------------------------------------------
(* The callers *)

(* Some code owns an object, calls its methods, and deletes it, and the    *)
(* destructor calls cleanup.                                               *)
Create ==
  /\ my = "no" /\ ~ctl.alive /\ op.pc = "idle"
  /\ ctl' = NewCtl
  /\ UNCHANGED <<fw, com, refs, op, my, meddled, lost, left>>

Begin(call, i) ==
  /\ my = "no" /\ ctl.alive /\ op.pc = "idle" /\ left > 0
  /\ op' = Call(call, i)
  /\ left' = left - 1
  /\ meddled' = FALSE
  /\ UNCHANGED <<fw, com, ctl, refs, my, lost>>

End ==
  /\ my = "no" /\ op.pc = "done"
  /\ op' = GoTo("idle")
  /\ UNCHANGED <<fw, com, ctl, refs, my, meddled, lost, left>>

CallCleanup ==
  /\ my = "no" /\ ctl.alive /\ op.pc = "idle"
  /\ Cleanup([ctl EXCEPT !.profile = FALSE,
                         !.comInit = IF @ = "S_OK" THEN "E_FAIL" ELSE @])
  /\ UNCHANGED <<fw, op, my, meddled, lost, left>>

Delete ==
  /\ my = "no" /\ ctl.alive /\ op.pc = "idle"
  /\ Cleanup(NoCtl)
  /\ UNCHANGED <<fw, op, my, meddled, lost, left>>

(* enableMyPort: the result of init does not matter; the application is    *)
(* looked up, and added if it is not enabled, and then the port.  When an  *)
(* addition fails it returns 0 and does not delete its object.             *)
MyStart ==
  /\ my = "no" /\ ~ctl.alive /\ op.pc = "idle" /\ left > 0
  /\ ctl' = NewCtl
  /\ op' = Call("init", MyApp)
  /\ my' = "init"
  /\ left' = left - 1
  /\ meddled' = FALSE
  /\ UNCHANGED <<fw, com, refs, lost>>

MyGo(place, call, i) ==
  /\ my' = place
  /\ op' = Call(call, i)
  /\ UNCHANGED <<fw, com, ctl, refs, meddled, lost, left>>

(* Mutant: the port is not looked up. *)
MyNextAppOnly ==
  /\ op.pc = "done"
  /\ \/ my = "init" /\ MyGo("app?", "isEnabled", MyApp)
     \/ my = "app?" /\ ~op.ret /\ MyGo("app+", "add", MyApp)
     \/ /\ my \in {"app?", "app+"} /\ op.ret
        /\ my' = "ok" /\ op' = GoTo("idle")
        /\ UNCHANGED <<fw, com, ctl, refs, meddled, lost, left>>

MyNext ==
  /\ op.pc = "done"
  /\ \/ my = "init" /\ MyGo("app?", "isEnabled", MyApp)
     \/ my = "app?" /\ ~op.ret /\ MyGo("app+", "add", MyApp)
     \/ /\ my \in {"app?", "app+"} /\ op.ret
        /\ MyGo("port?", "isEnabled", MyPort)
     \/ my = "port?" /\ ~op.ret /\ MyGo("port+", "add", MyPort)
     \/ /\ my \in {"port?", "port+"} /\ op.ret
        /\ my' = "ok" /\ op' = GoTo("idle")
        /\ UNCHANGED <<fw, com, ctl, refs, meddled, lost, left>>
     \/ /\ my \in {"app+", "port+"} /\ ~op.ret
        /\ my' = "no" /\ op' = GoTo("idle")
        /\ ctl' = NoCtl
        /\ lost' = IF ctl.profile THEN lost + 1 ELSE lost
        /\ UNCHANGED <<fw, com, refs, meddled, left>>

MyEnd ==
  /\ my = "ok"
  /\ Cleanup(NoCtl)
  /\ my' = "no"
  /\ UNCHANGED <<fw, op, meddled, lost, left>>

(* Another program, or the user, changes the firewall during a call. *)
Meddle(i, e) ==
  /\ "meddle" \in Events
  /\ op.pc # "idle" /\ fw[i] # e
  /\ fw' = [fw EXCEPT ![i] = e]
  /\ meddled' = TRUE
  /\ UNCHANGED <<com, ctl, refs, op, my, lost, left>>

Next ==
  \/ InitStep \/ Query \/ Init2 \/ Recheck
  \/ AddApp \/ PortAdd \/ DisableApp \/ PortDisable
  \/ Create \/ End \/ CallCleanup \/ Delete
  \/ \E call \in {"init", "isEnabled", "add", "disable"}, i \in Items :
       Begin(call, i)
  \/ MyStart \/ MyNext \/ MyEnd
  \/ \E i \in Items, e \in Entry : Meddle(i, e)

Spec == Init /\ [][Next]_vars

-----------------------------------------------------------------------------
(* Properties *)

(* Every variable has its type. *)
TypeOK ==
  /\ fw \in [Items -> Entry]
  /\ com \in [others : BOOLEAN, ours : Nat]
  /\ ctl \in [alive : BOOLEAN, comInit : HRESULTs, profile : BOOLEAN]
  /\ refs \in [mgr : Nat, policy : Nat, profile : Nat]
  /\ op \in Op
  /\ my \in {"no", "init", "app?", "app+", "port?", "port+", "ok"}
  /\ meddled \in BOOLEAN /\ lost \in Nat /\ left \in 0..MaxCalls

(* IsAppEnabled, IsPortEnabled, AddApp and AddPort say yes only of what is *)
(* enabled, whatever failed, unless somebody else changed the firewall.    *)
YesIsTrue ==
  /\ op.pc = "done" /\ op.ret /\ ~meddled
  /\ op.call \in {"isEnabled", "add"}
  => fw[op.item] = "enabled"

(* A method that returns 0 has left its entry as it found it: whichever    *)
(* COM call of AddApp, AddPort, DisableApp or DisablePort failed, the one  *)
(* that changes the firewall is the last.                                  *)
NoChangesNothing ==
  op.pc = "done" /\ ~op.ret /\ ~meddled => fw[op.item] = op.was

(* When enableMyPort returns 1 the program and the port are both open,     *)
(* whichever of its ten steps found what.                                  *)
MyPortIsOpen ==
  my = "ok" /\ ~meddled => /\ fw[MyApp] = "enabled"
                           /\ fw[MyPort] = "enabled"

(* The profile is released exactly once for each time init got it; only an *)
(* object that enableMyPort drops keeps its own.                           *)
ProfileAccounted ==
  refs.profile = lost + (IF ctl.profile THEN 1 ELSE 0)

-----------------------------------------------------------------------------
(* What the code's comments and assertions claim *)

(* WinFirewallTools.cpp:1239-1241: DisablePort's return value means "Port  *)
(* has been disabled".                                                     *)
DisabledIsDisabled ==
  op.pc = "done" /\ op.ret /\ ~meddled /\ op.call = "disable"
  => fw[op.item] # "enabled"

(* WinFirewallTools.cpp:787, _ASSERT(fwProfile != NULL). *)
ProfileIsThere == op.pc # "crashed"

(* WinFirewallTools.cpp:129, 135: "Release the local firewall policy.",    *)
(* "Release the firewall settings manager."                                *)
ManagerIsReleased == ~ctl.alive => refs.mgr = 0 /\ refs.policy = 0

(* WinFirewallTools.cpp:1001: "Initialize COM." *)
ComIsInitialized ==
  op.pc = "done" /\ op.call = "init" /\ op.ret => ctl.comInit # "E_FAIL"
=============================================================================
