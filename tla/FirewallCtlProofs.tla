------------------------- MODULE FirewallCtlProofs -------------------------
(***************************************************************************)
(* Proofs about FirewallCtl, for all applications, ports, bounds and       *)
(* events.  The invariant has two halves: ResInv is about the object and   *)
(* its references, CallInv about the method that runs and the firewall.    *)
(***************************************************************************)
EXTENDS FirewallCtl, TLAPS

Running == {"init", "query", "init2", "recheck", "add", "put"}

(* m_comInit never leaves the E_FAIL of the constructor, so no call of     *)
(* CoInitializeEx or CoUninitialize is ever made.                          *)
ResInv ==
  /\ com \in [others : BOOLEAN, ours : {0}]
  /\ ctl \in [alive : BOOLEAN, comInit : {"E_FAIL"}, profile : BOOLEAN]
  /\ refs \in [mgr : Nat, policy : Nat, profile : Nat]
  /\ lost \in Nat
  /\ ctl.profile => ctl.alive
  /\ ProfileAccounted

CallTypeOK ==
  /\ fw \in [Items -> Entry]
  /\ op \in Op
  /\ my \in {"no", "init", "app?", "app+", "port?", "port+", "ok"}
  /\ meddled \in BOOLEAN
  /\ left \in 0..MaxCalls

(* Where the method of a call can be. *)
Places(call) ==
  CASE call = "init"      -> {"init"}
    [] call = "isEnabled" -> {"init", "query"}
    [] call = "add"       -> {"init", "query", "init2", "recheck", "add",
                              "crashed"}
    [] call = "disable"   -> {"init", "query", "put"}

CallPlace == op.pc \in Places(op.call) \cup {"idle", "done"}

(* Until its last step a method leaves its entry alone. *)
Untouched == op.pc \in Running /\ ~meddled => fw[op.item] = op.was

(* What enableMyPort is asking, and what it knows by then. *)
MyPlace ==
  /\ my = "init" => op.call = "init"
  /\ my = "app?" => op.call = "isEnabled" /\ op.item = MyApp
  /\ my = "app+" => op.call = "add" /\ op.item = MyApp
  /\ my = "port?" => op.call = "isEnabled" /\ op.item = MyPort
  /\ my = "port+" => op.call = "add" /\ op.item = MyPort
  /\ my = "ok" => op.pc = "idle"
  /\ my \in {"port?", "port+", "ok"} /\ ~meddled => fw[MyApp] = "enabled"
  /\ MyPortIsOpen

CallInv ==
  /\ CallTypeOK /\ CallPlace
  /\ Untouched /\ YesIsTrue /\ NoChangesNothing /\ MyPlace

-----------------------------------------------------------------------------
(* Lemmas *)

(* The results of the operators that move a method on. *)
LEMMA OpFacts ==
  ASSUME CallTypeOK,
         NEW pc \in Running \cup {"idle", "crashed"}, NEW ret \in BOOLEAN
  PROVE  /\ GoTo(pc) \in Op /\ Return(ret) \in Op
         /\ GoTo(pc).pc = pc /\ GoTo(pc).call = op.call
         /\ GoTo(pc).item = op.item /\ GoTo(pc).was = op.was
         /\ Return(ret).pc = "done" /\ Return(ret).ret = ret
         /\ Return(ret).call = op.call /\ Return(ret).item = op.item
         /\ Return(ret).was = op.was
BY DEF CallTypeOK, Op, GoTo, Return, Running

(* The last places belong to one kind of call. *)
LEMMA CallPlaceFacts ==
  ASSUME CallTypeOK, CallPlace
  PROVE  /\ op.pc \in {"init2", "recheck", "add"} => op.call = "add"
         /\ op.pc = "put" => op.call = "disable"
         /\ op.pc = "query" => op.call # "init"
<1>1. op.call \in {"init", "isEnabled", "add", "disable"}
  BY DEF CallTypeOK, Op
<1> QED BY <1>1 DEF CallPlace, Places

(* A step of a method that leaves the firewall as it is keeps CallInv if a *)
(* yes is given only for what is enabled.                                  *)
LEMMA Advance ==
  ASSUME CallInv, op.pc \in Running, UNCHANGED <<fw, my, meddled, left>>,
         \/ \E pc \in Places(op.call) : op' = GoTo(pc)
         \/ op' = Return(FALSE)
         \/ /\ op' = Return(TRUE)
            /\ op.call \in {"isEnabled", "add"} => fw[op.item] = "enabled"
  PROVE  CallInv'
<1>1. CallTypeOK BY DEF CallInv
<1>2. my # "ok" BY DEF CallInv, MyPlace, Running
<1>3. CASE \E pc \in Places(op.call) : op' = GoTo(pc)
  <2>1. PICK pc \in Places(op.call) : op' = GoTo(pc) BY <1>3
  <2>2. op.call \in {"init", "isEnabled", "add", "disable"}
    BY <1>1 DEF CallTypeOK, Op
  <2>3. pc \in Running \cup {"crashed"} BY <2>2 DEF Places, Running
  <2>4. /\ op' \in Op /\ op'.pc = pc /\ op'.call = op.call
        /\ op'.item = op.item /\ op'.was = op.was
    BY <1>1, <2>1, <2>3, OpFacts
  <2>5. op'.pc # "done" BY <2>3, <2>4 DEF Running
  <2> QED BY <1>1, <1>2, <2>4, <2>5
          DEF CallInv, CallTypeOK, CallPlace, Untouched, YesIsTrue,
              NoChangesNothing, MyPlace, MyPortIsOpen
<1>4. CASE op' = Return(FALSE)
  <2>1. /\ op' \in Op /\ op'.pc = "done" /\ op'.call = op.call
        /\ op'.item = op.item /\ op'.was = op.was /\ ~op'.ret
    BY <1>1, <1>4, OpFacts
  <2> QED BY <1>1, <1>2, <2>1
          DEF CallInv, CallTypeOK, CallPlace, Untouched, YesIsTrue,
              NoChangesNothing, MyPlace, MyPortIsOpen, Running
<1>5. CASE /\ op' = Return(TRUE)
           /\ op.call \in {"isEnabled", "add"} => fw[op.item] = "enabled"
  <2>1. /\ op' \in Op /\ op'.pc = "done" /\ op'.call = op.call
        /\ op'.item = op.item /\ op'.was = op.was /\ op'.ret
    BY <1>1, <1>5, OpFacts
  <2> QED BY <1>1, <1>2, <1>5, <2>1
          DEF CallInv, CallTypeOK, CallPlace, Untouched, YesIsTrue,
              NoChangesNothing, MyPlace, MyPortIsOpen, Running
<1> QED BY <1>3, <1>4, <1>5

(* A method goes on after its lookup without a lie. *)
LEMMA AfterCheckFacts ==
  ASSUME CallTypeOK, op.call # "init",
         NEW found \in BOOLEAN, found => fw[op.item] = "enabled"
  PROVE  \/ \E pc \in Places(op.call) : AfterCheck(found) = GoTo(pc)
         \/ AfterCheck(found) = Return(FALSE)
         \/ /\ AfterCheck(found) = Return(TRUE)
            /\ op.call \in {"isEnabled", "add"} => fw[op.item] = "enabled"
<1>1. op.call \in {"isEnabled", "add", "disable"} BY DEF CallTypeOK, Op
<1>2. CASE op.call = "isEnabled" BY <1>2 DEF AfterCheck
<1>3. CASE op.call = "add" BY <1>3 DEF AfterCheck, Places
<1>4. CASE op.call = "disable" BY <1>4 DEF AfterCheck, Places
<1> QED BY <1>1, <1>2, <1>3, <1>4

(* init keeps the object's half of the invariant, and chooses. *)
LEMMA InitThenFacts ==
  ASSUME ResInv, ctl.alive, UNCHANGED lost,
         NEW STATE yes, NEW STATE no, InitThen(yes, no)
  PROVE  ResInv' /\ ctl'.alive /\ op' \in {yes, no}
<1>1. ctl.comInit = "E_FAIL" /\ ComInits = {"E_FAIL"} BY DEF ResInv, ComInits
<1>2. com' = com BY <1>1 DEF InitThen
<1>3. CASE /\ ctl.profile /\ ctl' = [ctl EXCEPT !.comInit = "E_FAIL"]
           /\ op' = yes /\ UNCHANGED refs
  BY <1>2, <1>3 DEF ResInv, ProfileAccounted
<1>4. CASE /\ ~ctl.profile
           /\ ctl' = [ctl EXCEPT !.comInit = "E_FAIL", !.profile = TRUE]
           /\ refs' = [mgr |-> refs.mgr + 1, policy |-> refs.policy + 1,
                       profile |-> refs.profile + 1]
           /\ op' = yes
  <2>1. PICK c : c = [ctl EXCEPT !.comInit = "E_FAIL"] OBVIOUS
  <2>2. c \in [alive : BOOLEAN, comInit : {"E_FAIL"}, profile : BOOLEAN]
    BY <2>1 DEF ResInv
  <2>3. ctl' = [c EXCEPT !.profile = TRUE] BY <1>4, <2>1, Zenon
  <2>4. /\ ctl' \in [alive : BOOLEAN, comInit : {"E_FAIL"}, profile : BOOLEAN]
        /\ ctl'.profile = TRUE /\ ctl'.alive = ctl.alive
    BY <2>1, <2>2, <2>3 DEF ResInv
  <2>5. refs' \in [mgr : Nat, policy : Nat, profile : Nat]
    BY <1>4 DEF ResInv
  <2>6. refs'.profile = refs.profile + 1 BY <1>4
  <2> QED BY <1>2, <1>4, <2>4, <2>5, <2>6 DEF ResInv, ProfileAccounted
<1>5. CASE /\ ~ctl.profile /\ ctl' = [ctl EXCEPT !.comInit = "E_FAIL"]
           /\ op' = no /\ UNCHANGED refs
  BY <1>2, <1>5 DEF ResInv, ProfileAccounted
<1> QED BY <1>1, <1>3, <1>4, <1>5 DEF InitThen

(* cleanup releases the profile that the object has, if any. *)
LEMMA CleanupFacts ==
  ASSUME ResInv, UNCHANGED lost, NEW STATE after, Cleanup(after),
         after \in [alive : BOOLEAN, comInit : {"E_FAIL"}, profile : {FALSE}]
  PROVE  ResInv'
<1>1. ctl' \in [alive : BOOLEAN, comInit : {"E_FAIL"}, profile : {FALSE}]
  BY DEF Cleanup
<1>2. com' = com BY DEF Cleanup, ResInv
<1>3. /\ refs' \in [mgr : Nat, policy : Nat, profile : Nat]
      /\ refs'.profile = lost
  <2>1. CASE ctl.profile
    <3>1. refs' = [refs EXCEPT !.profile = refs.profile - 1]
      BY <2>1 DEF Cleanup
    <3> QED BY <2>1, <3>1 DEF ResInv, ProfileAccounted
  <2>2. CASE ~ctl.profile
    <3>1. refs' = [refs EXCEPT !.profile = refs.profile]
      BY <2>2 DEF Cleanup
    <3> QED BY <2>2, <3>1 DEF ResInv, ProfileAccounted
  <2> QED BY <2>1, <2>2
<1>4. /\ ctl'.profile = FALSE
      /\ ctl' \in [alive : BOOLEAN, comInit : {"E_FAIL"}, profile : BOOLEAN]
  BY <1>1
<1>5. lost' \in Nat /\ refs'.profile = lost' BY <1>3 DEF ResInv
<1>6. ProfileAccounted' BY <1>4, <1>5 DEF ProfileAccounted, ResInv
<1> QED BY <1>2, <1>3, <1>4, <1>5, <1>6 DEF ResInv

-----------------------------------------------------------------------------
(* The invariant *)

(* Methods run on an object that is there. *)
Alive == op.pc # "idle" \/ my # "no" => ctl.alive

IInv == ResInv /\ CallInv /\ Alive

(* The invariant holds at the start. *)
LEMMA InitIInv == ASSUME Init PROVE IInv
<1>1. ResInv BY DEF Init, ResInv, ProfileAccounted, NoCtl
<1>2. op \in Op /\ op.pc = "idle"
  BY ItemsAssumption DEF Init, Op, Items
<1>3. CallTypeOK
  <2>1. left \in 0..MaxCalls BY BoundsAssumption DEF Init
  <2>2. fw \in [Items -> Entry] /\ meddled \in BOOLEAN /\ my = "no"
    BY DEF Init
  <2> QED BY <1>2, <2>1, <2>2 DEF CallTypeOK
<1>4. CallPlace /\ Untouched /\ YesIsTrue /\ NoChangesNothing
  BY <1>2 DEF CallPlace, Untouched, YesIsTrue, NoChangesNothing, Running
<1>5. MyPlace BY DEF Init, MyPlace, MyPortIsOpen
<1>6. Alive BY <1>2 DEF Init, Alive
<1> QED BY <1>1, <1>3, <1>4, <1>5, <1>6 DEF IInv, CallInv

(* The steps of a method that only look. *)
LEMMA LookingSteps ==
  ASSUME IInv, InitStep \/ Query \/ Init2 \/ Recheck
  PROVE  IInv'
<1> USE DEF IInv
<1>1. CallTypeOK BY DEF CallInv
<1> SUFFICES ResInv' /\ CallInv' /\ ctl'.alive BY DEF Alive
<1>0. ctl.alive BY DEF Alive, InitStep, Query, Init2, Recheck
<1>2. CASE InitStep
  <2>1. op.pc \in Running BY <1>2 DEF InitStep, Running
  <2>2. CASE op.call = "init" /\ InitThen(Return(TRUE), Return(FALSE))
    <3>1. ResInv' /\ ctl'.alive /\ op' \in {Return(TRUE), Return(FALSE)}
      BY <1>0, <1>2, <2>2, InitThenFacts DEF InitStep
    <3> QED BY <1>2, <2>1, <2>2, <3>1, Advance DEF InitStep
  <2>3. CASE op.call # "init" /\ InitThen(GoTo("query"), AfterCheck(FALSE))
    <3>1. ResInv' /\ ctl'.alive /\ op' \in {GoTo("query"), AfterCheck(FALSE)}
      BY <1>0, <1>2, <2>3, InitThenFacts DEF InitStep
    <3>2. CASE op' = GoTo("query")
      <4>1. op.call \in {"isEnabled", "add", "disable"}
        BY <1>1, <2>3 DEF CallTypeOK, Op
      <4>2. "query" \in Places(op.call) BY <4>1 DEF Places
      <4> QED BY <1>2, <2>1, <3>1, <3>2, <4>2, Advance DEF InitStep
    <3>3. CASE op' = AfterCheck(FALSE)
      <4>1. \/ \E pc \in Places(op.call) : op' = GoTo(pc)
            \/ op' = Return(FALSE)
            \/ /\ op' = Return(TRUE)
               /\ op.call \in {"isEnabled", "add"} => fw[op.item] = "enabled"
        BY <1>1, <2>3, <3>3, AfterCheckFacts
      <4> QED BY <1>2, <2>1, <3>1, <4>1, Advance DEF InitStep
    <3> QED BY <3>1, <3>2, <3>3
  <2> QED BY <1>2, <2>2, <2>3 DEF InitStep
<1>3. CASE Query
  <2>1. op.pc \in Running /\ UNCHANGED <<com, ctl, refs, lost>>
    BY <1>3 DEF Query, Running
  <2>2. PICK hr \in {TRUE, ~Fails} : op' = AfterCheck(hr /\ Found(op.item))
    BY <1>3 DEF Query
  <2>3. Found(op.item) => fw[op.item] = "enabled"
    BY DEF Found, AppIsEnabled, PortIsEnabled
  <2>4. \E found \in BOOLEAN :
          op' = AfterCheck(found) /\ (found => fw[op.item] = "enabled")
    BY <2>2, <2>3
  <2>5. PICK found \in BOOLEAN :
          op' = AfterCheck(found) /\ (found => fw[op.item] = "enabled")
    BY <2>4
  <2>6. op.call # "init"
    BY <1>3, CallPlaceFacts DEF Query, CallInv
  <2>7. \/ \E pc \in Places(op.call) : op' = GoTo(pc)
        \/ op' = Return(FALSE)
        \/ /\ op' = Return(TRUE)
           /\ op.call \in {"isEnabled", "add"} => fw[op.item] = "enabled"
    BY <1>1, <2>5, <2>6, AfterCheckFacts
  <2> QED BY <1>0, <1>3, <2>1, <2>7, Advance DEF Query, ResInv, ProfileAccounted
<1>4. CASE Init2
  <2>1. op.pc \in Running BY <1>4 DEF Init2, Running
  <2>2. ResInv' /\ ctl'.alive /\ op' \in {GoTo("recheck"), Return(FALSE)}
    BY <1>0, <1>4, InitThenFacts DEF Init2
  <2>3. op.call = "add" BY <1>4, CallPlaceFacts DEF Init2, CallInv
  <2>4. "recheck" \in Places(op.call) BY <2>3 DEF Places
  <2> QED BY <1>4, <2>1, <2>2, <2>4, Advance DEF Init2
<1>5. CASE Recheck
  <2>1. op.pc \in Running /\ ResInv'
    BY <1>5 DEF Recheck, Running, ResInv, ProfileAccounted
  <2>2. Found(op.item) => fw[op.item] = "enabled"
    BY DEF Found, AppIsEnabled, PortIsEnabled
  <2>3. {"add", "crashed"} \subseteq Places(op.call)
    BY <1>5, CallPlaceFacts DEF Recheck, CallInv, Places
  <2>4. \/ \E pc \in Places(op.call) : op' = GoTo(pc)
        \/ op' = Return(FALSE)
        \/ /\ op' = Return(TRUE)
           /\ op.call \in {"isEnabled", "add"} => fw[op.item] = "enabled"
    BY <1>5, <2>2, <2>3 DEF Recheck
  <2> QED BY <1>0, <1>5, <2>1, <2>4, Advance DEF Recheck
<1> QED BY <1>2, <1>3, <1>4, <1>5

(* The steps that change the firewall. *)
LEMMA ChangingSteps ==
  ASSUME IInv, AddApp \/ PortAdd \/ DisableApp \/ PortDisable
  PROVE  IInv'
<1> USE DEF IInv
<1>1. CallTypeOK /\ CallPlace BY DEF CallInv
<1>2. op.item \in Items /\ op \in Op BY <1>1 DEF CallTypeOK, Op
<1>3. ResInv' /\ UNCHANGED <<my, meddled, left, ctl>>
  BY DEF AddApp, PortAdd, DisableApp, PortDisable, ResInv, ProfileAccounted
<1>4. op.pc \in {"add", "put"}
  BY DEF AddApp, PortAdd, DisableApp, PortDisable
<1>5. Alive' BY <1>3, <1>4 DEF Alive
<1>6. op.pc \in Running /\ my # "ok"
  BY <1>4 DEF Running, CallInv, MyPlace
<1>7. CASE UNCHANGED fw /\ op' = Return(FALSE)
  BY <1>3, <1>5, <1>6, <1>7, Advance
<1>8. CASE UNCHANGED fw /\ op' = Return(TRUE) /\ op.call = "disable"
  BY <1>3, <1>5, <1>6, <1>8, Advance
<1>9. CASE /\ fw' = [fw EXCEPT ![op.item] = "enabled"]
           /\ op' = Return(TRUE)
  <2>1. /\ op' \in Op /\ op'.pc = "done" /\ op'.call = op.call
        /\ op'.item = op.item /\ op'.was = op.was /\ op'.ret
    BY <1>1, <1>9, OpFacts
  <2>2. /\ fw' \in [Items -> Entry] /\ fw'[op.item] = "enabled"
        /\ \A i \in Items : fw[i] = "enabled" => fw'[i] = "enabled"
    BY <1>1, <1>2, <1>9 DEF CallTypeOK, Entry
  <2>3. MyApp \in Items BY ItemsAssumption DEF Items
  <2> QED BY <1>1, <1>3, <1>5, <1>6, <2>1, <2>2, <2>3
          DEF CallInv, CallTypeOK, CallPlace, Untouched, YesIsTrue,
              NoChangesNothing, MyPlace, MyPortIsOpen, Running
<1>10. CASE /\ fw' = [fw EXCEPT ![op.item] =
                        IF @ = "enabled" THEN "disabled" ELSE @]
            /\ op' = Return(TRUE) /\ op.call = "disable"
  <2>1. /\ op' \in Op /\ op'.pc = "done" /\ op'.call = op.call
        /\ op'.item = op.item /\ op'.was = op.was /\ op'.ret
    BY <1>1, <1>10, OpFacts
  <2>2. fw' \in [Items -> Entry]
    BY <1>1, <1>2, <1>10 DEF CallTypeOK, Entry
  <2>3. my = "no" BY <1>1, <1>6, <1>10 DEF CallInv, MyPlace, CallTypeOK
  <2> QED BY <1>1, <1>3, <1>5, <1>10, <2>1, <2>2, <2>3
          DEF CallInv, CallTypeOK, CallPlace, Untouched, YesIsTrue,
              NoChangesNothing, MyPlace, MyPortIsOpen, Running
<1>11. op.pc = "put" => op.call = "disable" BY <1>1, CallPlaceFacts
<1>12. CASE AddApp BY <1>7, <1>9, <1>12 DEF AddApp
<1>13. CASE PortAdd BY <1>7, <1>9, <1>13 DEF PortAdd
<1>14. CASE DisableApp
  BY <1>7, <1>8, <1>10, <1>11, <1>14 DEF DisableApp, Disable
<1>15. CASE PortDisable
  BY <1>7, <1>8, <1>10, <1>11, <1>15 DEF PortDisable, Disable
<1> QED BY <1>12, <1>13, <1>14, <1>15

(* A new call knows the entry it is made for. *)
LEMMA CallFacts ==
  ASSUME CallTypeOK, NEW i \in Items,
         NEW call \in {"init", "isEnabled", "add", "disable"}
  PROVE  /\ Call(call, i) \in Op
         /\ Call(call, i).pc = "init" /\ "init" \in Places(call)
         /\ Call(call, i).call = call /\ Call(call, i).item = i
         /\ Call(call, i).was = fw[i]
<1>1. "init" \in Places(call) BY DEF Places
<1>2. fw[i] \in Entry BY DEF CallTypeOK
<1> QED BY <1>1, <1>2 DEF Call, Op

(* The steps of the code that owns an object. *)
LEMMA OwnerSteps ==
  ASSUME IInv,
         \/ Create \/ End \/ CallCleanup \/ Delete
         \/ \E call \in {"init", "isEnabled", "add", "disable"}, i \in Items :
              Begin(call, i)
  PROVE  IInv'
<1> USE DEF IInv
<1>1. CallTypeOK BY DEF CallInv
<1>2. CASE Create
  <2>1. ResInv' BY <1>2 DEF Create, ResInv, ProfileAccounted, NewCtl, NoCtl
  <2>2. ctl'.alive BY <1>2 DEF Create, NewCtl, NoCtl
  <2> QED BY <1>2, <2>1, <2>2
          DEF Create, CallInv, CallTypeOK, CallPlace, Untouched, YesIsTrue,
              NoChangesNothing, MyPlace, MyPortIsOpen, Alive
<1>3. CASE End
  <2>1. op' \in Op /\ op'.pc = "idle" BY <1>1, <1>3, OpFacts DEF End
  <2> QED BY <1>3, <2>1
          DEF End, CallInv, CallTypeOK, CallPlace, Untouched, YesIsTrue,
              NoChangesNothing, MyPlace, MyPortIsOpen, Alive, ResInv,
              ProfileAccounted, Running
<1>4. CASE CallCleanup \/ Delete
  <2>1. ctl.comInit = "E_FAIL" BY DEF ResInv
  <2>2. CASE CallCleanup
    <3>1. PICK c : c = [ctl EXCEPT !.profile = FALSE] OBVIOUS
    <3>2. PICK after :
            after = [ctl EXCEPT !.profile = FALSE,
                       !.comInit = IF @ = "S_OK" THEN "E_FAIL" ELSE @]
      OBVIOUS
    <3>3. after \in [alive : BOOLEAN, comInit : {"E_FAIL"}, profile : {FALSE}]
      <4>1. c \in [alive : BOOLEAN, comInit : {"E_FAIL"}, profile : {FALSE}]
        BY <3>1 DEF ResInv
      <4>2. after = [c EXCEPT !.comInit = IF c.comInit = "S_OK"
                                          THEN "E_FAIL" ELSE c.comInit]
        BY <3>1, <3>2
      <4> QED BY <4>1, <4>2
    <3>4. Cleanup(after) BY <2>2, <3>2, Zenon DEF CallCleanup
    <3>5. ResInv' BY <2>2, <3>3, <3>4, CleanupFacts DEF CallCleanup
    <3> QED BY <2>2, <3>5
            DEF CallCleanup, CallInv, CallTypeOK, CallPlace, Untouched,
                YesIsTrue, NoChangesNothing, MyPlace, MyPortIsOpen, Alive
  <2>3. CASE Delete
    <3>1. NoCtl \in [alive : BOOLEAN, comInit : {"E_FAIL"}, profile : {FALSE}]
      BY DEF NoCtl
    <3>2. ResInv' BY <2>3, <3>1, CleanupFacts DEF Delete
    <3> QED BY <2>3, <3>2
            DEF Delete, CallInv, CallTypeOK, CallPlace, Untouched,
                YesIsTrue, NoChangesNothing, MyPlace, MyPortIsOpen, Alive
  <2> QED BY <1>4, <2>2, <2>3
<1>5. CASE \E call \in {"init", "isEnabled", "add", "disable"}, i \in Items :
             Begin(call, i)
  <2>1. PICK call \in {"init", "isEnabled", "add", "disable"}, i \in Items :
          Begin(call, i)
    BY <1>5
  <2>2. /\ op' \in Op /\ op'.pc = "init" /\ "init" \in Places(op'.call)
        /\ op'.item = i /\ op'.was = fw[i]
    BY <1>1, <2>1, CallFacts DEF Begin
  <2>3. left' \in 0..MaxCalls
    BY <1>1, <2>1, BoundsAssumption DEF Begin, CallTypeOK
  <2> QED BY <2>1, <2>2, <2>3
          DEF Begin, CallInv, CallTypeOK, CallPlace, Untouched, YesIsTrue,
              NoChangesNothing, MyPlace, MyPortIsOpen, Alive, ResInv,
              ProfileAccounted, Running
<1> QED BY <1>2, <1>3, <1>4, <1>5

(* The steps of enableMyPort. *)
LEMMA MySteps ==
  ASSUME IInv, MyStart \/ MyNext \/ MyEnd
  PROVE  IInv'
<1> USE DEF IInv
<1>1. CallTypeOK BY DEF CallInv
<1>2. /\ MyApp \in Items /\ MyPort \in Items
  BY ItemsAssumption DEF Items
<1>3. CASE MyStart
  <2>1. /\ op' \in Op /\ op'.pc = "init" /\ "init" \in Places(op'.call)
        /\ op'.call = "init" /\ op'.item = MyApp /\ op'.was = fw[MyApp]
    BY <1>1, <1>2, <1>3, CallFacts DEF MyStart
  <2>2. left' \in 0..MaxCalls
    BY <1>1, <1>3, BoundsAssumption DEF MyStart, CallTypeOK
  <2>3. ResInv' /\ ctl'.alive
    BY <1>3 DEF MyStart, ResInv, ProfileAccounted, NewCtl, NoCtl
  <2> QED BY <1>1, <1>3, <2>1, <2>2, <2>3
          DEF MyStart, CallInv, CallTypeOK, CallPlace, Untouched, YesIsTrue,
              NoChangesNothing, MyPlace, MyPortIsOpen, Alive, Running
<1>4. CASE MyNext
  <2> SUFFICES ASSUME op.pc = "done" PROVE IInv'
    BY <1>4 DEF MyNext
  <2>1. ctl.alive BY DEF Alive
  <2>2. ASSUME NEW place \in {"app?", "app+", "port?", "port+"},
               NEW call \in {"isEnabled", "add"}, NEW i \in Items,
               MyGo(place, call, i),
               place = "app?" => call = "isEnabled" /\ i = MyApp,
               place = "app+" => call = "add" /\ i = MyApp,
               place = "port?" => call = "isEnabled" /\ i = MyPort,
               place = "port+" => call = "add" /\ i = MyPort,
               place \in {"port?", "port+"} /\ ~meddled
                 => fw[MyApp] = "enabled"
        PROVE  IInv'
    <3>1. /\ op' \in Op /\ op'.pc = "init" /\ "init" \in Places(op'.call)
          /\ op'.call = call /\ op'.item = i /\ op'.was = fw[i]
      BY <1>1, <2>2, CallFacts DEF MyGo
    <3>2. ResInv' /\ ctl'.alive
      BY <2>1, <2>2 DEF MyGo, ResInv, ProfileAccounted
    <3> QED BY <1>1, <2>2, <3>1, <3>2
            DEF MyGo, CallInv, CallTypeOK, CallPlace, Untouched, YesIsTrue,
                NoChangesNothing, MyPlace, MyPortIsOpen, Alive, Running
  <2>3. CASE my = "init" /\ MyGo("app?", "isEnabled", MyApp)
    BY <1>2, <2>2, <2>3
  <2>4. CASE my = "app?" /\ MyGo("app+", "add", MyApp)
    BY <1>2, <2>2, <2>4
  <2>5. CASE my \in {"app?", "app+"} /\ op.ret /\ MyGo("port?", "isEnabled", MyPort)
    <3>1. ~meddled => fw[MyApp] = "enabled"
      BY <2>5 DEF CallInv, MyPlace, YesIsTrue
    <3> QED BY <1>2, <2>2, <2>5, <3>1
  <2>6. CASE my = "port?" /\ MyGo("port+", "add", MyPort)
    <3>1. ~meddled => fw[MyApp] = "enabled" BY <2>6 DEF CallInv, MyPlace
    <3> QED BY <1>2, <2>2, <2>6, <3>1
  <2>7. CASE /\ my \in {"port?", "port+"} /\ op.ret
             /\ my' = "ok" /\ op' = GoTo("idle")
             /\ UNCHANGED <<fw, com, ctl, refs, meddled, lost, left>>
    <3>1. op' \in Op /\ op'.pc = "idle" BY <1>1, <2>7, OpFacts
    <3>2. ~meddled => fw[MyApp] = "enabled" /\ fw[MyPort] = "enabled"
      BY <2>7 DEF CallInv, MyPlace, YesIsTrue
    <3>3. ResInv' BY <2>7 DEF ResInv, ProfileAccounted
    <3> QED BY <1>1, <2>1, <2>7, <3>1, <3>2, <3>3
            DEF CallInv, CallTypeOK, CallPlace, Untouched, YesIsTrue,
                NoChangesNothing, MyPlace, MyPortIsOpen, Alive, Running
  <2>8. CASE /\ my \in {"app+", "port+"}
             /\ my' = "no" /\ op' = GoTo("idle") /\ ctl' = NoCtl
             /\ lost' = IF ctl.profile THEN lost + 1 ELSE lost
             /\ UNCHANGED <<fw, com, refs, meddled, left>>
    <3>1. op' \in Op /\ op'.pc = "idle" BY <1>1, <2>8, OpFacts
    <3>2. /\ ctl' \in [alive : BOOLEAN, comInit : {"E_FAIL"},
                       profile : BOOLEAN]
          /\ ctl'.profile = FALSE
      BY <2>8 DEF NoCtl
    <3>3. lost' \in Nat /\ refs'.profile = lost'
      BY <2>8 DEF ResInv, ProfileAccounted
    <3>4. ResInv' BY <2>8, <3>2, <3>3 DEF ResInv, ProfileAccounted
    <3> QED BY <1>1, <2>8, <3>1, <3>4
            DEF CallInv, CallTypeOK, CallPlace, Untouched, YesIsTrue,
                NoChangesNothing, MyPlace, MyPortIsOpen, Alive, Running
  <2> QED BY <1>4, <2>3, <2>4, <2>5, <2>6, <2>7, <2>8 DEF MyNext
<1>5. CASE MyEnd
  <2>1. op.pc = "idle" BY <1>5 DEF MyEnd, CallInv, MyPlace
  <2>2. NoCtl \in [alive : BOOLEAN, comInit : {"E_FAIL"}, profile : {FALSE}]
    BY DEF NoCtl
  <2>3. ResInv' BY <1>5, <2>2, CleanupFacts DEF MyEnd
  <2> QED BY <1>5, <2>1, <2>3
          DEF MyEnd, CallInv, CallTypeOK, CallPlace, Untouched, YesIsTrue,
              NoChangesNothing, MyPlace, MyPortIsOpen, Alive
<1> QED BY <1>3, <1>4, <1>5

(* Once somebody has meddled, nothing is promised about the firewall. *)
LEMMA MeddleStep ==
  ASSUME IInv, NEW i \in Items, NEW e \in Entry, Meddle(i, e)
  PROVE  IInv'
<1> USE DEF IInv
<1>1. /\ fw' \in [Items -> Entry] /\ meddled' = TRUE
      /\ my # "ok"
  BY DEF Meddle, CallInv, CallTypeOK, MyPlace
<1> QED BY <1>1
        DEF Meddle, CallInv, CallTypeOK, CallPlace, Untouched, YesIsTrue,
            NoChangesNothing, MyPlace, MyPortIsOpen, Alive, ResInv,
            ProfileAccounted

(* Every step keeps the invariant. *)
LEMMA NextIInv == ASSUME IInv, [Next]_vars PROVE IInv'
<1>1. CASE InitStep \/ Query \/ Init2 \/ Recheck BY <1>1, LookingSteps
<1>2. CASE AddApp \/ PortAdd \/ DisableApp \/ PortDisable
  BY <1>2, ChangingSteps
<1>3. CASE \/ Create \/ End \/ CallCleanup \/ Delete
           \/ \E call \in {"init", "isEnabled", "add", "disable"},
                 i \in Items : Begin(call, i)
  BY <1>3, OwnerSteps
<1>4. CASE MyStart \/ MyNext \/ MyEnd BY <1>4, MySteps
<1>5. CASE \E i \in Items, e \in Entry : Meddle(i, e) BY <1>5, MeddleStep
<1>6. CASE UNCHANGED vars
  BY <1>6 DEF vars, IInv, CallInv, CallTypeOK, CallPlace, Untouched,
              YesIsTrue, NoChangesNothing, MyPlace, MyPortIsOpen, Alive,
              ResInv, ProfileAccounted
<1> QED BY <1>1, <1>2, <1>3, <1>4, <1>5, <1>6 DEF Next

-----------------------------------------------------------------------------
(* Theorems *)

(* The inductive invariant. *)
LEMMA IInvHolds == Spec => []IInv
<1>1. Init => IInv BY InitIInv
<1>2. IInv /\ [Next]_vars => IInv' BY NextIInv
<1> QED BY <1>1, <1>2, PTL DEF Spec

(* Every variable keeps its type; the class's own COM count and m_comInit  *)
(* even keep their first values.                                           *)
THEOREM TypeOKHolds == Spec => []TypeOK
<1>1. ASSUME IInv PROVE TypeOK
  <2>1. com \in [others : BOOLEAN, ours : Nat]
    <3>1. {0} \subseteq Nat OBVIOUS
    <3> QED BY <1>1, <3>1 DEF IInv, ResInv
  <2>2. ctl \in [alive : BOOLEAN, comInit : HRESULTs, profile : BOOLEAN]
    <3>1. {"E_FAIL"} \subseteq HRESULTs BY DEF HRESULTs
    <3> QED BY <1>1, <3>1 DEF IInv, ResInv
  <2> QED BY <1>1, <2>1, <2>2
          DEF TypeOK, IInv, ResInv, CallInv, CallTypeOK
<1> QED BY <1>1, IInvHolds, PTL

(* A yes of IsAppEnabled, IsPortEnabled, AddApp or AddPort is true.        *)
THEOREM YesIsTrueHolds == Spec => []YesIsTrue
<1>1. IInv => YesIsTrue BY DEF IInv, CallInv
<1> QED BY <1>1, IInvHolds, PTL

(* A method of CWindowsFirewallCtl that returns 0 has changed nothing.     *)
THEOREM NoChangesNothingHolds == Spec => []NoChangesNothing
<1>1. IInv => NoChangesNothing BY DEF IInv, CallInv
<1> QED BY <1>1, IInvHolds, PTL

(* When enableMyPort returns 1, the program and the port are open.         *)
THEOREM MyPortIsOpenHolds == Spec => []MyPortIsOpen
<1>1. IInv => MyPortIsOpen BY DEF IInv, CallInv, MyPlace
<1> QED BY <1>1, IInvHolds, PTL

(* Every profile that init got is released once, or lost with its object.  *)
THEOREM ProfileAccountedHolds == Spec => []ProfileAccounted
<1>1. IInv => ProfileAccounted BY DEF IInv, ResInv
<1> QED BY <1>1, IInvHolds, PTL

(* No object ever initializes COM: init's test is the wrong way round.     *)
THEOREM ComStaysOff == Spec => [](com.ours = 0)
<1>1. IInv => com.ours = 0 BY DEF IInv, ResInv
<1> QED BY <1>1, IInvHolds, PTL

-----------------------------------------------------------------------------
(* What the comments and the assertion claim, and when they are right: in  *)
(* a thread where COM is on, and while no COM call fails.                  *)

(* Once init is done, the profile is there. *)
Equipped ==
  /\ op.pc \in {"query", "init2", "recheck", "add", "put"} => ctl.profile
  /\ ProfileIsThere

(* Both claims, in a thread where COM is on. *)
Claims == com.others => Equipped /\ DisabledIsDisabled

(* Whether COM is on in the thread, other than by the class, stays so. *)
LEMMA OthersStay == ASSUME IInv, [Next]_vars PROVE com'.others = com.others
<1>1. com.others \in BOOLEAN /\ ctl.comInit = "E_FAIL" BY DEF IInv, ResInv
<1>2. ASSUME NEW STATE yes, NEW STATE no, InitThen(yes, no)
      PROVE  com'.others = com.others
  BY <1>1, <1>2 DEF InitThen, ComInits
<1>3. ASSUME NEW STATE after, Cleanup(after) PROVE com' = com
  BY <1>1, <1>3 DEF Cleanup
<1>4. CASE InitStep
  <2>1. CASE InitThen(Return(TRUE), Return(FALSE)) BY <1>2, <2>1
  <2>2. CASE InitThen(GoTo("query"), AfterCheck(FALSE)) BY <1>2, <2>2
  <2> QED BY <1>4, <2>1, <2>2 DEF InitStep
<1>5. CASE Init2 BY <1>2, <1>5 DEF Init2
<1>6. CASE CallCleanup BY <1>3, <1>6 DEF CallCleanup
<1>7. CASE Delete BY <1>3, <1>7 DEF Delete
<1>8. CASE MyEnd BY <1>3, <1>8 DEF MyEnd
<1>9. CASE UNCHANGED com BY <1>9
<1> QED BY <1>4, <1>5, <1>6, <1>7, <1>8, <1>9
        DEF Next, vars, Query, Recheck, AddApp, PortAdd, DisableApp,
            PortDisable, Create, End, Begin, MyStart, MyNext, MyGo, Meddle

(* With COM on and nothing failing, init gets a profile. *)
LEMMA InitSucceeds ==
  ASSUME ~Fails, IInv, com.others, NEW STATE yes, NEW STATE no,
         InitThen(yes, no)
  PROVE  op' = yes /\ ctl'.profile
<1>1. ctl.comInit = "E_FAIL" /\ ComInits = {"E_FAIL"}
      /\ ctl \in [alive : BOOLEAN, comInit : {"E_FAIL"}, profile : BOOLEAN]
  BY DEF IInv, ResInv, ComInits
<1>2. com' = com BY <1>1 DEF InitThen
<1> QED BY <1>1, <1>2 DEF InitThen

(* A step is harmless when it ends the method, or goes where the object is *)
(* equipped for; it ends a disabling with yes only when nothing is enabled *)
(* there.                                                                  *)
Harmless ==
  \/ op'.pc \in {"idle", "init"}
  \/ /\ op'.pc = "done"
     /\ op'.call = "disable" /\ op'.ret /\ ~meddled'
          => fw'[op'.item] # "enabled"
  \/ ctl'.profile /\ op'.pc \notin {"done", "crashed"}

(* Harmless steps keep the claims. *)
LEMMA ClaimsKept ==
  ASSUME IInv, [Next]_vars, com.others => Harmless
  PROVE  Claims'
BY OthersStay
   DEF Harmless, Claims, Equipped, ProfileIsThere, DisabledIsDisabled

(* Every step keeps the claims. *)
LEMMA NextClaims ==
  ASSUME ~Fails, IInv, Claims, [Next]_vars
  PROVE  Claims'
<1>1. CASE ~com.others BY <1>1, ClaimsKept
<1> SUFFICES ASSUME com.others PROVE Harmless BY <1>1, ClaimsKept
<1>2. /\ Equipped /\ DisabledIsDisabled /\ CallTypeOK /\ CallPlace
      /\ op.call \in {"init", "isEnabled", "add", "disable"}
      /\ op.item \in Items
  BY DEF Claims, IInv, CallInv, CallTypeOK, Op
<1>3. ASSUME NEW pc \in {"query", "init2", "recheck", "add", "put"},
             op' = GoTo(pc), ctl'.profile
      PROVE  Harmless
  BY <1>2, <1>3, OpFacts DEF Running, Harmless
<1>4. ASSUME NEW ret \in BOOLEAN, op' = Return(ret),
             op.call = "disable" /\ ret => fw'[op.item] # "enabled"
      PROVE  Harmless
  BY <1>2, <1>4, OpFacts DEF Harmless
<1>5. CASE InitStep
  <2>1. CASE op.call = "init"
    BY <1>4, <1>5, <2>1, InitSucceeds DEF InitStep
  <2>2. CASE op.call # "init"
    BY <1>3, <1>5, <2>2, InitSucceeds DEF InitStep
  <2> QED BY <2>1, <2>2
<1>6. CASE Query
  <2>1. ctl'.profile /\ op.call # "init" /\ fw' = fw
    BY <1>2, <1>6, CallPlaceFacts DEF Query, Equipped
  <2>2. PICK hr \in {TRUE, ~Fails} : op' = AfterCheck(hr /\ Found(op.item))
    BY <1>6 DEF Query
  <2>3. fw[op.item] = "enabled" => Found(op.item)
    BY <1>2 DEF Found, AppIsEnabled, PortIsEnabled, Items
  <2>4. PICK found \in BOOLEAN :
          op' = AfterCheck(found) /\ (fw[op.item] = "enabled" => found)
    BY <2>2, <2>3
  <2>5. CASE op.call = "isEnabled" BY <1>4, <2>4, <2>5 DEF AfterCheck
  <2>6. CASE op.call = "add"
    <3>1. CASE found BY <1>4, <2>4, <2>6, <3>1 DEF AfterCheck
    <3>2. CASE ~found
      BY <1>3, <2>1, <2>4, <2>6, <3>2 DEF AfterCheck
    <3> QED BY <3>1, <3>2
  <2>7. CASE op.call = "disable"
    <3>1. CASE found BY <1>3, <2>1, <2>4, <2>7, <3>1 DEF AfterCheck
    <3>2. CASE ~found
      BY <1>4, <2>1, <2>4, <2>7, <3>2 DEF AfterCheck
    <3> QED BY <3>1, <3>2
  <2> QED BY <1>2, <2>1, <2>5, <2>6, <2>7
<1>7. CASE Init2 BY <1>3, <1>7, InitSucceeds DEF Init2
<1>8. CASE Recheck
  <2>1. ctl'.profile /\ ctl.profile /\ op.call = "add"
    BY <1>2, <1>8, CallPlaceFacts DEF Recheck, Equipped
  <2>2. op' = Return(TRUE) \/ op' = GoTo("add") BY <1>8, <2>1 DEF Recheck
  <2> QED BY <1>3, <1>4, <2>1, <2>2
<1>9. CASE AddApp \/ PortAdd
  <2>1. op.call = "add" /\ op' = Return(TRUE)
    BY <1>2, <1>9, CallPlaceFacts DEF AddApp, PortAdd
  <2> QED BY <1>4, <2>1
<1>10. CASE DisableApp \/ PortDisable
  <2>1. /\ op' = Return(TRUE)
        /\ fw' = [fw EXCEPT ![op.item] =
                    IF @ = "enabled" THEN "disabled" ELSE @]
    BY <1>10 DEF DisableApp, PortDisable, Disable
  <2>2. fw'[op.item] # "enabled" BY <1>2, <2>1 DEF CallTypeOK
  <2> QED BY <1>4, <2>1, <2>2
<1>11. CASE Create \/ CallCleanup \/ Delete
  <2>1. op'.pc = "idle"
    BY <1>11 DEF Create, CallCleanup, Delete
  <2> QED BY <2>1 DEF Harmless
<1>12. CASE End \/ MyEnd
  <2>1. op'.pc = "idle"
    BY <1>2, <1>12, OpFacts, ZenonT(60) DEF End, MyEnd, IInv, CallInv, MyPlace
  <2> QED BY <2>1 DEF Harmless
<1>13. CASE MyStart \/ \E call \in {"init", "isEnabled", "add", "disable"},
                          i \in Items : Begin(call, i)
  <2>1. op'.pc = "init" BY <1>13 DEF MyStart, Begin, Call
  <2> QED BY <2>1 DEF Harmless
<1>14. CASE MyNext
  <2>1. (\E call, i : op' = Call(call, i)) \/ op' = GoTo("idle")
    BY <1>14 DEF MyNext, MyGo
  <2>2. GoTo("idle").pc = "idle" BY <1>2, OpFacts
  <2>3. op'.pc \in {"idle", "init"} BY <2>1, <2>2 DEF Call
  <2> QED BY <2>3 DEF Harmless
<1>15. CASE \E i \in Items, e \in Entry : Meddle(i, e)
  <2>1. op' = op /\ ctl' = ctl /\ meddled' /\ op.pc \in
          {"init", "query", "init2", "recheck", "add", "put", "done",
           "crashed"}
    BY <1>2, <1>15 DEF Meddle, CallTypeOK, Op
  <2> QED BY <1>2, <2>1 DEF Harmless, Equipped, ProfileIsThere
<1>16. CASE UNCHANGED vars
  <2>1. op.pc \in {"idle", "init", "query", "init2", "recheck", "add", "put",
                   "done", "crashed"}
    BY <1>2 DEF CallTypeOK, Op
  <2> QED BY <1>2, <1>16, <2>1
          DEF vars, Harmless, Equipped, ProfileIsThere, DisabledIsDisabled
<1> QED BY <1>5, <1>6, <1>7, <1>8, <1>9, <1>10, <1>11, <1>12, <1>13, <1>14,
           <1>15, <1>16
        DEF Next, Harmless

(* The claims hold at the start, when no method has run. *)
LEMMA ClaimsHold == ASSUME ~Fails PROVE Spec => []Claims
<1>1. Init => Claims
  BY DEF Init, Claims, Equipped, ProfileIsThere, DisabledIsDisabled
<1>2. IInv /\ Claims /\ [Next]_vars => Claims' BY NextClaims
<1> QED BY <1>1, <1>2, IInvHolds, PTL DEF Spec

(* With COM on and no COM call failing, a yes of DisablePort or DisableApp *)
(* means that the entry is not enabled, as their comments say; it is the   *)
(* failing lookup, and nothing else, that makes them wrong.                *)
THEOREM DisabledHolds ==
  ASSUME ~Fails PROVE Spec => [](com.others => DisabledIsDisabled)
<1>1. Claims => (com.others => DisabledIsDisabled) BY DEF Claims
<1> QED BY <1>1, ClaimsHold, PTL

(* With COM on and no COM call failing, WindowsFirewallPortAdd never gets  *)
(* a null profile, as its assertion says.                                  *)
THEOREM ProfileHolds ==
  ASSUME ~Fails PROVE Spec => [](com.others => ProfileIsThere)
<1>1. Claims => (com.others => ProfileIsThere) BY DEF Claims, Equipped
<1> QED BY <1>1, ClaimsHold, PTL
=============================================================================
