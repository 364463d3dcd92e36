------------------------------ MODULE PortsIni ------------------------------
(***************************************************************************)
(* Where the GUI and the TCM find each other: the host and the port in a   *)
(* profile (.ini) file that every process reads, completes and writes by   *)
(* itself (VibCtlPorts.cpp over PrivateProfileStuff.cpp).  Each call of    *)
(* the system is one step, so the processes interleave between them.       *)
(***************************************************************************)
EXTENDS Paths

CONSTANTS
  Procs,      \* the processes that share the file
  IniPaths,   \* the paths that the file may have
  MaxCalls,   \* bound: the calls of all processes together
  MaxEdits    \* bound: the edits of the file by hand

(* The path is a constant of the program: a file in a directory. *)
ASSUME IniPathsAssumption ==
  \A p \in IniPaths :
    p \in Seq(Chars) /\ Plain(p) /\ HasExt(p) /\ UpperDirs(p) # {}

VARIABLES
  iniPath,
  dirs,     \* the directories above the file that exist
  entry,    \* what the file has for a keyword
  proc,     \* the call that each process is in
  known,    \* history: what a keyword was last got as, or set to
  calls, edits

vars == <<iniPath, dirs, entry, proc, known, calls, edits>>

Ops      == {"getPort", "setPort", "getHost", "setHost"}
Keys     == {"port", "host"}
Missing  == {"absent", "empty"}
Texts    == {"default", "other", "junk"}
Key(op)  == IF op \in {"getPort", "setPort"} THEN "port" ELSE "host"

(* stale is history: the keyword was changed while the call ran. *)
Idle == [pc |-> "idle", op |-> "getPort", todo |-> {}, left |-> 0,
         buf |-> "none", stale |-> FALSE]

(* The directory d is in; whether d is there when those in S are, as the   *)
(* current one and the drives always are.                                  *)
Parent(d)     == Left(d, NameAt(d) - 2)
ThereIn(S, d) == d \in S \cup {<<>>} \/ (d # <<>> /\ d[Len(d)] = ":")
There(d)      == ThereIn(dirs, d)

FileDir == fnsplit(iniPath).dir

(* Some of the directories may be there, and only then a file. *)
Init ==
  /\ iniPath \in IniPaths
  /\ dirs \in SUBSET makeDirs(iniPath, FALSE)
  /\ \A d \in dirs : There(Parent(d))
  /\ entry \in [Keys -> IF There(FileDir) THEN Missing \cup Texts
                        ELSE {"absent"}]
  /\ proc = [p \in Procs |-> Idle]
  /\ known = [k \in Keys |-> "none"]
  /\ calls = 0 /\ edits = 0

-----------------------------------------------------------------------------
(* What a keyword's text is to its caller: getPrivateProfInt takes it      *)
(* through atoi, which makes 0 of a text that is no number.                *)
AsValue(k, text) ==
  IF k = "port" /\ text \in {"junk", "empty"} THEN "0" ELSE text

(* _tmkdir makes a directory if the one above is there; that another       *)
(* process has made it meanwhile is as good (EEXIST).                      *)
Mkdir(d) == dirs' = IF There(Parent(d)) THEN dirs \cup {d} ELSE dirs

(* accPortAny passes FALSE on whatever its bSet is, so that setting a port *)
(* is getting it with another default.                                     *)
IsSet(op) == op = "setHost"

(* The text that a call supplies: what is to be set, or the default. *)
Given(op) == IF op \in {"setPort", "setHost"} THEN "other" ELSE "default"

(* Mutant: only the last directory is made. *)
LastLevelOnly(path) == {fnsplit(path).dir}

(* What one makeDirAndUpperDirs makes, the shorter ones first. *)
Levels(path) == makeDirs(path, FALSE)

(* It runs in acc..., in setPrivateProfIniFilePath and, for a get, once    *)
(* more in getPrivateProfStr.                                              *)
Passes(op) == IF IsSet(op) THEN 2 ELSE 3

Begin(p, op) ==
  /\ proc[p].pc = "idle" /\ calls < MaxCalls
  /\ proc' = [proc EXCEPT ![p] =
       [pc |-> "dirs", op |-> op, todo |-> Levels(iniPath),
        left |-> Passes(op), buf |-> "none", stale |-> FALSE]]
  /\ calls' = calls + 1
  /\ UNCHANGED <<iniPath, dirs, entry, known, edits>>

MakeDir(p) ==
  LET c == proc[p] IN
  /\ c.pc = "dirs"
  /\ \E d \in c.todo :
       /\ \A e \in c.todo : Len(d) <= Len(e)
       /\ Mkdir(d)
       /\ proc' = [proc EXCEPT ![p] =
            IF c.todo # {d} THEN [c EXCEPT !.todo = c.todo \ {d}]
            ELSE IF c.left > 1
                 THEN [c EXCEPT !.todo = Levels(iniPath), !.left = c.left - 1]
            ELSE [c EXCEPT !.todo = {}, !.left = 0,
                           !.pc = IF IsSet(c.op) THEN "set" ELSE "read"]]
  /\ UNCHANGED <<iniPath, entry, known, calls, edits>>

(* Mutant: an entry without a text is taken as it is. *)
FoundEvenEmpty(text) == text # "absent"

(* GetPrivateProfileString gave a text, and not the illegal one. *)
Found(text) == text \notin Missing

(* getPrivateProfStr looks the keyword up. *)
Read(p) ==
  LET text == entry[Key(proc[p].op)] IN
  /\ proc[p].pc = "read"
  /\ proc' = [proc EXCEPT ![p].buf = text,
                          ![p].pc = IF Found(text) THEN "return" ELSE "add"]
  /\ UNCHANGED <<iniPath, dirs, entry, known, calls, edits>>

(* WritePrivateProfileString: the file's directory must be there. *)
Put(k, text) ==
  entry' = IF ThereIn(dirs', FileDir)
           THEN [entry EXCEPT ![k] = text] ELSE entry

(* History: the calls about k that run, in others than S, become stale. *)
Disturbed(S, k) ==
  [q \in Procs |-> IF q \notin S /\ proc[q].pc # "idle" /\ Key(proc[q].op) = k
                   THEN [proc[q] EXCEPT !.stale = TRUE] ELSE proc[q]]

(* PrivateProfOpt_AddMissingEntries: the directory once more, and the      *)
(* default, without another look at the file.  Unless it is a get that     *)
(* began after the last change, this is a change.                          *)
Add(p) ==
  LET op == proc[p].op
      k  == Key(op)
      change == op = "setPort" \/ proc[p].stale
  IN
  /\ proc[p].pc = "add"
  /\ Mkdir(FileDir)
  /\ Put(k, Given(op))
  /\ known' = IF change THEN [known EXCEPT ![k] = "none"] ELSE known
  /\ proc' = [(IF change THEN Disturbed({p}, k) ELSE proc)
                EXCEPT ![p].pc = "reread"]
  /\ UNCHANGED <<iniPath, calls, edits>>

(* Mutant: the second lookup is left out, and buf is still empty. *)
RereadNothing(p) ==
  /\ proc[p].pc = "reread"
  /\ proc' = [proc EXCEPT ![p].pc = "return"]
  /\ UNCHANGED <<iniPath, dirs, entry, known, calls, edits>>

(* The second lookup, this time with the real default. *)
Reread(p) ==
  LET text == entry[Key(proc[p].op)] IN
  /\ proc[p].pc = "reread"
  /\ proc' = [proc EXCEPT ![p].pc = "return",
       ![p].buf = IF text = "absent" THEN Given(proc[p].op) ELSE text]
  /\ UNCHANGED <<iniPath, dirs, entry, known, calls, edits>>

(* The text becomes a value; setPortAny has no use for it. *)
Return(p) ==
  LET k == Key(proc[p].op) IN
  /\ proc[p].pc = "return"
  /\ known' = IF proc[p].op = "setPort" \/ proc[p].stale THEN known
              ELSE [known EXCEPT ![k] = AsValue(k, proc[p].buf)]
  /\ proc' = [proc EXCEPT ![p] = Idle]
  /\ UNCHANGED <<iniPath, dirs, entry, calls, edits>>

(* setPrivateProfStr *)
Set(p) ==
  /\ proc[p].pc = "set"
  /\ UNCHANGED dirs
  /\ Put("host", "other")
  /\ known' = [known EXCEPT !["host"] = "other"]
  /\ proc' = [Disturbed({p}, "host") EXCEPT ![p] = Idle]
  /\ UNCHANGED <<iniPath, calls, edits>>

(* Somebody edits the file. *)
Edit(k, text) ==
  /\ edits < MaxEdits /\ There(FileDir) /\ entry[k] # text
  /\ entry' = [entry EXCEPT ![k] = text]
  /\ known' = [known EXCEPT ![k] = "none"]
  /\ proc' = Disturbed({}, k)
  /\ edits' = edits + 1
  /\ UNCHANGED <<iniPath, dirs, calls>>

Next ==
  \/ \E p \in Procs :
       \/ \E op \in Ops : Begin(p, op)
       \/ MakeDir(p)
       \/ Read(p)
       \/ Add(p)
       \/ Reread(p)
       \/ Return(p)
       \/ Set(p)
  \/ \E k \in Keys, text \in Missing \cup Texts : Edit(k, text)

Spec == Init /\ [][Next]_vars

-----------------------------------------------------------------------------
(* Properties *)

(* Whoever writes the file finds its directory, even when several make it  *)
(* at the same time, and no directory in the file's place: the ASSERT(b)   *)
(* of PrivateProfileStuff.cpp:96 and 122 holds.                            *)
WriteSucceeds ==
  \A p \in Procs : proc[p].pc \in {"add", "set"} =>
                     There(FileDir) /\ iniPath \notin dirs

(* What one process gets for a keyword every other gets too, until it is   *)
(* changed: the GUI and the TCM cannot come to different defaults, although *)
(* either may add what the other has found missing, and a host that was    *)
(* set is the one they get.  Calls that ran during a change do not count.  *)
GetsAgree ==
  \A p \in Procs :
    LET k == Key(proc[p].op) IN
    proc[p].pc = "return" /\ proc[p].op # "setPort" /\ ~proc[p].stale
    => known[k] \in {"none", AsValue(k, proc[p].buf)}

(* What has been got or set is an entry of the file, to be found and       *)
(* edited, and not only the default that the program was called with.      *)
GotIsInFile ==
  \A k \in Keys : known[k] # "none" =>
                    /\ entry[k] \notin Missing
                    /\ AsValue(k, entry[k]) = known[k]

-----------------------------------------------------------------------------
(* What the code's comments claim *)

(* PrivateProfileStuff.h:41, "a single set of routines that will either    *)
(* set or get stuff": after a set of the port the file has that port.      *)
SetPortTakes ==
  \A p \in Procs :
    proc[p].pc = "return" /\ proc[p].op = "setPort" /\ ~proc[p].stale
    => entry["port"] = "other"
=============================================================================
