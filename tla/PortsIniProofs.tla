--------------------------- MODULE PortsIniProofs ---------------------------
(***************************************************************************)
(* Proofs about PortsIni, for every path and number of processes: whoever  *)
(* writes the file finds its directory, what was got is in the file, and   *)
(* what one process got every other gets.  At the end, what MCPortsIni     *)
(* says of paths and command lines up to a length follows, for every       *)
(* length, from what PathsProofs and CmdLineProofs say of all.             *)
(***************************************************************************)
EXTENDS MCPortsIni, CmdLineProofs

D == UpperDirs(iniPath)

-----------------------------------------------------------------------------
(* The directories above a file *)

(* A directory above p is shorter than p, and the one it is in is above p  *)
(* too, or always there.                                                   *)
LEMMA UpperDirsAre ==
  ASSUME NEW p \in Seq(Chars), Plain(p), NEW d \in UpperDirs(p)
  PROVE  /\ d \in Seq(Chars) /\ Len(d) < Len(p)
         /\ \/ Parent(d) \in UpperDirs(p) /\ Len(Parent(d)) < Len(d)
            \/ Parent(d) = <<>>
            \/ Parent(d) # <<>> /\ Parent(d)[Len(Parent(d))] = ":"
<1>1. PICK i \in 1..Len(p) : EndsDir(p, i) /\ d = Left(p, i - 1)
  BY UpperDirsIs, Zenon
<1>2. /\ d \in Seq(Chars) /\ Len(d) = i - 1
      /\ \A j \in 1..i - 1 : d[j] = p[j]
  <2>1. i - 1 \in Int /\ i - 1 <= Len(p) /\ i - 1 >= 0 OBVIOUS
  <2> QED BY <1>1, <2>1, LeftIs
<1>3. PICK h : h = ReverseFind(d, Sep) OBVIOUS
<1>4. IsLast(h, d, Sep) BY <1>2, <1>3, ReverseFindIsLast
<1>5. h \in 0..i - 1 /\ (h # 0 => p[h] \in Sep) BY <1>2, <1>4 DEF IsLast
<1>6. Parent(d) = Left(p, h - 1)
  <2>1. NameAt(d) - 2 = h - 1 BY <1>3, <1>5 DEF NameAt
  <2>2. Parent(d) = Left(Left(p, i - 1), h - 1)
    BY <1>1, <2>1, Zenon DEF Parent
  <2>3. /\ i - 1 \in Nat /\ i - 1 <= Len(p)
        /\ h - 1 \in Int /\ h - 1 <= i - 1
    BY <1>5
  <2> QED BY <2>2, <2>3, LeftOfLeft
<1>7. /\ Left(p, h - 1) \in Seq(Chars)
      /\ h - 1 >= 0 => Len(Left(p, h - 1)) = h - 1
      /\ h - 1 < 0 => Len(Left(p, h - 1)) = 0
      /\ \A j \in 1..h - 1 : Left(p, h - 1)[j] = p[j]
  <2>1. h - 1 \in Int /\ h - 1 <= Len(p) BY <1>5
  <2> QED BY <2>1, LeftIs
<1>8. CASE h = 0
  <2>1. Parent(d) = <<>> BY <1>6, <1>7, <1>8
  <2> QED BY <1>2, <2>1
<1>9. CASE h # 0 /\ EndsDir(p, h)
  <2>1. h \in {j \in 1..Len(p) : EndsDir(p, j)} BY <1>5, <1>9
  <2>2. Parent(d) \in UpperDirs(p) BY <1>6, <2>1, UpperDirsIs, Zenon
  <2>3. Len(Parent(d)) < Len(d) BY <1>2, <1>5, <1>6, <1>7, <1>9
  <2> QED BY <1>2, <2>2, <2>3
<1>10. CASE h # 0 /\ ~EndsDir(p, h)
  <2>1. h = 3 /\ p[2] = ":" BY <1>5, <1>10 DEF EndsDir
  <2>2. Len(Parent(d)) = 2 /\ Parent(d)[2] = ":" /\ Parent(d) \in Seq(Chars)
    BY <1>6, <1>7, <2>1
  <2> QED BY <1>2, <2>2
<1> QED BY <1>8, <1>9, <1>10

(* What the program may take for granted of the path. *)
LEMMA IniPathIs ==
  ASSUME NEW p \in IniPaths
  PROVE  /\ p \in Seq(Chars) /\ Plain(p)
         /\ makeDirs(p, FALSE) = UpperDirs(p)
         /\ fnsplit(p).dir \in UpperDirs(p)
         /\ p \notin UpperDirs(p)
         /\ UpperDirs(p) # {}
<1>1. p \in Seq(Chars) /\ Plain(p) /\ HasExt(p) /\ UpperDirs(p) # {}
  BY IniPathsAssumption
<1>2. makeDirs(p, FALSE) = UpperDirs(p) BY <1>1, DirsHold DEF DirsAreRight
<1>3. p \notin UpperDirs(p) BY <1>1, UpperDirsAre
<1>4. fnsplit(p).dir \in UpperDirs(p)
  <2>1. PICK k : k = ReverseFind(p, Sep) OBVIOUS
  <2>2. IsLast(k, p, Sep) BY <1>1, <2>1, ReverseFindIsLast
  <2>3. NameAt(p) - 2 = k - 1 BY <1>1, <2>2, PlainIs
  <2>4. fnsplit(p).dir = Left(p, k - 1)
    BY <1>1, <2>3, SplitHolds, Zenon DEF SplitIsRight, Plain
  <2>5. PICK i \in 1..Len(p) : EndsDir(p, i) BY <1>1, UpperDirsIs, Zenon
  <2>6. EndsDir(p, k)
    <3>1. i <= k /\ k \in 0..Len(p) /\ (k # 0 => p[k] \in Sep)
      BY <2>2, <2>5 DEF EndsDir, IsLast
    <3>2. k # 3 \/ p[2] # ":"
      <4>1. SUFFICES ASSUME k = 3, p[2] = ":" PROVE FALSE OBVIOUS
      <4>2. i \in {1, 2} BY <2>5, <3>1, <4>1 DEF EndsDir
      <4>3. p[i] \in Sep BY <2>5 DEF EndsDir
      <4>4. p[1] \notin Sep BY <1>1, NamedIs DEF Plain
      <4> QED BY <4>1, <4>2, <4>3, <4>4 DEF Sep
    <3> QED BY <3>1, <3>2 DEF EndsDir
  <2>7. k \in {j \in 1..Len(p) : EndsDir(p, j)} BY <2>6 DEF EndsDir
  <2> QED BY <2>4, <2>7, UpperDirsIs, Zenon
<1> QED BY <1>1, <1>2, <1>3, <1>4

-----------------------------------------------------------------------------
(* The invariant *)

Pcs     == {"idle", "dirs", "read", "add", "reread", "return", "set"}
Entries == Missing \cup Texts

Call == [pc : Pcs, op : Ops, todo : SUBSET D, left : Nat,
         buf : Entries \cup {"none"}, stale : BOOLEAN]

TypeOK ==
  /\ iniPath \in IniPaths
  /\ dirs \subseteq D
  /\ entry \in [Keys -> Entries]
  /\ proc \in [Procs -> Call]
  /\ known \in [Keys -> Texts \cup {"none", "0"}]

(* A call c that has made its directories finds them; while it makes them, *)
(* what it need not make any more is there.                                *)
DirsMade(c, S) ==
  /\ c.pc = "dirs" => c.todo # {} /\ D \ c.todo \subseteq S
  /\ c.pc \in {"read", "add", "reread", "return", "set"} => D \subseteq S

OpKept(c) ==
  /\ c.pc = "set" => c.op = "setHost"
  /\ c.pc \in {"read", "add", "reread", "return"} => c.op # "setHost"

(* What a get that saw the last change knows when the file has text e.     *)
SeesEntry(c, e) ==
  c.stale = FALSE /\ c.op # "setPort" =>
    /\ c.pc = "add" => e \in Missing \cup {"default"}
    /\ c.pc = "reread" => e = "default"
    /\ c.pc = "return" => e = c.buf /\ e \notin Missing

CallOK(c, S, en) == DirsMade(c, S) /\ OpKept(c) /\ SeesEntry(c, en[Key(c.op)])

IInv == TypeOK /\ GotIsInFile /\ \A p \in Procs : CallOK(proc[p], dirs, entry)

(* The same of the path of a state. *)
LEMMA PathFacts ==
  ASSUME iniPath \in IniPaths
  PROVE  /\ Levels(iniPath) = D /\ FileDir \in D /\ iniPath \notin D
         /\ D # {}
         /\ \A d \in D :
              /\ Len(d) \in Nat
              /\ \/ Parent(d) \in D /\ Len(Parent(d)) < Len(d) /\ Len(Parent(d)) \in Nat
                 \/ There(Parent(d))
<1>1. /\ iniPath \in Seq(Chars) /\ Plain(iniPath)
      /\ makeDirs(iniPath, FALSE) = D /\ fnsplit(iniPath).dir \in D
      /\ iniPath \notin D /\ D # {}
  BY IniPathIs, Zenon DEF D
<1>2. ASSUME NEW d \in D
      PROVE  /\ Len(d) \in Nat
             /\ \/ Parent(d) \in D /\ Len(Parent(d)) < Len(d) /\ Len(Parent(d)) \in Nat
                \/ There(Parent(d))
  <2>1. /\ d \in Seq(Chars) /\ Len(d) < Len(iniPath)
        /\ \/ Parent(d) \in D /\ Len(Parent(d)) < Len(d)
           \/ Parent(d) = <<>>
           \/ Parent(d) # <<>> /\ Parent(d)[Len(Parent(d))] = ":"
    BY <1>1, UpperDirsAre DEF D
  <2>2. CASE Parent(d) \in D /\ Len(Parent(d)) < Len(d)
    <3>1. Parent(d) \in Seq(Chars) BY <1>1, <2>2, UpperDirsAre DEF D
    <3> QED BY <2>1, <2>2, <3>1
  <2>3. CASE Parent(d) = <<>>
    <3>1. There(Parent(d)) BY <2>3, Zenon DEF There, ThereIn
    <3> QED BY <2>1, <3>1
  <2>4. CASE Parent(d) # <<>> /\ Parent(d)[Len(Parent(d))] = ":"
    <3>1. There(Parent(d)) BY <2>4, Zenon DEF There, ThereIn
    <3> QED BY <2>1, <3>1
  <2> QED BY <2>1, <2>2, <2>3, <2>4
<1> QED BY <1>1, <1>2, Zenon DEF Levels, FileDir

(* The invariant holds at the start. *)
LEMMA InitOK == Init => IInv
<1> SUFFICES ASSUME Init PROVE IInv OBVIOUS
<1>1. iniPath \in IniPaths BY DEF Init
<1>2. dirs \subseteq D BY <1>1, PathFacts DEF Init, Levels
<1>3. Idle \in Call BY DEF Idle, Call, Pcs, Ops, Entries
<1>4. TypeOK
  <2>1. entry \in [Keys -> Entries]
    <3>1. "absent" \in Entries BY DEF Entries, Missing
    <3> QED BY <3>1 DEF Init, Entries
  <2> QED BY <1>1, <1>2, <1>3, <2>1 DEF TypeOK, Init
<1>5. GotIsInFile BY DEF GotIsInFile, Init
<1>6. CallOK(Idle, dirs, entry)
  BY DEF CallOK, DirsMade, OpKept, SeesEntry, Idle
<1> QED BY <1>4, <1>5, <1>6 DEF IInv, Init

(* A call that goes on while directories are made and its keyword stays.   *)
LEMMA CallKept ==
  ASSUME NEW c, NEW S, NEW T, NEW en, NEW em,
         CallOK(c, S, en), S \subseteq T, em[Key(c.op)] = en[Key(c.op)]
  PROVE  CallOK(c, T, em)
BY DEF CallOK, DirsMade, OpKept, SeesEntry

(* The same when the default is written where nothing was.                 *)
LEMMA CallKeptByDefault ==
  ASSUME NEW c, NEW S, NEW T, NEW en, NEW em, NEW k,
         CallOK(c, S, en), S \subseteq T,
         en[k] \in Missing \cup {"default"}, em[k] = "default",
         Key(c.op) # k => em[Key(c.op)] = en[Key(c.op)]
  PROVE  CallOK(c, T, em)
<1>1. DirsMade(c, T) /\ OpKept(c) BY DEF CallOK, DirsMade
<1>2. "default" \notin Missing BY DEF Missing
<1>3. SeesEntry(c, em[Key(c.op)])
  <2>1. CASE Key(c.op) = k BY <1>2, <2>1 DEF CallOK, SeesEntry
  <2>2. CASE Key(c.op) # k BY <2>2 DEF CallOK
  <2> QED BY <2>1, <2>2
<1> QED BY <1>1, <1>3 DEF CallOK

(* A call that ran during a change counts no more, and one about another   *)
(* keyword is not affected.                                                *)
LEMMA CallDisturbed ==
  ASSUME NEW P, NEW k, NEW q \in Procs, q \notin P, proc[q] \in Call,
         NEW T, NEW em,
         CallOK(proc[q], dirs, entry), dirs \subseteq T,
         Key(proc[q].op) # k => em[Key(proc[q].op)] = entry[Key(proc[q].op)]
  PROVE  CallOK(Disturbed(P, k)[q], T, em) /\ Disturbed(P, k)[q] \in Call
<1> DEFINE c == proc[q]
           b == [c EXCEPT !.stale = TRUE]
<1>1. Disturbed(P, k)[q] = IF c.pc # "idle" /\ Key(c.op) = k THEN b ELSE c
  BY DEF Disturbed
<1>2. CASE c.pc # "idle" /\ Key(c.op) = k
  <2>1. b \in Call /\ b.pc = c.pc /\ b.op = c.op /\ b.todo = c.todo
        /\ b.stale = TRUE
    BY DEF Call
  <2> HIDE DEF b
  <2>2. CallOK(b, T, em)
    BY <2>1 DEF CallOK, DirsMade, OpKept, SeesEntry
  <2> QED BY <1>1, <1>2, <2>1, <2>2
<1>3. CASE c.pc = "idle"
  <2>1. CallOK(c, T, em)
    BY <1>3 DEF CallOK, DirsMade, OpKept, SeesEntry
  <2> QED BY <1>1, <1>3, <2>1
<1>4. CASE Key(c.op) # k
  <2>1. CallOK(c, T, em) BY <1>4, CallKept
  <2> QED BY <1>1, <1>4, <2>1
<1> QED BY <1>2, <1>3, <1>4

-----------------------------------------------------------------------------
(* The steps *)

(* The invariant after a step, from its parts. *)
LEMMA Conclude ==
  ASSUME UNCHANGED iniPath, TypeOK', GotIsInFile',
         \A q \in Procs : CallOK(proc'[q], dirs', entry')
  PROVE  IInv'
<1>1. D' = D BY DEF D
<1> QED BY <1>1 DEF IInv, CallOK, DirsMade, OpKept, SeesEntry

(* The types after a step, from their parts. *)
LEMMA ConcludeType ==
  ASSUME TypeOK, UNCHANGED iniPath, dirs' \subseteq D,
         entry' \in [Keys -> Entries], proc' \in [Procs -> Call],
         known' \in [Keys -> Texts \cup {"none", "0"}]
  PROVE  TypeOK'
<1>1. D' = D BY DEF D
<1>2. Call' = Call BY <1>1 DEF Call
<1> QED BY <1>1, <1>2 DEF TypeOK

(* Making a directory above the file removes none. *)
LEMMA MkdirGrows ==
  ASSUME TypeOK, NEW d \in D, Mkdir(d)
  PROVE  dirs \subseteq dirs' /\ dirs' \subseteq D
BY DEF TypeOK, Mkdir

(* Every operation is about a keyword. *)
LEMMA KeyIs ==
  ASSUME NEW op \in Ops
  PROVE  Key(op) \in Keys
BY DEF Key, Keys

(* Begin keeps the invariant. *)
LEMMA BeginStep ==
  ASSUME IInv, NEW p \in Procs, NEW op \in Ops, Begin(p, op)
  PROVE  IInv'
<1> DEFINE c == [pc |-> "dirs", op |-> op, todo |-> D, left |-> Passes(op),
                 buf |-> "none", stale |-> FALSE]
<1>1. TypeOK /\ GotIsInFile /\ \A q \in Procs : CallOK(proc[q], dirs, entry)
  BY DEF IInv
<1>2. D # {} /\ Levels(iniPath) = D BY <1>1, PathFacts DEF TypeOK
<1>3. /\ UNCHANGED <<iniPath, dirs, entry, known>>
      /\ proc' = [proc EXCEPT ![p] = c]
  BY <1>2 DEF Begin
<1>4. c \in Call BY DEF Call, Pcs, Passes
<1>5. CallOK(c, dirs, entry)
  BY <1>2 DEF CallOK, DirsMade, OpKept, SeesEntry
<1> HIDE DEF c
<1>6. proc' \in [Procs -> Call] BY <1>1, <1>3, <1>4 DEF TypeOK
<1>7. TypeOK' BY <1>1, <1>3, <1>6, ConcludeType DEF TypeOK
<1>8. GotIsInFile' BY <1>1, <1>3 DEF GotIsInFile
<1>9. \A q \in Procs : CallOK(proc'[q], dirs', entry')
  BY <1>1, <1>3, <1>5 DEF TypeOK
<1> QED BY <1>3, <1>7, <1>8, <1>9, Conclude

(* MakeDir keeps the invariant. *)
LEMMA MakeDirStep ==
  ASSUME IInv, NEW p \in Procs, MakeDir(p)
  PROVE  IInv'
<1> DEFINE c == proc[p]
<1>1. TypeOK /\ GotIsInFile /\ \A q \in Procs : CallOK(proc[q], dirs, entry)
  BY DEF IInv
<1>2. c \in Call /\ c.pc = "dirs" /\ c.todo \subseteq D
  BY <1>1 DEF TypeOK, MakeDir, Call
<1>3. /\ Levels(iniPath) = D /\ D # {}
      /\ \A d \in D :
           /\ Len(d) \in Nat
           /\ \/ Parent(d) \in D /\ Len(Parent(d)) < Len(d) /\ Len(Parent(d)) \in Nat
              \/ There(Parent(d))
  BY <1>1, PathFacts DEF TypeOK
<1> DEFINE less(d) == [c EXCEPT !.todo = c.todo \ {d}]
           again == [c EXCEPT !.todo = D, !.left = c.left - 1]
           done == [c EXCEPT !.todo = {}, !.left = 0,
                             !.pc = IF IsSet(c.op) THEN "set" ELSE "read"]
<1>4. PICK d \in c.todo :
        /\ \A e \in c.todo : Len(d) <= Len(e)
        /\ Mkdir(d)
        /\ proc' = [proc EXCEPT ![p] =
             IF c.todo # {d} THEN less(d)
             ELSE IF c.left > 1 THEN again ELSE done]
  BY <1>1, <1>3 DEF MakeDir, TypeOK
<1>5. UNCHANGED <<iniPath, entry, known>> BY DEF MakeDir
<1>6. D \ c.todo \subseteq dirs BY <1>1, <1>2 DEF CallOK, DirsMade
<1>7. There(Parent(d))
  <2>1. SUFFICES ASSUME Parent(d) \in D, Len(Parent(d)) < Len(d),
                        Len(Parent(d)) \in Nat
                 PROVE  There(Parent(d))
    BY <1>2, <1>3, <1>4
  <2>2. Parent(d) \notin c.todo
    <3>1. Len(d) \in Nat BY <1>2, <1>3, <1>4
    <3> QED BY <1>4, <2>1, <3>1
  <2>3. Parent(d) \in dirs BY <1>6, <2>1, <2>2
  <2> QED BY <2>3, Zenon DEF There, ThereIn
<1>8. dirs' = dirs \cup {d} BY <1>4, <1>7 DEF Mkdir
<1>9. dirs \subseteq dirs' /\ dirs' \subseteq D /\ D \ (c.todo \ {d}) \subseteq dirs'
  BY <1>1, <1>2, <1>4, <1>6, <1>8 DEF TypeOK
<1>10. PICK b : b = proc'[p] OBVIOUS
<1>11. b = IF c.todo # {d} THEN less(d)
           ELSE IF c.left > 1 THEN again ELSE done
  BY <1>1, <1>4, <1>10 DEF TypeOK
<1>12. proc' = [proc EXCEPT ![p] = b] BY <1>4, <1>11, Zenon
<1>13. b \in Call /\ CallOK(b, dirs', entry')
  <2>1. CASE c.todo # {d}
    <3>1. b = less(d) BY <1>11, <2>1
    <3>2. c.todo \ {d} # {} BY <1>4, <2>1
    <3>3. /\ b \in Call /\ b.pc = "dirs" /\ b.todo = c.todo \ {d}
      BY <1>2, <3>1 DEF Call
    <3> QED BY <1>9, <3>2, <3>3 DEF CallOK, DirsMade, OpKept, SeesEntry
  <2>2. CASE c.todo = {d}
    <3>1. D \subseteq dirs' BY <1>9, <2>2
    <3>2. CASE c.left > 1
      <4>1. b = again BY <1>11, <2>2, <3>2
      <4>2. c.left \in Nat /\ c.left - 1 \in Nat BY <1>2, <3>2 DEF Call
      <4>3. b \in Call /\ b.pc = "dirs" /\ b.todo = D
        BY <1>2, <4>1, <4>2 DEF Call
      <4> QED BY <1>3, <4>3 DEF CallOK, DirsMade, OpKept, SeesEntry
    <3>3. CASE ~(c.left > 1)
      <4>1. b = done BY <1>11, <2>2, <3>3
      <4>2. /\ b \in Call /\ b.op = c.op /\ c.op \in Ops
            /\ b.pc = IF IsSet(c.op) THEN "set" ELSE "read"
        BY <1>2, <4>1 DEF Call, Pcs
      <4> QED BY <3>1, <4>2 DEF CallOK, DirsMade, OpKept, SeesEntry, IsSet
    <3> QED BY <3>2, <3>3
  <2> QED BY <2>1, <2>2
<1>14. proc' \in [Procs -> Call] BY <1>1, <1>12, <1>13 DEF TypeOK
<1>15. TypeOK' BY <1>1, <1>5, <1>9, <1>14, ConcludeType DEF TypeOK
<1>16. GotIsInFile' BY <1>1, <1>5 DEF GotIsInFile
<1>17. \A q \in Procs : CallOK(proc'[q], dirs', entry')
  <2> TAKE q \in Procs
  <2>1. CASE q = p BY <1>10, <1>13, <2>1
  <2>2. CASE q # p
    <3>1. proc'[q] = proc[q] BY <1>1, <1>12, <2>2 DEF TypeOK
    <3>2. CallOK(proc[q], dirs', entry') BY <1>1, <1>5, <1>9, CallKept
    <3> QED BY <3>1, <3>2
  <2> QED BY <2>1, <2>2
<1> QED BY <1>5, <1>15, <1>16, <1>17, Conclude

(* Read keeps the invariant. *)
LEMMA ReadStep ==
  ASSUME IInv, NEW p \in Procs, Read(p)
  PROVE  IInv'
<1> DEFINE c == proc[p]
           text == entry[Key(c.op)]
           b == [c EXCEPT !.buf = text,
                          !.pc = IF Found(text) THEN "return" ELSE "add"]
<1>1. TypeOK /\ GotIsInFile /\ \A q \in Procs : CallOK(proc[q], dirs, entry)
  BY DEF IInv
<1>2. c \in Call /\ c.pc = "read" /\ c.op \in Ops
  BY <1>1 DEF TypeOK, Read, Call
<1>3. text \in Entries BY <1>1, <1>2, KeyIs DEF TypeOK
<1>4. UNCHANGED <<iniPath, dirs, entry, known>> /\ proc' = [proc EXCEPT ![p] = b]
  BY <1>1 DEF Read, TypeOK
<1>5. /\ b \in Call /\ b.op = c.op /\ b.buf = text /\ b.stale = c.stale
      /\ b.pc = IF Found(text) THEN "return" ELSE "add"
  BY <1>2, <1>3 DEF Call, Pcs
<1> HIDE DEF b
<1>6. CallOK(b, dirs, entry)
  <2>1. CallOK(c, dirs, entry) BY <1>1
  <2> QED BY <1>2, <1>5, <2>1 DEF CallOK, DirsMade, OpKept, SeesEntry, Found
<1>7. proc' \in [Procs -> Call] BY <1>1, <1>4, <1>5 DEF TypeOK
<1>8. TypeOK' BY <1>1, <1>4, <1>7, ConcludeType DEF TypeOK
<1>9. GotIsInFile' BY <1>1, <1>4 DEF GotIsInFile
<1>10. \A q \in Procs : CallOK(proc'[q], dirs', entry')
  BY <1>1, <1>4, <1>6 DEF TypeOK
<1> QED BY <1>4, <1>8, <1>9, <1>10, Conclude

(* Reread keeps the invariant. *)
LEMMA RereadStep ==
  ASSUME IInv, NEW p \in Procs, Reread(p)
  PROVE  IInv'
<1> DEFINE c == proc[p]
           text == entry[Key(c.op)]
           b == [c EXCEPT !.pc = "return",
                   !.buf = IF text = "absent" THEN Given(c.op) ELSE text]
<1>1. TypeOK /\ GotIsInFile /\ \A q \in Procs : CallOK(proc[q], dirs, entry)
  BY DEF IInv
<1>2. c \in Call /\ c.pc = "reread" /\ c.op \in Ops
  BY <1>1 DEF TypeOK, Reread, Call
<1>3. text \in Entries /\ Given(c.op) \in Entries
  BY <1>1, <1>2, KeyIs DEF TypeOK, Given, Entries, Texts
<1>4. UNCHANGED <<iniPath, dirs, entry, known>> /\ proc' = [proc EXCEPT ![p] = b]
  BY <1>1 DEF Reread, TypeOK
<1>5. /\ b \in Call /\ b.op = c.op /\ b.stale = c.stale /\ b.pc = "return"
      /\ b.buf = IF text = "absent" THEN Given(c.op) ELSE text
  BY <1>2, <1>3 DEF Call, Pcs
<1> HIDE DEF b
<1>6. CallOK(b, dirs, entry)
  <2>1. CallOK(c, dirs, entry) BY <1>1
  <2>2. "default" \notin Missing /\ "default" # "absent" BY DEF Missing
  <2> QED BY <1>2, <1>5, <2>1, <2>2 DEF CallOK, DirsMade, OpKept, SeesEntry
<1>7. proc' \in [Procs -> Call] BY <1>1, <1>4, <1>5 DEF TypeOK
<1>8. TypeOK' BY <1>1, <1>4, <1>7, ConcludeType DEF TypeOK
<1>9. GotIsInFile' BY <1>1, <1>4 DEF GotIsInFile
<1>10. \A q \in Procs : CallOK(proc'[q], dirs', entry')
  BY <1>1, <1>4, <1>6 DEF TypeOK
<1> QED BY <1>4, <1>8, <1>9, <1>10, Conclude

(* Return keeps the invariant. *)
LEMMA ReturnStep ==
  ASSUME IInv, NEW p \in Procs, Return(p)
  PROVE  IInv'
<1> DEFINE c == proc[p]
           k == Key(c.op)
           v == AsValue(k, c.buf)
<1>1. TypeOK /\ GotIsInFile /\ \A q \in Procs : CallOK(proc[q], dirs, entry)
  BY DEF IInv
<1>2. c \in Call /\ c.pc = "return" /\ c.op \in Ops /\ c.buf \in Entries \cup {"none"}
  BY <1>1 DEF TypeOK, Return, Call
<1>3. k \in Keys BY <1>2, KeyIs
<1>4. /\ UNCHANGED <<iniPath, dirs, entry>>
      /\ proc' = [proc EXCEPT ![p] = Idle]
      /\ known' = IF c.op = "setPort" \/ c.stale THEN known
                  ELSE [known EXCEPT ![k] = v]
  BY DEF Return
<1>5. Idle \in Call /\ CallOK(Idle, dirs, entry)
  <2>1. Idle \in Call BY DEF Idle, Call, Pcs, Ops
  <2>2. CallOK(Idle, dirs, entry)
    BY DEF CallOK, DirsMade, OpKept, SeesEntry, Idle
  <2> QED BY <2>1, <2>2
<1>6. ASSUME c.op # "setPort", ~c.stale
      PROVE  entry[k] = c.buf /\ c.buf \in Texts
  <2>1. c.stale = FALSE BY <1>2, <1>6 DEF Call
  <2>2. SeesEntry(c, entry[k]) BY <1>1 DEF CallOK
  <2>3. entry[k] = c.buf /\ entry[k] \notin Missing
    BY <1>2, <1>6, <2>1, <2>2 DEF SeesEntry
  <2>4. entry[k] \in Entries BY <1>1, <1>3 DEF TypeOK
  <2> QED BY <2>3, <2>4 DEF Entries
<1> HIDE DEF k
<1>7. known' \in [Keys -> Texts \cup {"none", "0"}]
  <2>1. CASE c.op = "setPort" \/ c.stale BY <1>1, <1>4, <2>1 DEF TypeOK
  <2>2. CASE ~(c.op = "setPort" \/ c.stale)
    <3>1. v \in Texts \cup {"0"} BY <1>6, <2>2 DEF AsValue
    <3> HIDE DEF v
    <3> QED BY <1>1, <1>3, <1>4, <2>2, <3>1 DEF TypeOK
  <2> QED BY <2>1, <2>2
<1>8. GotIsInFile'
  <2>1. CASE c.op = "setPort" \/ c.stale
    BY <1>1, <1>4, <2>1 DEF GotIsInFile
  <2>2. CASE ~(c.op = "setPort" \/ c.stale)
    <3>1. entry[k] = c.buf /\ entry[k] \notin Missing
      BY <1>6, <2>2 DEF Texts, Missing
    <3>2. known' = [known EXCEPT ![k] = v] BY <1>4, <2>2
    <3>3. v = AsValue(k, entry[k]) BY <3>1
    <3> HIDE DEF v
    <3>4. ASSUME NEW j \in Keys, known'[j] # "none"
          PROVE  entry[j] \notin Missing /\ AsValue(j, entry[j]) = known'[j]
      <4>1. CASE j = k BY <1>1, <1>3, <3>1, <3>2, <3>3, <4>1 DEF TypeOK
      <4>2. CASE j # k
        <5>1. known'[j] = known[j] BY <1>1, <3>2, <4>2 DEF TypeOK
        <5> QED BY <1>1, <3>4, <5>1 DEF GotIsInFile
      <4> QED BY <4>1, <4>2
    <3>5. entry' = entry BY <1>4
    <3> QED BY <3>4, <3>5 DEF GotIsInFile
  <2> QED BY <2>1, <2>2
<1>9. proc' \in [Procs -> Call] BY <1>1, <1>4, <1>5 DEF TypeOK
<1>10. TypeOK' BY <1>1, <1>4, <1>7, <1>9, ConcludeType DEF TypeOK
<1>11. \A q \in Procs : CallOK(proc'[q], dirs', entry')
  BY <1>1, <1>4, <1>5 DEF TypeOK
<1> QED BY <1>4, <1>8, <1>10, <1>11, Conclude

(* A write takes effect once the file's directories are there. *)
LEMMA PutSucceeds ==
  ASSUME TypeOK, UNCHANGED iniPath, D \subseteq dirs',
         NEW k \in Keys, NEW text \in Entries, Put(k, text)
  PROVE  /\ entry' = [entry EXCEPT ![k] = text]
         /\ entry' \in [Keys -> Entries]
         /\ entry'[k] = text /\ \A j \in Keys : j # k => entry'[j] = entry[j]
<1>1. FileDir \in D BY PathFacts DEF TypeOK
<1>2. ThereIn(dirs', FileDir) BY <1>1 DEF ThereIn
<1>3. entry' = [entry EXCEPT ![k] = text] BY <1>2 DEF Put
<1> QED BY <1>3 DEF TypeOK

(* After a change of k's entry that makes known forget about it.           *)
LEMMA GotAfterChange ==
  ASSUME TypeOK, GotIsInFile, NEW k \in Keys,
         known' = [known EXCEPT ![k] = "none"],
         \A j \in Keys : j # k => entry'[j] = entry[j]
  PROVE  GotIsInFile'
BY DEF TypeOK, GotIsInFile

(* Add keeps the invariant. *)
LEMMA AddStep ==
  ASSUME IInv, NEW p \in Procs, Add(p)
  PROVE  IInv'
<1> DEFINE c == proc[p]
           k == Key(c.op)
           b == [c EXCEPT !.pc = "reread"]
           change == c.op = "setPort" \/ c.stale
<1>1. TypeOK /\ GotIsInFile /\ \A q \in Procs : CallOK(proc[q], dirs, entry)
  BY DEF IInv
<1>2. c \in Call /\ c.pc = "add" /\ c.op \in Ops /\ c.op # "setHost"
  <2>1. OpKept(c) BY <1>1 DEF CallOK
  <2> QED BY <1>1, <2>1 DEF TypeOK, Add, Call, OpKept
<1>3. k \in Keys BY <1>2, KeyIs
<1>4. Given(c.op) \in Entries BY DEF Given, Entries, Texts
<1>5. /\ UNCHANGED iniPath /\ Mkdir(FileDir) /\ Put(k, Given(c.op))
      /\ known' = IF change THEN [known EXCEPT ![k] = "none"] ELSE known
      /\ proc' = [(IF change THEN Disturbed({p}, k) ELSE proc)
                    EXCEPT ![p].pc = "reread"]
  BY DEF Add
<1>6. dirs \subseteq dirs' /\ dirs' \subseteq D
  <2>1. FileDir \in D BY <1>1, PathFacts DEF TypeOK
  <2> QED BY <1>1, <1>5, <2>1, MkdirGrows
<1>7. D \subseteq dirs'
  <2>1. DirsMade(c, dirs) BY <1>1 DEF CallOK
  <2> QED BY <1>2, <1>6, <2>1 DEF DirsMade
<1>8. /\ entry' \in [Keys -> Entries] /\ entry'[k] = Given(c.op)
      /\ \A j \in Keys : j # k => entry'[j] = entry[j]
  BY <1>1, <1>3, <1>4, <1>5, <1>7, PutSucceeds
<1>9. /\ b \in Call /\ b.pc = "reread" /\ b.op = c.op /\ b.stale = c.stale
  BY <1>2 DEF Call, Pcs
<1>10. \A q \in Procs : proc[q] \in Call /\ Key(proc[q].op) \in Keys
  BY <1>1, KeyIs DEF TypeOK, Call
<1> HIDE DEF k
<1>11. CASE change
  <2> DEFINE f == Disturbed({p}, k)
  <2>1. /\ known' = [known EXCEPT ![k] = "none"]
        /\ proc' = [f EXCEPT ![p].pc = "reread"]
    BY <1>5, <1>11
  <2>2. ASSUME NEW q \in Procs, q # p
        PROVE  CallOK(f[q], dirs', entry') /\ f[q] \in Call
    <3>1. q \notin {p} BY <2>2
    <3>2. Key(proc[q].op) # k => entry'[Key(proc[q].op)] = entry[Key(proc[q].op)]
      BY <1>8, <1>10
    <3> QED BY <1>1, <1>6, <1>10, <3>1, <3>2, CallDisturbed
  <2>3. f[p] = c /\ DOMAIN f = Procs /\ f = [q \in Procs |-> f[q]]
    BY DEF Disturbed
  <2> HIDE DEF f
  <2>4. proc'[p] = b /\ \A q \in Procs : q # p => proc'[q] = f[q]
    BY <2>1, <2>3
  <2>5. CallOK(b, dirs', entry')
    BY <1>2, <1>7, <1>9, <1>11 DEF CallOK, DirsMade, OpKept, SeesEntry
  <2>6. proc' \in [Procs -> Call]
    <3>1. proc' = [q \in Procs |-> proc'[q]] BY <2>1, <2>3
    <3>2. \A q \in Procs : proc'[q] \in Call BY <1>9, <2>2, <2>4
    <3> QED BY <3>1, <3>2
  <2>7. known' \in [Keys -> Texts \cup {"none", "0"}]
    BY <1>1, <1>3, <2>1 DEF TypeOK
  <2>8. TypeOK' BY <1>1, <1>5, <1>6, <1>8, <2>6, <2>7, ConcludeType
  <2>9. GotIsInFile' BY <1>1, <1>3, <1>8, <2>1, GotAfterChange
  <2>10. \A q \in Procs : CallOK(proc'[q], dirs', entry') BY <2>2, <2>4, <2>5
  <2> QED BY <1>5, <2>8, <2>9, <2>10, Conclude
<1>12. CASE ~change
  <2>1. known' = known /\ proc' = [proc EXCEPT ![p] = b]
    BY <1>1, <1>5, <1>12 DEF TypeOK
  <2>2. c.stale = FALSE /\ c.op # "setPort" BY <1>2, <1>12 DEF Call
  <2>3. Given(c.op) = "default" BY <1>2, <2>2 DEF Given
  <2>4. entry[k] \in Missing \cup {"default"}
    <3>1. SeesEntry(c, entry[k]) BY <1>1 DEF CallOK, k
    <3> QED BY <1>2, <2>2, <3>1 DEF SeesEntry
  <2>5. ASSUME NEW q \in Procs
        PROVE  CallOK(proc[q], dirs', entry')
    <3>1. Key(proc[q].op) # k => entry'[Key(proc[q].op)] = entry[Key(proc[q].op)]
      BY <1>8, <1>10
    <3> QED BY <1>1, <1>6, <1>8, <2>3, <2>4, <3>1, CallKeptByDefault
  <2>6. CallOK(b, dirs', entry')
    BY <1>2, <1>7, <1>8, <1>9, <2>3 DEF CallOK, DirsMade, OpKept, SeesEntry, k
  <2> HIDE DEF b
  <2>7. proc' \in [Procs -> Call] BY <1>1, <1>9, <2>1 DEF TypeOK
  <2>8. TypeOK' BY <1>1, <1>5, <1>6, <1>8, <2>1, <2>7, ConcludeType DEF TypeOK
  <2>9. GotIsInFile'
    <3>1. ASSUME NEW j \in Keys, known[j] # "none"
          PROVE  entry'[j] = entry[j]
      <4>1. entry[j] \notin Missing BY <1>1, <3>1 DEF GotIsInFile
      <4> QED BY <1>8, <2>3, <2>4, <4>1
    <3> QED BY <1>1, <2>1, <3>1 DEF GotIsInFile
  <2>10. \A q \in Procs : CallOK(proc'[q], dirs', entry')
    BY <1>1, <2>1, <2>5, <2>6 DEF TypeOK
  <2> QED BY <1>5, <2>8, <2>9, <2>10, Conclude
<1> QED BY <1>11, <1>12

(* Set keeps the invariant. *)
LEMMA SetStep ==
  ASSUME IInv, NEW p \in Procs, Set(p)
  PROVE  IInv'
<1> DEFINE c == proc[p]
           f == Disturbed({p}, "host")
<1>1. TypeOK /\ GotIsInFile /\ \A q \in Procs : CallOK(proc[q], dirs, entry)
  BY DEF IInv
<1>2. /\ UNCHANGED <<iniPath, dirs>> /\ Put("host", "other")
      /\ known' = [known EXCEPT !["host"] = "other"]
      /\ proc' = [f EXCEPT ![p] = Idle]
      /\ c.pc = "set"
  BY DEF Set
<1>3. D \subseteq dirs'
  <2>1. DirsMade(c, dirs) BY <1>1 DEF CallOK
  <2> QED BY <1>2, <2>1 DEF DirsMade
<1>4. "host" \in Keys /\ "other" \in Entries /\ "other" \in Texts
      /\ "other" \notin Missing
  BY DEF Keys, Entries, Texts, Missing
<1>5. /\ entry' \in [Keys -> Entries] /\ entry'["host"] = "other"
      /\ \A j \in Keys : j # "host" => entry'[j] = entry[j]
  BY <1>1, <1>2, <1>3, <1>4, PutSucceeds
<1>6. Idle \in Call /\ CallOK(Idle, dirs', entry')
  <2>1. Idle \in Call BY DEF Idle, Call, Pcs, Ops
  <2>2. CallOK(Idle, dirs', entry')
    BY DEF CallOK, DirsMade, OpKept, SeesEntry, Idle
  <2> QED BY <2>1, <2>2
<1>7. \A q \in Procs : proc[q] \in Call /\ Key(proc[q].op) \in Keys
  BY <1>1, KeyIs DEF TypeOK, Call
<1>8. ASSUME NEW q \in Procs, q # p
      PROVE  CallOK(f[q], dirs', entry') /\ f[q] \in Call
  <2>1. q \notin {p} /\ dirs \subseteq dirs' BY <1>2, <1>8
  <2>2. Key(proc[q].op) # "host"
          => entry'[Key(proc[q].op)] = entry[Key(proc[q].op)]
    BY <1>5, <1>7
  <2> QED BY <1>1, <1>7, <2>1, <2>2, CallDisturbed
<1>9. f = [q \in Procs |-> f[q]] BY DEF Disturbed
<1> HIDE DEF f
<1>10. proc'[p] = Idle /\ \A q \in Procs : q # p => proc'[q] = f[q]
  BY <1>2, <1>9
<1>11. proc' \in [Procs -> Call]
  <2>1. proc' = [q \in Procs |-> proc'[q]] BY <1>2, <1>9
  <2>2. \A q \in Procs : proc'[q] \in Call BY <1>6, <1>8, <1>10
  <2> QED BY <2>1, <2>2
<1>12. known' \in [Keys -> Texts \cup {"none", "0"}]
  BY <1>1, <1>2, <1>4 DEF TypeOK
<1>13. TypeOK' BY <1>1, <1>2, <1>5, <1>11, <1>12, ConcludeType DEF TypeOK
<1>14. GotIsInFile'
  <2>1. ASSUME NEW j \in Keys, known'[j] # "none"
        PROVE  entry'[j] \notin Missing /\ AsValue(j, entry'[j]) = known'[j]
    <3>1. CASE j = "host"
      <4>1. known'[j] = "other" /\ entry'[j] = "other"
        BY <1>1, <1>2, <1>5, <3>1 DEF TypeOK
      <4> QED BY <1>4, <3>1, <4>1 DEF AsValue
    <3>2. CASE j # "host"
      <4>1. known'[j] = known[j] /\ entry'[j] = entry[j]
        BY <1>1, <1>2, <1>5, <3>2 DEF TypeOK
      <4> QED BY <1>1, <2>1, <4>1 DEF GotIsInFile
    <3> QED BY <3>1, <3>2
  <2> QED BY <2>1 DEF GotIsInFile
<1>15. \A q \in Procs : CallOK(proc'[q], dirs', entry') BY <1>6, <1>8, <1>10
<1> QED BY <1>2, <1>13, <1>14, <1>15, Conclude

(* Edit keeps the invariant. *)
LEMMA EditStep ==
  ASSUME IInv, NEW k \in Keys, NEW text \in Missing \cup Texts, Edit(k, text)
  PROVE  IInv'
<1> DEFINE f == Disturbed({}, k)
<1>1. TypeOK /\ GotIsInFile /\ \A q \in Procs : CallOK(proc[q], dirs, entry)
  BY DEF IInv
<1>2. /\ UNCHANGED <<iniPath, dirs>> /\ entry' = [entry EXCEPT ![k] = text]
      /\ known' = [known EXCEPT ![k] = "none"] /\ proc' = f
  BY DEF Edit
<1>3. /\ entry' \in [Keys -> Entries]
      /\ \A j \in Keys : j # k => entry'[j] = entry[j]
  BY <1>1, <1>2 DEF TypeOK, Entries
<1>4. \A q \in Procs : proc[q] \in Call /\ Key(proc[q].op) \in Keys
  BY <1>1, KeyIs DEF TypeOK, Call
<1>5. ASSUME NEW q \in Procs
      PROVE  CallOK(f[q], dirs', entry') /\ f[q] \in Call
  <2>1. q \notin {} /\ dirs \subseteq dirs' BY <1>2
  <2>2. Key(proc[q].op) # k => entry'[Key(proc[q].op)] = entry[Key(proc[q].op)]
    BY <1>3, <1>4
  <2> QED BY <1>1, <1>4, <2>1, <2>2, CallDisturbed
<1>6. f = [q \in Procs |-> f[q]] BY DEF Disturbed
<1> HIDE DEF f
<1>7. proc' \in [Procs -> Call] BY <1>2, <1>5, <1>6
<1>8. known' \in [Keys -> Texts \cup {"none", "0"}] BY <1>1, <1>2 DEF TypeOK
<1>9. TypeOK' BY <1>1, <1>2, <1>3, <1>7, <1>8, ConcludeType DEF TypeOK
<1>10. GotIsInFile' BY <1>1, <1>2, <1>3, GotAfterChange
<1>11. \A q \in Procs : CallOK(proc'[q], dirs', entry') BY <1>2, <1>5
<1> QED BY <1>2, <1>9, <1>10, <1>11, Conclude

(* Stutter keeps the invariant. *)
LEMMA StutterStep ==
  ASSUME IInv, UNCHANGED vars
  PROVE  IInv'
<1>1. UNCHANGED <<iniPath, dirs, entry, proc, known>> BY DEF vars
<1>2. TypeOK /\ GotIsInFile /\ \A q \in Procs : CallOK(proc[q], dirs, entry)
  BY DEF IInv
<1>3. TypeOK' BY <1>1, <1>2, ConcludeType DEF TypeOK
<1>4. GotIsInFile' BY <1>1, <1>2 DEF GotIsInFile
<1>5. \A q \in Procs : CallOK(proc'[q], dirs', entry') BY <1>1, <1>2
<1> QED BY <1>1, <1>3, <1>4, <1>5, Conclude

(* The inductive invariant: types, GotIsInFile, and what each call may     *)
(* rely on.                                                                *)
THEOREM InvHolds == Spec => []IInv
<1>1. IInv /\ [Next]_vars => IInv'
  <2> SUFFICES ASSUME IInv, [Next]_vars PROVE IInv' OBVIOUS
  <2>1. CASE UNCHANGED vars BY <2>1, StutterStep
  <2>2. ASSUME NEW p \in Procs, NEW op \in Ops, Begin(p, op) PROVE IInv'
    BY <2>2, BeginStep
  <2>3. ASSUME NEW p \in Procs, MakeDir(p) PROVE IInv' BY <2>3, MakeDirStep
  <2>4. ASSUME NEW p \in Procs, Read(p) PROVE IInv' BY <2>4, ReadStep
  <2>5. ASSUME NEW p \in Procs, Add(p) PROVE IInv' BY <2>5, AddStep
  <2>6. ASSUME NEW p \in Procs, Reread(p) PROVE IInv' BY <2>6, RereadStep
  <2>7. ASSUME NEW p \in Procs, Return(p) PROVE IInv' BY <2>7, ReturnStep
  <2>8. ASSUME NEW p \in Procs, Set(p) PROVE IInv' BY <2>8, SetStep
  <2>9. ASSUME NEW k \in Keys, NEW text \in Missing \cup Texts, Edit(k, text)
        PROVE  IInv'
    BY <2>9, EditStep
  <2> QED
    BY <2>1, <2>2, <2>3, <2>4, <2>5, <2>6, <2>7, <2>8, <2>9, Zenon DEF Next
<1> QED BY InitOK, <1>1, PTL DEF Spec

-----------------------------------------------------------------------------
(* What follows *)

(* Whoever writes the file finds its directory, whatever the path and      *)
(* however many processes make it at the same time.                        *)
THEOREM WriteSucceedsHolds == Spec => []WriteSucceeds
<1>1. IInv => WriteSucceeds
  <2> SUFFICES ASSUME IInv, NEW p \in Procs, proc[p].pc \in {"add", "set"}
               PROVE  There(FileDir) /\ iniPath \notin dirs
    BY DEF WriteSucceeds
  <2>1. TypeOK /\ DirsMade(proc[p], dirs) BY DEF IInv, CallOK
  <2>2. FileDir \in D /\ iniPath \notin D BY <2>1, PathFacts DEF TypeOK
  <2>3. D \subseteq dirs /\ dirs \subseteq D BY <2>1 DEF DirsMade, TypeOK
  <2>4. There(FileDir) BY <2>2, <2>3, Zenon DEF There, ThereIn
  <2> QED BY <2>2, <2>3, <2>4
<1> QED BY InvHolds, <1>1, PTL

(* What has been got or set is an entry of the file, for every path and    *)
(* number of processes.                                                    *)
THEOREM GotIsInFileHolds == Spec => []GotIsInFile
<1>1. IInv => GotIsInFile BY DEF IInv
<1> QED BY InvHolds, <1>1, PTL

(* What one process gets every other gets too, until it is changed.        *)
THEOREM GetsAgreeHolds == Spec => []GetsAgree
<1>1. IInv => GetsAgree
  <2> SUFFICES ASSUME IInv, NEW p \in Procs, proc[p].pc = "return",
                      proc[p].op # "setPort", ~proc[p].stale,
                      known[Key(proc[p].op)] # "none"
               PROVE  known[Key(proc[p].op)]
                        = AsValue(Key(proc[p].op), proc[p].buf)
    BY DEF GetsAgree
  <2>1. /\ TypeOK /\ GotIsInFile
        /\ SeesEntry(proc[p], entry[Key(proc[p].op)])
    BY DEF IInv, CallOK
  <2>2. proc[p] \in Call /\ proc[p].stale = FALSE BY <2>1 DEF TypeOK, Call
  <2>3. entry[Key(proc[p].op)] = proc[p].buf BY <2>1, <2>2 DEF SeesEntry
  <2>4. Key(proc[p].op) \in Keys BY <2>2, KeyIs DEF Call
  <2> QED BY <2>1, <2>3, <2>4 DEF GotIsInFile
<1> QED BY InvHolds, <1>1, PTL

-----------------------------------------------------------------------------
(* The path functions, whatever the bound on the paths                     *)

(* The paths looked at are paths. *)
LEMMA AllPathsAre ==
  ASSUME NEW p \in AllPaths
  PROVE  p \in Seq(Chars)
<1>1. PICK n \in 0..MaxLen : p \in [1..n -> Chars] BY DEF AllPaths
<1>2. n \in Nat BY MaxLenAssumption
<1> QED BY <1>1, <1>2

(* fnsplit is right on every path that it cuts where it should, of any     *)
(* length.                                                                 *)
THEOREM SplitIsAlwaysRightHolds == Spec => []SplitIsAlwaysRight
<1>1. SplitIsAlwaysRight
  BY AllPathsAre, SplitHolds DEF SplitIsAlwaysRight
<1> QED BY <1>1, PTL

(* fnmerge undoes fnsplit on every plain path of a file, of any length. *)
THEOREM MergeAlwaysInvertsHolds == Spec => []MergeAlwaysInverts
<1>1. MergeAlwaysInverts
  BY AllPathsAre, MergeHolds
  DEF MergeAlwaysInverts, PathsOfFiles, PlainPaths
<1> QED BY <1>1, PTL

(* fnSetSuffix is right on every plain path of a file, of any length. *)
THEOREM SuffixIsAlwaysReplacedHolds == Spec => []SuffixIsAlwaysReplaced
<1>1. SuffixIsAlwaysReplaced
  BY AllPathsAre, SuffixHolds
  DEF SuffixIsAlwaysReplaced, PathsOfFiles, PlainPaths
<1> QED BY <1>1, PTL

(* makeDirAndUpperDirs is right on every plain path of a file, of any      *)
(* length.                                                                 *)
THEOREM DirsAreAlwaysRightHolds == Spec => []DirsAreAlwaysRight
<1>1. DirsAreAlwaysRight
  BY AllPathsAre, DirsHold
  DEF DirsAreAlwaysRight, PathsOfFiles, PlainPaths
<1> QED BY <1>1, PTL

-----------------------------------------------------------------------------
(* The arguments that are looked at are such as the theorems are about     *)

(* What the symbols are in lower case. *)
LEMMA LowerIs ==
  /\ Lower("/localhost") = "/localhost" /\ Lower("/hawk") = "/hawk"
  /\ Lower("/host") = "/host" /\ Lower("/port") = "/port"
  /\ Lower("name") = "name" /\ Lower("=") = "=" /\ Lower("a") = "a"
  /\ Lower("A") = "a" /\ Lower("0") = "0" /\ Lower("1") = "1"
  /\ Lower(Space) = Space /\ Lower(Quote) = Quote
BY DEF Lower, Space, Quote

(* The first two symbols of what is looked for. *)
Begins(key, x, y) == Mark(key)[1] = x /\ Mark(key)[2] = y

(* What the keywords and flags begin with. *)
LEMMA MarksBegin ==
  /\ Begins(HostKey, "/host", "=") /\ Begins(PortKey, "/port", "=")
  /\ Begins(<<"/localhost">>, "/localhost", Space)
  /\ Begins(<<"/host", "name">>, "/host", "name")
  /\ Begins(<<"/hawk">>, "/hawk", Space)
<1>1. HostKey \notin Flags /\ PortKey \notin Flags
  BY DEF HostKey, PortKey, Flags
<1>2. /\ <<"/localhost">> \in Flags /\ <<"/host", "name">> \in Flags
      /\ <<"/hawk">> \in Flags
  BY DEF Flags
<1>3. Begins(HostKey, "/host", "=") /\ Begins(PortKey, "/port", "=")
  BY <1>1 DEF Begins, Mark, HostKey, PortKey
<1>4. /\ Begins(<<"/localhost">>, "/localhost", Space)
      /\ Begins(<<"/host", "name">>, "/host", "name")
      /\ Begins(<<"/hawk">>, "/hawk", Space)
  BY <1>2 DEF Begins, Mark, Spaced
<1> QED BY <1>3, <1>4

(* Nowhere does t go like what is looked for begins. *)
Free(t, x, y) ==
  \A i \in 1..Len(t) - 1 : ~(Lower(t[i]) = x /\ Lower(t[i + 1]) = y)

(* Without its first two symbols there is no match. *)
LEMMA FreeIs ==
  ASSUME NEW key \in ArgKeys, NEW t \in Text, NEW x, NEW y,
         Begins(key, x, y), Free(t, x, y)
  PROVE  NoMatch(Mark(key), t)
<1>1. PICK K : K = Mark(key) OBVIOUS
<1>2. K \in Text /\ Len(K) >= 2
  <2>1. CASE key \in Flags
    <3>1. K = Spaced(key) BY <1>1, <2>1 DEF Mark
    <3>2. key \in Text /\ Len(key) \in {1, 2} BY <2>1, FlagIs
    <3>3. K \in Text /\ Len(K) = Len(key) + 1 BY <3>1, <3>2, SpacedIs
    <3> QED BY <3>2, <3>3
  <2>2. CASE key \notin Flags
    <3>1. K = key /\ key \in {HostKey, PortKey}
      BY <1>1, <2>2 DEF Mark, ArgKeys
    <3> QED BY <3>1, HostKeyIs, PortKeyIs DEF AKey
  <2> QED BY <2>1, <2>2
<1>3. K[1] = x /\ K[2] = y BY <1>1 DEF Begins
<1>4. ASSUME NEW k \in Nat, MatchAt(K, t, k) PROVE FALSE
  <2>1. k \in Nat \ {0} /\ k + Len(K) <= Len(t) + 1
        /\ \A j \in 1..Len(K) : Lower(t[k + j - 1]) = K[j]
    BY <1>4 DEF MatchAt
  <2>2. Len(t) \in Nat /\ Len(K) \in Nat BY <1>2 DEF Text
  <2>3. 1 \in 1..Len(K) /\ 2 \in 1..Len(K) BY <1>2, <2>2
  <2>4. k + 1 - 1 = k /\ k + 2 - 1 = k + 1 OBVIOUS
  <2>5. Lower(t[k]) = x /\ Lower(t[k + 1]) = y BY <1>3, <2>1, <2>3, <2>4
  <2>6. k \in 1..Len(t) - 1 BY <1>2, <2>1, <2>2
  <2> QED BY <2>5, <2>6 DEF Free
<1> QED BY <1>1, <1>4 DEF NoMatch

(* No quotes are closed, and two are. *)
LEMMA EvenIs ==
  ASSUME NEW q \in Text
  PROVE  /\ Positions(q, {Quote}) = {} => Even(q)
         /\ \A i, j : i # j /\ Positions(q, {Quote}) = {i, j} => Even(q)
<1>1. PICK e : e = <<>> OBVIOUS
<1>2. e \in Text /\ e \o q = q BY <1>1 DEF Text
<1>3. Even(e)
  <2>1. Positions(e, {Quote}) = {} BY <1>1 DEF Positions
  <2> QED BY <2>1, FS_EmptySet DEF Even, Count
<1> QED BY <1>2, <1>3, QuotesBehind

(* The text goes like no key or flag begins, but like its own. *)
AllFree(t, key) ==
  /\ key # HostKey => Free(t, "/host", "=")
  /\ key # PortKey => Free(t, "/port", "=")
  /\ key # <<"/localhost">> => Free(t, "/localhost", Space)
  /\ key # <<"/host", "name">> => Free(t, "/host", "name")
  /\ key # <<"/hawk">> => Free(t, "/hawk", Space)

(* In such a text no other key or flag is found. *)
LEMMA AllFreeIs ==
  ASSUME NEW t \in Text, NEW key, AllFree(t, key),
         NEW k \in ArgKeys, k # key
  PROVE  NoMatch(Mark(k), t)
<1>1. CASE k = HostKey BY <1>1, MarksBegin, FreeIs DEF AllFree
<1>2. CASE k = PortKey BY <1>2, MarksBegin, FreeIs DEF AllFree
<1>3. CASE k = <<"/localhost">> BY <1>3, MarksBegin, FreeIs DEF AllFree
<1>4. CASE k = <<"/host", "name">> BY <1>4, MarksBegin, FreeIs DEF AllFree
<1>5. CASE k = <<"/hawk">> BY <1>5, MarksBegin, FreeIs DEF AllFree
<1> QED BY <1>1, <1>2, <1>3, <1>4, <1>5 DEF ArgKeys, Flags

(* The symbols that are named are not the same. *)
LEMMA SymbolsDiffer ==
  /\ Quote # "\t" /\ Space # "\t" /\ Space # Quote
  /\ \A c \in {"a", "0", "1", "A", "=", "name", "/host", "/port", "/localhost",
                "/hawk"} :
       c # Space /\ c # Quote /\ c # "\t"
BY DEF Space, Quote

(* What an argument is made of. *)
LEMMA ArgumentIs ==
  ASSUME NEW t \in Text, NEW k \in Text, NEW v \in Text
  PROVE  [text |-> t, key |-> k, value |-> v] \in Argument
BY DEF Argument

(* What every argument of SomeArgs has. *)
Common(a) ==
  /\ a \in Argument /\ Positions(a.text, {"\t"}) = {} /\ Even(a.text)
  /\ AllFree(Spaced(a.text), a.key)

(* Of that it is an argument as in the theorem, but for its value. *)
LEMMA CommonIs ==
  ASSUME NEW a, Common(a)
  PROVE  /\ a \in Argument /\ Positions(a.text, {"\t"}) = {}
         /\ Even(a.text)
         /\ \A k \in ArgKeys : k # a.key => NoMatch(Mark(k), Spaced(a.text))
<1>1. a.text \in Text BY DEF Common, Argument
<1>2. Spaced(a.text) \in Text BY <1>1, SpacedIs
<1> QED BY <1>2, AllFreeIs DEF Common

(* A word that is nothing. *)
LEMMA WordIs == Common(Flag(<<"a">>))
<1>1. PICK a : a = Flag(<<"a">>) OBVIOUS
<1>2. PICK t : t = <<"a">> OBVIOUS
<1>3. PICK k : k = <<"a">> OBVIOUS
<1>4. PICK v : v = <<>> OBVIOUS
<1>5. a = [text |-> t, key |-> k, value |-> v]
  BY <1>1, <1>2, <1>3, <1>4 DEF Flag, Bare, Quoted, HostKey, PortKey
<1>6. t \in Text /\ k \in Text /\ v \in Text
  BY <1>2, <1>3, <1>4 DEF Text, Symbols
<1>7. a \in Argument BY <1>5, <1>6, ArgumentIs
<1>8. PICK s : s = Spaced(t) OBVIOUS
<1>9. Len(t) = 1 /\ t[1] = "a"
  BY <1>2
<1>10. Len(s) = 2 /\ s[1] = "a" /\ s[2] = Space
  BY <1>2, <1>8 DEF Spaced
<1>11. \A i \in 1..1 : i = 1 OBVIOUS
<1>12. Positions(t, {"\t"}) = {}
  <2>1. \A i \in 1..1 : t[i] # "\t"
    BY <1>9, <1>11, SymbolsDiffer
  <2> QED BY <1>9, <2>1 DEF Positions
<1>13. Positions(t, {Quote}) = {}
  <2>1. \A i \in 1..1 : t[i] # Quote BY <1>9, <1>11, SymbolsDiffer
  <2> QED BY <1>9, <2>1 DEF Positions
<1>14. Even(t) BY <1>6, <1>13, EvenIs
<1>15. Lower(s[1]) = "a" /\ Lower(s[2]) = Space
  BY <1>10, LowerIs
<1>16. \A i \in 1..1 :
         \/ Lower(s[i]) = "a" /\ Lower(s[i + 1]) = Space
  BY <1>11, <1>15
<1>17. Len(s) - 1 = 1 BY <1>10
<1>18. /\ Free(s, "/host", "=")
       /\ Free(s, "/port", "=")
       /\ Free(s, "/localhost", Space)
       /\ Free(s, "/host", "name")
       /\ Free(s, "/hawk", Space)
  <2>1. Free(s, "/host", "=") BY <1>16, <1>17, SymbolsDiffer DEF Free
  <2>2. Free(s, "/port", "=") BY <1>16, <1>17, SymbolsDiffer DEF Free
  <2>3. Free(s, "/localhost", Space) BY <1>16, <1>17, SymbolsDiffer DEF Free
  <2>4. Free(s, "/host", "name") BY <1>16, <1>17, SymbolsDiffer DEF Free
  <2>5. Free(s, "/hawk", Space) BY <1>16, <1>17, SymbolsDiffer DEF Free
  <2> QED BY <2>1, <2>2, <2>3, <2>4, <2>5
<1>19. AllFree(s, k) BY <1>18 DEF AllFree
<1> QED BY <1>1, <1>2, <1>5, <1>7, <1>8, <1>12, <1>14, <1>19 DEF Common

(* Words in quotes are nothing. *)
LEMMA SentenceIs == Common(Quoted(<<>>, <<"a", Space, "a">>))
<1>1. PICK a : a = Quoted(<<>>, <<"a", Space, "a">>) OBVIOUS
<1>2. PICK t : t = <<Quote, "a", Space, "a", Quote>> OBVIOUS
<1>3. PICK k : k = <<>> OBVIOUS
<1>4. PICK v : v = <<"a", Space, "a">> OBVIOUS
<1>5. a = [text |-> t, key |-> k, value |-> v]
  BY <1>1, <1>2, <1>3, <1>4, SMTT(30) DEF Flag, Bare, Quoted, HostKey, PortKey
<1>6. t \in Text /\ k \in Text /\ v \in Text
  BY <1>2, <1>3, <1>4 DEF Text, Symbols
<1>7. a \in Argument BY <1>5, <1>6, ArgumentIs
<1>8. PICK s : s = Spaced(t) OBVIOUS
<1>9. Len(t) = 5 /\ t[1] = Quote /\ t[2] = "a" /\ t[3] = Space /\ t[4] = "a"
      /\ t[5] = Quote
  BY <1>2
<1>10. Len(s) = 6 /\ s[1] = Quote /\ s[2] = "a" /\ s[3] = Space
       /\ s[4] = "a" /\ s[5] = Quote /\ s[6] = Space
  BY <1>2, <1>8 DEF Spaced
<1>11. \A i \in 1..5 : i = 1 \/ i = 2 \/ i = 3 \/ i = 4 \/ i = 5 OBVIOUS
<1>12. Positions(t, {"\t"}) = {}
  <2>1. \A i \in 1..5 : t[i] # "\t"
    BY <1>9, <1>11, SymbolsDiffer
  <2> QED BY <1>9, <2>1 DEF Positions
<1>13. Positions(t, {Quote}) = {1, 5}
  <2>1. t[2] # Quote /\ t[3] # Quote /\ t[4] # Quote
    BY <1>9, SymbolsDiffer
  <2>2. \A i \in 1..5 : t[i] = Quote <=> i = 1 \/ i = 5
    BY <1>9, <1>11, <2>1
  <2> QED BY <1>9, <2>2 DEF Positions
<1>14. Even(t)
  <2>1. PICK i, j : i = 1 /\ j = 5 OBVIOUS
  <2>2. i # j /\ Positions(t, {Quote}) = {i, j} BY <1>13, <2>1
  <2> QED BY <1>6, <2>2, EvenIs
<1>15. Lower(s[1]) = Quote /\ Lower(s[2]) = "a" /\ Lower(s[3]) = Space
       /\ Lower(s[4]) = "a" /\ Lower(s[5]) = Quote /\ Lower(s[6]) = Space
  BY <1>10, LowerIs
<1>16. \A i \in 1..5 :
         \/ Lower(s[i]) = Quote /\ Lower(s[i + 1]) = "a"
         \/ Lower(s[i]) = "a" /\ Lower(s[i + 1]) = Space
         \/ Lower(s[i]) = Space /\ Lower(s[i + 1]) = "a"
         \/ Lower(s[i]) = "a" /\ Lower(s[i + 1]) = Quote
         \/ Lower(s[i]) = Quote /\ Lower(s[i + 1]) = Space
  BY <1>11, <1>15
<1>17. Len(s) - 1 = 5 BY <1>10
<1>18. /\ Free(s, "/host", "=")
       /\ Free(s, "/port", "=")
       /\ Free(s, "/localhost", Space)
       /\ Free(s, "/host", "name")
       /\ Free(s, "/hawk", Space)
  <2>1. Free(s, "/host", "=") BY <1>16, <1>17, SymbolsDiffer DEF Free
  <2>2. Free(s, "/port", "=") BY <1>16, <1>17, SymbolsDiffer DEF Free
  <2>3. Free(s, "/localhost", Space) BY <1>16, <1>17, SymbolsDiffer DEF Free
  <2>4. Free(s, "/host", "name") BY <1>16, <1>17, SymbolsDiffer DEF Free
  <2>5. Free(s, "/hawk", Space) BY <1>16, <1>17, SymbolsDiffer DEF Free
  <2> QED BY <2>1, <2>2, <2>3, <2>4, <2>5
<1>19. AllFree(s, k) BY <1>18 DEF AllFree
<1> QED BY <1>1, <1>2, <1>5, <1>7, <1>8, <1>12, <1>14, <1>19 DEF Common

(* What only begins like a flag is nothing. *)
LEMMA LikeAFlagIs == Common(Flag(<<"/localhost", "a">>))
<1>1. PICK a : a = Flag(<<"/localhost", "a">>) OBVIOUS
<1>2. PICK t : t = <<"/localhost", "a">> OBVIOUS
<1>3. PICK k : k = <<"/localhost", "a">> OBVIOUS
<1>4. PICK v : v = <<>> OBVIOUS
<1>5. a = [text |-> t, key |-> k, value |-> v]
  BY <1>1, <1>2, <1>3, <1>4 DEF Flag, Bare, Quoted, HostKey, PortKey
<1>6. t \in Text /\ k \in Text /\ v \in Text
  BY <1>2, <1>3, <1>4 DEF Text, Symbols
<1>7. a \in Argument BY <1>5, <1>6, ArgumentIs
<1>8. PICK s : s = Spaced(t) OBVIOUS
<1>9. Len(t) = 2 /\ t[1] = "/localhost" /\ t[2] = "a"
  BY <1>2
<1>10. Len(s) = 3 /\ s[1] = "/localhost" /\ s[2] = "a" /\ s[3] = Space
  BY <1>2, <1>8 DEF Spaced
<1>11. \A i \in 1..2 : i = 1 \/ i = 2 OBVIOUS
<1>12. Positions(t, {"\t"}) = {}
  <2>1. \A i \in 1..2 : t[i] # "\t"
    BY <1>9, <1>11, SymbolsDiffer
  <2> QED BY <1>9, <2>1 DEF Positions
<1>13. Positions(t, {Quote}) = {}
  <2>1. \A i \in 1..2 : t[i] # Quote BY <1>9, <1>11, SymbolsDiffer
  <2> QED BY <1>9, <2>1 DEF Positions
<1>14. Even(t) BY <1>6, <1>13, EvenIs
<1>15. Lower(s[1]) = "/localhost" /\ Lower(s[2]) = "a"
       /\ Lower(s[3]) = Space
  BY <1>10, LowerIs
<1>16. \A i \in 1..2 :
         \/ Lower(s[i]) = "/localhost" /\ Lower(s[i + 1]) = "a"
         \/ Lower(s[i]) = "a" /\ Lower(s[i + 1]) = Space
  BY <1>11, <1>15
<1>17. Len(s) - 1 = 2 BY <1>10
<1>18. /\ Free(s, "/host", "=")
       /\ Free(s, "/port", "=")
       /\ Free(s, "/localhost", Space)
       /\ Free(s, "/host", "name")
       /\ Free(s, "/hawk", Space)
  <2>1. Free(s, "/host", "=") BY <1>16, <1>17, SymbolsDiffer DEF Free
  <2>2. Free(s, "/port", "=") BY <1>16, <1>17, SymbolsDiffer DEF Free
  <2>3. Free(s, "/localhost", Space) BY <1>16, <1>17, SymbolsDiffer DEF Free
  <2>4. Free(s, "/host", "name") BY <1>16, <1>17, SymbolsDiffer DEF Free
  <2>5. Free(s, "/hawk", Space) BY <1>16, <1>17, SymbolsDiffer DEF Free
  <2> QED BY <2>1, <2>2, <2>3, <2>4, <2>5
<1>19. AllFree(s, k) BY <1>18 DEF AllFree
<1> QED BY <1>1, <1>2, <1>5, <1>7, <1>8, <1>12, <1>14, <1>19 DEF Common

(* /localhost is a flag. *)
LEMMA LocalhostIs == Common(Flag(<<"/localhost">>))
<1>1. PICK a : a = Flag(<<"/localhost">>) OBVIOUS
<1>2. PICK t : t = <<"/localhost">> OBVIOUS
<1>3. PICK k : k = <<"/localhost">> OBVIOUS
<1>4. PICK v : v = <<>> OBVIOUS
<1>5. a = [text |-> t, key |-> k, value |-> v]
  BY <1>1, <1>2, <1>3, <1>4 DEF Flag, Bare, Quoted, HostKey, PortKey
<1>6. t \in Text /\ k \in Text /\ v \in Text
  BY <1>2, <1>3, <1>4 DEF Text, Symbols
<1>7. a \in Argument BY <1>5, <1>6, ArgumentIs
<1>8. PICK s : s = Spaced(t) OBVIOUS
<1>9. Len(t) = 1 /\ t[1] = "/localhost"
  BY <1>2
<1>10. Len(s) = 2 /\ s[1] = "/localhost" /\ s[2] = Space
  BY <1>2, <1>8 DEF Spaced
<1>11. \A i \in 1..1 : i = 1 OBVIOUS
<1>12. Positions(t, {"\t"}) = {}
  <2>1. \A i \in 1..1 : t[i] # "\t"
    BY <1>9, <1>11, SymbolsDiffer
  <2> QED BY <1>9, <2>1 DEF Positions
<1>13. Positions(t, {Quote}) = {}
  <2>1. \A i \in 1..1 : t[i] # Quote BY <1>9, <1>11, SymbolsDiffer
  <2> QED BY <1>9, <2>1 DEF Positions
<1>14. Even(t) BY <1>6, <1>13, EvenIs
<1>15. Lower(s[1]) = "/localhost" /\ Lower(s[2]) = Space
  BY <1>10, LowerIs
<1>16. \A i \in 1..1 :
         \/ Lower(s[i]) = "/localhost" /\ Lower(s[i + 1]) = Space
  BY <1>11, <1>15
<1>17. Len(s) - 1 = 1 BY <1>10
<1>18. /\ Free(s, "/host", "=")
       /\ Free(s, "/port", "=")
       /\ Free(s, "/host", "name")
       /\ Free(s, "/hawk", Space)
  <2>1. Free(s, "/host", "=") BY <1>16, <1>17, SymbolsDiffer DEF Free
  <2>2. Free(s, "/port", "=") BY <1>16, <1>17, SymbolsDiffer DEF Free
  <2>3. Free(s, "/host", "name") BY <1>16, <1>17, SymbolsDiffer DEF Free
  <2>4. Free(s, "/hawk", Space) BY <1>16, <1>17, SymbolsDiffer DEF Free
  <2> QED BY <2>1, <2>2, <2>3, <2>4
<1>19. AllFree(s, k) BY <1>3, <1>18 DEF AllFree
<1> QED BY <1>1, <1>2, <1>5, <1>7, <1>8, <1>12, <1>14, <1>19 DEF Common

(* /hostname is a flag. *)
LEMMA HostnameIs == Common(Flag(<<"/host", "name">>))
<1>1. PICK a : a = Flag(<<"/host", "name">>) OBVIOUS
<1>2. PICK t : t = <<"/host", "name">> OBVIOUS
<1>3. PICK k : k = <<"/host", "name">> OBVIOUS
<1>4. PICK v : v = <<>> OBVIOUS
<1>5. a = [text |-> t, key |-> k, value |-> v]
  BY <1>1, <1>2, <1>3, <1>4 DEF Flag, Bare, Quoted, HostKey, PortKey
<1>6. t \in Text /\ k \in Text /\ v \in Text
  BY <1>2, <1>3, <1>4 DEF Text, Symbols
<1>7. a \in Argument BY <1>5, <1>6, ArgumentIs
<1>8. PICK s : s = Spaced(t) OBVIOUS
<1>9. Len(t) = 2 /\ t[1] = "/host" /\ t[2] = "name"
  BY <1>2
<1>10. Len(s) = 3 /\ s[1] = "/host" /\ s[2] = "name" /\ s[3] = Space
  BY <1>2, <1>8 DEF Spaced
<1>11. \A i \in 1..2 : i = 1 \/ i = 2 OBVIOUS
<1>12. Positions(t, {"\t"}) = {}
  <2>1. \A i \in 1..2 : t[i] # "\t"
    BY <1>9, <1>11, SymbolsDiffer
  <2> QED BY <1>9, <2>1 DEF Positions
<1>13. Positions(t, {Quote}) = {}
  <2>1. \A i \in 1..2 : t[i] # Quote BY <1>9, <1>11, SymbolsDiffer
  <2> QED BY <1>9, <2>1 DEF Positions
<1>14. Even(t) BY <1>6, <1>13, EvenIs
<1>15. Lower(s[1]) = "/host" /\ Lower(s[2]) = "name" /\ Lower(s[3]) = Space
  BY <1>10, LowerIs
<1>16. \A i \in 1..2 :
         \/ Lower(s[i]) = "/host" /\ Lower(s[i + 1]) = "name"
         \/ Lower(s[i]) = "name" /\ Lower(s[i + 1]) = Space
  BY <1>11, <1>15
<1>17. Len(s) - 1 = 2 BY <1>10
<1>18. /\ Free(s, "/host", "=")
       /\ Free(s, "/port", "=")
       /\ Free(s, "/localhost", Space)
       /\ Free(s, "/hawk", Space)
  <2>1. Free(s, "/host", "=") BY <1>16, <1>17, SymbolsDiffer DEF Free
  <2>2. Free(s, "/port", "=") BY <1>16, <1>17, SymbolsDiffer DEF Free
  <2>3. Free(s, "/localhost", Space) BY <1>16, <1>17, SymbolsDiffer DEF Free
  <2>4. Free(s, "/hawk", Space) BY <1>16, <1>17, SymbolsDiffer DEF Free
  <2> QED BY <2>1, <2>2, <2>3, <2>4
<1>19. AllFree(s, k) BY <1>3, <1>18 DEF AllFree
<1> QED BY <1>1, <1>2, <1>5, <1>7, <1>8, <1>12, <1>14, <1>19 DEF Common

(* /hawk is a flag. *)
LEMMA HawkIs == Common(Flag(<<"/hawk">>))
<1>1. PICK a : a = Flag(<<"/hawk">>) OBVIOUS
<1>2. PICK t : t = <<"/hawk">> OBVIOUS
<1>3. PICK k : k = <<"/hawk">> OBVIOUS
<1>4. PICK v : v = <<>> OBVIOUS
<1>5. a = [text |-> t, key |-> k, value |-> v]
  BY <1>1, <1>2, <1>3, <1>4 DEF Flag, Bare, Quoted, HostKey, PortKey
<1>6. t \in Text /\ k \in Text /\ v \in Text
  BY <1>2, <1>3, <1>4 DEF Text, Symbols
<1>7. a \in Argument BY <1>5, <1>6, ArgumentIs
<1>8. PICK s : s = Spaced(t) OBVIOUS
<1>9. Len(t) = 1 /\ t[1] = "/hawk"
  BY <1>2
<1>10. Len(s) = 2 /\ s[1] = "/hawk" /\ s[2] = Space
  BY <1>2, <1>8 DEF Spaced
<1>11. \A i \in 1..1 : i = 1 OBVIOUS
<1>12. Positions(t, {"\t"}) = {}
  <2>1. \A i \in 1..1 : t[i] # "\t"
    BY <1>9, <1>11, SymbolsDiffer
  <2> QED BY <1>9, <2>1 DEF Positions
<1>13. Positions(t, {Quote}) = {}
  <2>1. \A i \in 1..1 : t[i] # Quote BY <1>9, <1>11, SymbolsDiffer
  <2> QED BY <1>9, <2>1 DEF Positions
<1>14. Even(t) BY <1>6, <1>13, EvenIs
<1>15. Lower(s[1]) = "/hawk" /\ Lower(s[2]) = Space
  BY <1>10, LowerIs
<1>16. \A i \in 1..1 :
         \/ Lower(s[i]) = "/hawk" /\ Lower(s[i + 1]) = Space
  BY <1>11, <1>15
<1>17. Len(s) - 1 = 1 BY <1>10
<1>18. /\ Free(s, "/host", "=")
       /\ Free(s, "/port", "=")
       /\ Free(s, "/localhost", Space)
       /\ Free(s, "/host", "name")
  <2>1. Free(s, "/host", "=") BY <1>16, <1>17, SymbolsDiffer DEF Free
  <2>2. Free(s, "/port", "=") BY <1>16, <1>17, SymbolsDiffer DEF Free
  <2>3. Free(s, "/localhost", Space) BY <1>16, <1>17, SymbolsDiffer DEF Free
  <2>4. Free(s, "/host", "name") BY <1>16, <1>17, SymbolsDiffer DEF Free
  <2> QED BY <2>1, <2>2, <2>3, <2>4
<1>19. AllFree(s, k) BY <1>3, <1>18 DEF AllFree
<1> QED BY <1>1, <1>2, <1>5, <1>7, <1>8, <1>12, <1>14, <1>19 DEF Common

(* A host without quotes. *)
LEMMA BareHostIs == Common(Bare(HostKey, <<"A">>))
<1>1. PICK a : a = Bare(HostKey, <<"A">>) OBVIOUS
<1>2. PICK t : t = <<"/host", "=", "A">> OBVIOUS
<1>3. PICK k : k = <<"/host", "=">> OBVIOUS
<1>4. PICK v : v = <<"A">> OBVIOUS
<1>5. a = [text |-> t, key |-> k, value |-> v]
  BY <1>1, <1>2, <1>3, <1>4 DEF Flag, Bare, Quoted, HostKey, PortKey
<1>6. t \in Text /\ k \in Text /\ v \in Text
  BY <1>2, <1>3, <1>4 DEF Text, Symbols
<1>7. a \in Argument BY <1>5, <1>6, ArgumentIs
<1>8. PICK s : s = Spaced(t) OBVIOUS
<1>9. Len(t) = 3 /\ t[1] = "/host" /\ t[2] = "=" /\ t[3] = "A"
  BY <1>2
<1>10. Len(s) = 4 /\ s[1] = "/host" /\ s[2] = "=" /\ s[3] = "A"
       /\ s[4] = Space
  BY <1>2, <1>8 DEF Spaced
<1>11. \A i \in 1..3 : i = 1 \/ i = 2 \/ i = 3 OBVIOUS
<1>12. Positions(t, {"\t"}) = {}
  <2>1. \A i \in 1..3 : t[i] # "\t"
    BY <1>9, <1>11, SymbolsDiffer
  <2> QED BY <1>9, <2>1 DEF Positions
<1>13. Positions(t, {Quote}) = {}
  <2>1. \A i \in 1..3 : t[i] # Quote BY <1>9, <1>11, SymbolsDiffer
  <2> QED BY <1>9, <2>1 DEF Positions
<1>14. Even(t) BY <1>6, <1>13, EvenIs
<1>15. Lower(s[1]) = "/host" /\ Lower(s[2]) = "=" /\ Lower(s[3]) = "a"
       /\ Lower(s[4]) = Space
  BY <1>10, LowerIs
<1>16. \A i \in 1..3 :
         \/ Lower(s[i]) = "/host" /\ Lower(s[i + 1]) = "="
         \/ Lower(s[i]) = "=" /\ Lower(s[i + 1]) = "a"
         \/ Lower(s[i]) = "a" /\ Lower(s[i + 1]) = Space
  BY <1>11, <1>15
<1>17. Len(s) - 1 = 3 BY <1>10
<1>18. /\ Free(s, "/port", "=")
       /\ Free(s, "/localhost", Space)
       /\ Free(s, "/host", "name")
       /\ Free(s, "/hawk", Space)
  <2>1. Free(s, "/port", "=") BY <1>16, <1>17, SymbolsDiffer DEF Free
  <2>2. Free(s, "/localhost", Space) BY <1>16, <1>17, SymbolsDiffer DEF Free
  <2>3. Free(s, "/host", "name") BY <1>16, <1>17, SymbolsDiffer DEF Free
  <2>4. Free(s, "/hawk", Space) BY <1>16, <1>17, SymbolsDiffer DEF Free
  <2> QED BY <2>1, <2>2, <2>3, <2>4
<1>19. AllFree(s, k) BY <1>3, <1>18 DEF AllFree, HostKey
<1> QED BY <1>1, <1>2, <1>5, <1>7, <1>8, <1>12, <1>14, <1>19 DEF Common

(* A host in quotes, with a space. *)
LEMMA QuotedHostIs == Common(Quoted(HostKey, <<"a", Space, "0">>))
<1>1. PICK a : a = Quoted(HostKey, <<"a", Space, "0">>) OBVIOUS
<1>2. PICK t : t = <<"/host", "=", Quote, "a", Space, "0", Quote>> OBVIOUS
<1>3. PICK k : k = <<"/host", "=">> OBVIOUS
<1>4. PICK v : v = <<"a", Space, "0">> OBVIOUS
<1>5. a = [text |-> t, key |-> k, value |-> v]
  BY <1>1, <1>2, <1>3, <1>4 DEF Flag, Bare, Quoted, HostKey, PortKey
<1>6. t \in Text /\ k \in Text /\ v \in Text
  BY <1>2, <1>3, <1>4 DEF Text, Symbols
<1>7. a \in Argument BY <1>5, <1>6, ArgumentIs
<1>8. PICK s : s = Spaced(t) OBVIOUS
<1>9. Len(t) = 7 /\ t[1] = "/host" /\ t[2] = "=" /\ t[3] = Quote
      /\ t[4] = "a" /\ t[5] = Space /\ t[6] = "0" /\ t[7] = Quote
  BY <1>2
<1>10. Len(s) = 8 /\ s[1] = "/host" /\ s[2] = "=" /\ s[3] = Quote
       /\ s[4] = "a" /\ s[5] = Space /\ s[6] = "0" /\ s[7] = Quote
       /\ s[8] = Space
  BY <1>2, <1>8 DEF Spaced
<1>11. \A i \in 1..7 : i = 1 \/ i = 2 \/ i = 3 \/ i = 4 \/ i = 5 \/ i = 6
         \/ i = 7 OBVIOUS
<1>12. Positions(t, {"\t"}) = {}
  <2>1. \A i \in 1..7 : t[i] # "\t"
    BY <1>9, <1>11, SymbolsDiffer
  <2> QED BY <1>9, <2>1 DEF Positions
<1>13. Positions(t, {Quote}) = {3, 7}
  <2>1. /\ t[1] # Quote /\ t[2] # Quote /\ t[4] # Quote
        /\ t[5] # Quote /\ t[6] # Quote
    BY <1>9, SymbolsDiffer
  <2>2. \A i \in 1..7 : t[i] = Quote <=> i = 3 \/ i = 7
    BY <1>9, <1>11, <2>1
  <2> QED BY <1>9, <2>2 DEF Positions
<1>14. Even(t)
  <2>1. PICK i, j : i = 3 /\ j = 7 OBVIOUS
  <2>2. i # j /\ Positions(t, {Quote}) = {i, j} BY <1>13, <2>1
  <2> QED BY <1>6, <2>2, EvenIs
<1>15. Lower(s[1]) = "/host" /\ Lower(s[2]) = "=" /\ Lower(s[3]) = Quote
       /\ Lower(s[4]) = "a" /\ Lower(s[5]) = Space /\ Lower(s[6]) = "0"
       /\ Lower(s[7]) = Quote /\ Lower(s[8]) = Space
  BY <1>10, LowerIs
<1>16. \A i \in 1..7 :
         \/ Lower(s[i]) = "/host" /\ Lower(s[i + 1]) = "="
         \/ Lower(s[i]) = "=" /\ Lower(s[i + 1]) = Quote
         \/ Lower(s[i]) = Quote /\ Lower(s[i + 1]) = "a"
         \/ Lower(s[i]) = "a" /\ Lower(s[i + 1]) = Space
         \/ Lower(s[i]) = Space /\ Lower(s[i + 1]) = "0"
         \/ Lower(s[i]) = "0" /\ Lower(s[i + 1]) = Quote
         \/ Lower(s[i]) = Quote /\ Lower(s[i + 1]) = Space
  BY <1>11, <1>15
<1>17. Len(s) - 1 = 7 BY <1>10
<1>18. /\ Free(s, "/port", "=")
       /\ Free(s, "/localhost", Space)
       /\ Free(s, "/host", "name")
       /\ Free(s, "/hawk", Space)
  <2>1. Free(s, "/port", "=") BY <1>16, <1>17, SymbolsDiffer DEF Free
  <2>2. Free(s, "/localhost", Space) BY <1>16, <1>17, SymbolsDiffer DEF Free
  <2>3. Free(s, "/host", "name") BY <1>16, <1>17, SymbolsDiffer DEF Free
  <2>4. Free(s, "/hawk", Space) BY <1>16, <1>17, SymbolsDiffer DEF Free
  <2> QED BY <2>1, <2>2, <2>3, <2>4
<1>19. AllFree(s, k) BY <1>3, <1>18 DEF AllFree, HostKey
<1> QED BY <1>1, <1>2, <1>5, <1>7, <1>8, <1>12, <1>14, <1>19 DEF Common

(* A port of one digit. *)
LEMMA ShortPortIs == Common(Bare(PortKey, <<"1">>))
<1>1. PICK a : a = Bare(PortKey, <<"1">>) OBVIOUS
<1>2. PICK t : t = <<"/port", "=", "1">> OBVIOUS
<1>3. PICK k : k = <<"/port", "=">> OBVIOUS
<1>4. PICK v : v = <<"1">> OBVIOUS
<1>5. a = [text |-> t, key |-> k, value |-> v]
  BY <1>1, <1>2, <1>3, <1>4 DEF Flag, Bare, Quoted, HostKey, PortKey
<1>6. t \in Text /\ k \in Text /\ v \in Text
  BY <1>2, <1>3, <1>4 DEF Text, Symbols
<1>7. a \in Argument BY <1>5, <1>6, ArgumentIs
<1>8. PICK s : s = Spaced(t) OBVIOUS
<1>9. Len(t) = 3 /\ t[1] = "/port" /\ t[2] = "=" /\ t[3] = "1"
  BY <1>2
<1>10. Len(s) = 4 /\ s[1] = "/port" /\ s[2] = "=" /\ s[3] = "1"
       /\ s[4] = Space
  BY <1>2, <1>8 DEF Spaced
<1>11. \A i \in 1..3 : i = 1 \/ i = 2 \/ i = 3 OBVIOUS
<1>12. Positions(t, {"\t"}) = {}
  <2>1. \A i \in 1..3 : t[i] # "\t"
    BY <1>9, <1>11, SymbolsDiffer
  <2> QED BY <1>9, <2>1 DEF Positions
<1>13. Positions(t, {Quote}) = {}
  <2>1. \A i \in 1..3 : t[i] # Quote BY <1>9, <1>11, SymbolsDiffer
  <2> QED BY <1>9, <2>1 DEF Positions
<1>14. Even(t) BY <1>6, <1>13, EvenIs
<1>15. Lower(s[1]) = "/port" /\ Lower(s[2]) = "=" /\ Lower(s[3]) = "1"
       /\ Lower(s[4]) = Space
  BY <1>10, LowerIs
<1>16. \A i \in 1..3 :
         \/ Lower(s[i]) = "/port" /\ Lower(s[i + 1]) = "="
         \/ Lower(s[i]) = "=" /\ Lower(s[i + 1]) = "1"
         \/ Lower(s[i]) = "1" /\ Lower(s[i + 1]) = Space
  BY <1>11, <1>15
<1>17. Len(s) - 1 = 3 BY <1>10
<1>18. /\ Free(s, "/host", "=")
       /\ Free(s, "/localhost", Space)
       /\ Free(s, "/host", "name")
       /\ Free(s, "/hawk", Space)
  <2>1. Free(s, "/host", "=") BY <1>16, <1>17, SymbolsDiffer DEF Free
  <2>2. Free(s, "/localhost", Space) BY <1>16, <1>17, SymbolsDiffer DEF Free
  <2>3. Free(s, "/host", "name") BY <1>16, <1>17, SymbolsDiffer DEF Free
  <2>4. Free(s, "/hawk", Space) BY <1>16, <1>17, SymbolsDiffer DEF Free
  <2> QED BY <2>1, <2>2, <2>3, <2>4
<1>19. AllFree(s, k) BY <1>3, <1>18 DEF AllFree, PortKey
<1> QED BY <1>1, <1>2, <1>5, <1>7, <1>8, <1>12, <1>14, <1>19 DEF Common

(* A port of more digits. *)
LEMMA LongPortIs == Common(Bare(PortKey, <<"1", "0", "1">>))
<1>1. PICK a : a = Bare(PortKey, <<"1", "0", "1">>) OBVIOUS
<1>2. PICK t : t = <<"/port", "=", "1", "0", "1">> OBVIOUS
<1>3. PICK k : k = <<"/port", "=">> OBVIOUS
<1>4. PICK v : v = <<"1", "0", "1">> OBVIOUS
<1>5. a = [text |-> t, key |-> k, value |-> v]
  BY <1>1, <1>2, <1>3, <1>4 DEF Flag, Bare, Quoted, HostKey, PortKey
<1>6. t \in Text /\ k \in Text /\ v \in Text
  BY <1>2, <1>3, <1>4 DEF Text, Symbols
<1>7. a \in Argument BY <1>5, <1>6, ArgumentIs
<1>8. PICK s : s = Spaced(t) OBVIOUS
<1>9. Len(t) = 5 /\ t[1] = "/port" /\ t[2] = "=" /\ t[3] = "1" /\ t[4] = "0"
      /\ t[5] = "1"
  BY <1>2
<1>10. Len(s) = 6 /\ s[1] = "/port" /\ s[2] = "=" /\ s[3] = "1"
       /\ s[4] = "0" /\ s[5] = "1" /\ s[6] = Space
  BY <1>2, <1>8 DEF Spaced
<1>11. \A i \in 1..5 : i = 1 \/ i = 2 \/ i = 3 \/ i = 4 \/ i = 5 OBVIOUS
<1>12. Positions(t, {"\t"}) = {}
  <2>1. \A i \in 1..5 : t[i] # "\t"
    BY <1>9, <1>11, SymbolsDiffer
  <2> QED BY <1>9, <2>1 DEF Positions
<1>13. Positions(t, {Quote}) = {}
  <2>1. \A i \in 1..5 : t[i] # Quote BY <1>9, <1>11, SymbolsDiffer
  <2> QED BY <1>9, <2>1 DEF Positions
<1>14. Even(t) BY <1>6, <1>13, EvenIs
<1>15. Lower(s[1]) = "/port" /\ Lower(s[2]) = "=" /\ Lower(s[3]) = "1"
       /\ Lower(s[4]) = "0" /\ Lower(s[5]) = "1" /\ Lower(s[6]) = Space
  BY <1>10, LowerIs
<1>16. \A i \in 1..5 :
         \/ Lower(s[i]) = "/port" /\ Lower(s[i + 1]) = "="
         \/ Lower(s[i]) = "=" /\ Lower(s[i + 1]) = "1"
         \/ Lower(s[i]) = "1" /\ Lower(s[i + 1]) = "0"
         \/ Lower(s[i]) = "0" /\ Lower(s[i + 1]) = "1"
         \/ Lower(s[i]) = "1" /\ Lower(s[i + 1]) = Space
  BY <1>11, <1>15
<1>17. Len(s) - 1 = 5 BY <1>10
<1>18. /\ Free(s, "/host", "=")
       /\ Free(s, "/localhost", Space)
       /\ Free(s, "/host", "name")
       /\ Free(s, "/hawk", Space)
  <2>1. Free(s, "/host", "=") BY <1>16, <1>17, SymbolsDiffer DEF Free
  <2>2. Free(s, "/localhost", Space) BY <1>16, <1>17, SymbolsDiffer DEF Free
  <2>3. Free(s, "/host", "name") BY <1>16, <1>17, SymbolsDiffer DEF Free
  <2>4. Free(s, "/hawk", Space) BY <1>16, <1>17, SymbolsDiffer DEF Free
  <2> QED BY <2>1, <2>2, <2>3, <2>4
<1>19. AllFree(s, k) BY <1>3, <1>18 DEF AllFree, PortKey
<1> QED BY <1>1, <1>2, <1>5, <1>7, <1>8, <1>12, <1>14, <1>19 DEF Common

(* The ports that are looked at are not 0. *)
LEMMA PortsNotZero ==
  Atoi(<<"1">>) # 0 /\ Atoi(<<"1", "0", "1">>) # 0
<1>1. "1" \in Digits /\ "0" \in Digits /\ "1" # "0" BY DEF Digits
<1>2. "1" \notin White /\ "1" # "\t" /\ "1" # Space BY DEF White, Space
<1>3. Atoi(<<"1">>) # 0
  <2>1. PICK v : v = <<"1">> OBVIOUS
  <2>2. v \in Text /\ Len(v) = 1 /\ v[1] = "1"
    BY <2>1 DEF Text, Symbols
  <2>3. PICK m : m = 1 OBVIOUS
  <2>4. DigitsGo(m, v)
    <3>1. \A i \in 1..m : i = 1 BY <2>3
    <3> QED BY <1>1, <2>2, <2>3, <3>1 DEF DigitsGo
  <2>5. PICK f : NumbersOf(f, v) /\ Atoi(v) = f[m]
    BY <1>2, <2>2, <2>4, AtoiIs
  <2>6. f[0] = 0 /\ f[1] = 10 * f[0] + 1 BY <2>2, <2>5 DEF NumbersOf
  <2> QED BY <2>1, <2>3, <2>5, <2>6
<1>4. Atoi(<<"1", "0", "1">>) # 0
  <2>1. PICK v : v = <<"1", "0", "1">> OBVIOUS
  <2>2. v \in Text /\ Len(v) = 3 /\ v[1] = "1" /\ v[2] = "0" /\ v[3] = "1"
    BY <2>1 DEF Text, Symbols
  <2>3. PICK m : m = 3 OBVIOUS
  <2>4. DigitsGo(m, v)
    <3>1. \A i \in 1..m : i = 1 \/ i = 2 \/ i = 3 BY <2>3
    <3>2. \A i \in 1..m : v[i] \in Digits BY <1>1, <2>2, <3>1
    <3> QED BY <2>2, <2>3, <3>2 DEF DigitsGo
  <2>5. PICK f : NumbersOf(f, v) /\ Atoi(v) = f[m]
    BY <1>2, <2>2, <2>4, AtoiIs
  <2>6. f[0] = 0 BY <2>2, <2>5 DEF NumbersOf
  <2>7. f[1] = 10 * f[0] + 1 BY <2>2, <2>5 DEF NumbersOf
  <2>8. f[2] = 10 * f[1] + 0 BY <1>1, <2>2, <2>5 DEF NumbersOf
  <2>9. f[3] = 10 * f[2] + 1 BY <2>2, <2>5 DEF NumbersOf
  <2> QED BY <2>1, <2>3, <2>5, <2>6, <2>7, <2>8, <2>9
<1> QED BY <1>3, <1>4

(* What is no host and no port is an argument as in the theorem. *)
LEMMA PlainArgIs ==
  ASSUME NEW a, Common(a), a.key \notin {HostKey, PortKey},
         a.key \in Flags => a.text = a.key
  PROVE  IsArg(a)
BY CommonIs DEF IsArg

(* The keys are different. *)
LEMMA KeysDiffer ==
  /\ HostKey # PortKey /\ HostKey \notin Flags /\ PortKey \notin Flags
  /\ \A k \in Flags : k \notin {HostKey, PortKey}
BY DEF HostKey, PortKey, Flags

(* A flag is its key. *)
LEMMA FlagArgIs ==
  ASSUME NEW k \in Text, Common(Flag(k)), k \notin {HostKey, PortKey}
  PROVE  IsArg(Flag(k))
<1>1. PICK a : a = Flag(k) OBVIOUS
<1>2. PICK e : e = <<>> OBVIOUS
<1>3. a.key = k /\ a.text = k \o e BY <1>1, <1>2 DEF Flag, Bare
<1>4. k \o e = k BY <1>2 DEF Text
<1> QED BY <1>1, <1>3, <1>4, PlainArgIs

(* Every argument of SomeArgs is one as in the theorem. *)
LEMMA SomeArgsAre ==
  ASSUME NEW a \in SomeArgs
  PROVE  IsArg(a)
<1>1. CASE a = Flag(<<"a">>)
  <2>1. PICK k : k = <<"a">> OBVIOUS
  <2>2. k \in Text /\ k \notin {HostKey, PortKey}
    BY <2>1 DEF Text, Symbols, HostKey, PortKey
  <2> QED BY <1>1, <2>1, <2>2, WordIs, FlagArgIs
<1>2. CASE a = Quoted(<<>>, <<"a", Space, "a">>)
  <2>1. Common(a) BY <1>2, SentenceIs
  <2>2. a.key = <<>> BY <1>2 DEF Quoted
  <2>3. a.key \notin {HostKey, PortKey} /\ a.key \notin Flags
    BY <2>2 DEF HostKey, PortKey, Flags
  <2> QED BY <2>1, <2>3, PlainArgIs
<1>3. CASE a = Flag(<<"/localhost", "a">>)
  <2>1. PICK k : k = <<"/localhost", "a">> OBVIOUS
  <2>2. k \in Text /\ k \notin {HostKey, PortKey}
    BY <2>1 DEF Text, Symbols, HostKey, PortKey
  <2> QED BY <1>3, <2>1, <2>2, LikeAFlagIs, FlagArgIs
<1>4. CASE \E k \in Flags : a = Flag(k)
  <2>1. PICK k \in Flags : a = Flag(k) BY <1>4
  <2>2. k \in Text /\ k \notin {HostKey, PortKey}
    BY FlagIs, KeysDiffer
  <2>3. Common(a)
    BY <2>1, LocalhostIs, HostnameIs, HawkIs DEF Flags
  <2> QED BY <2>1, <2>2, <2>3, FlagArgIs
<1>5. CASE a = Bare(HostKey, <<"A">>)
  <2>1. Common(a) BY <1>5, BareHostIs
  <2>2. PICK v : v = <<"A">> OBVIOUS
  <2>3. v \in Text /\ v # <<>> BY <2>2 DEF Text, Symbols
  <2>4. a.key = HostKey BY <1>5 DEF Bare
  <2>5. IsBareHost(a, v)
    <3>1. \A i \in 1..1 : i = 1 OBVIOUS
    <3>2. Len(v) = 1 /\ v[1] = "A" BY <2>2
    <3>3. "A" \notin White \cup {Quote} /\ "A" # "="
          /\ "A" # Space /\ "A" # "\t"
      BY DEF White, Quote, Space
    <3>4. Positions(v, White \cup {Quote}) = {} /\ Positions(v, {"\t"}) = {}
      BY <3>1, <3>2, <3>3 DEF Positions
    <3>5. Survives(v) BY <3>2, <3>3, <3>4 DEF Survives
    <3> QED BY <1>5, <2>2, <3>4, <3>5 DEF IsBareHost
  <2> QED BY <2>1, <2>3, <2>4, <2>5, CommonIs, KeysDiffer DEF IsArg
<1>6. CASE a = Quoted(HostKey, <<"a", Space, "0">>)
  <2>1. Common(a) BY <1>6, QuotedHostIs
  <2>2. PICK v : v = <<"a", Space, "0">> OBVIOUS
  <2>3. v \in Text /\ v # <<>> BY <2>2 DEF Text, Symbols
  <2>4. a.key = HostKey BY <1>6 DEF Quoted
  <2>5. IsQuotedHost(a, v)
    <3>1. \A i \in 1..3 : i = 1 \/ i = 2 \/ i = 3 OBVIOUS
    <3>2. Len(v) = 3 /\ v[1] = "a" /\ v[2] = Space /\ v[3] = "0" BY <2>2
    <3>3. \A c \in {"a", Space, "0"} : c # Quote /\ c # "\t" /\ c # "="
      BY SymbolsDiffer DEF Quote, Space
    <3>4. Positions(v, {Quote}) = {} /\ Positions(v, {"\t"}) = {}
      BY <3>1, <3>2, <3>3 DEF Positions
    <3>5. "a" # Space /\ "0" # Space BY SymbolsDiffer
    <3>6. Survives(v) BY <3>2, <3>3, <3>4, <3>5 DEF Survives
    <3> QED BY <1>6, <2>2, <3>4, <3>6 DEF IsQuotedHost
  <2> QED BY <2>1, <2>3, <2>4, <2>5, CommonIs, KeysDiffer DEF IsArg
<1>7. CASE a = Bare(PortKey, <<"1">>)
  <2>1. Common(a) BY <1>7, ShortPortIs
  <2>2. PICK v : v = <<"1">> OBVIOUS
  <2>3. v \in Text /\ v # <<>> BY <2>2 DEF Text, Symbols
  <2>4. a.key = PortKey BY <1>7 DEF Bare
  <2>5. IsPort(a, v)
    <3>1. \A i \in 1..1 : i = 1 OBVIOUS
    <3>2. Len(v) = 1 /\ v[1] = "1" BY <2>2
    <3>3. \A i \in 1..Len(v) : v[i] \in Digits BY <3>1, <3>2 DEF Digits
    <3> QED BY <1>7, <2>2, <3>3, PortsNotZero DEF IsPort
  <2> QED BY <2>1, <2>3, <2>4, <2>5, CommonIs, KeysDiffer DEF IsArg
<1>8. CASE a = Bare(PortKey, <<"1", "0", "1">>)
  <2>1. Common(a) BY <1>8, LongPortIs
  <2>2. PICK v : v = <<"1", "0", "1">> OBVIOUS
  <2>3. v \in Text /\ v # <<>> BY <2>2 DEF Text, Symbols
  <2>4. a.key = PortKey BY <1>8 DEF Bare
  <2>5. IsPort(a, v)
    <3>1. \A i \in 1..3 : i = 1 \/ i = 2 \/ i = 3 OBVIOUS
    <3>2. Len(v) = 3 /\ v[1] = "1" /\ v[2] = "0" /\ v[3] = "1" BY <2>2
    <3>3. \A i \in 1..Len(v) : v[i] \in Digits BY <3>1, <3>2 DEF Digits
    <3> QED BY <1>8, <2>2, <3>3, PortsNotZero DEF IsPort
  <2> QED BY <2>1, <2>3, <2>4, <2>5, CommonIs, KeysDiffer DEF IsArg
<1> QED BY <1>1, <1>2, <1>3, <1>4, <1>5, <1>6, <1>7, <1>8
        DEF SomeArgs, Others, Flags

(* The other arguments say neither a host nor a port. *)
LEMMA OthersAre ==
  ASSUME NEW a \in Others
  PROVE  IsOther(a)
<1>1. a \in SomeArgs BY DEF SomeArgs
<1>2. IsArg(a) BY <1>1, SomeArgsAre
<1>3. a.text \in Text BY <1>2 DEF IsArg, Argument
<1>4. a.key # HostKey
  <2>1. /\ <<"a">> # HostKey /\ <<>> # HostKey
        /\ <<"/localhost", "a">> # HostKey
    BY DEF HostKey
  <2>2. Flag(<<"a">>).key = <<"a">> BY DEF Flag, Bare
  <2>3. Quoted(<<>>, <<"a", Space, "a">>).key = <<>> BY DEF Quoted
  <2>4. Flag(<<"/localhost", "a">>).key = <<"/localhost", "a">>
    BY DEF Flag, Bare
  <2> QED BY <2>1, <2>2, <2>3, <2>4 DEF Others
<1>5. NoMatch(HostKey, a.text)
  <2>1. HostKey \in ArgKeys /\ Mark(HostKey) = HostKey
    BY KeysDiffer DEF ArgKeys, Mark
  <2>2. NoMatch(HostKey, Spaced(a.text)) BY <1>2, <1>4, <2>1 DEF IsArg
  <2> QED BY <1>3, <2>2, HostKeyIs, SpaceNoMatch
<1>6. NoMatch(<<"/port">>, a.text)
  <2>1. PICK K : K = <<"/port">> OBVIOUS
  <2>2. Len(K) = 1 /\ K[1] = "/port" BY <2>1
  <2>3. \A i \in 1..Len(a.text) : Lower(a.text[i]) # "/port"
    <3>1. PICK t : t = a.text OBVIOUS
    <3>2. CASE a = Flag(<<"a">>)
      <4>1. t = <<"a">> BY <3>1, <3>2 DEF Flag, Bare
      <4>2. \A i \in 1..1 : i = 1 OBVIOUS
      <4>3. Len(t) = 1 /\ Lower(t[1]) # "/port" BY <4>1, LowerIs
      <4> QED BY <3>1, <4>2, <4>3
    <3>3. CASE a = Quoted(<<>>, <<"a", Space, "a">>)
      <4>1. t = <<Quote, "a", Space, "a", Quote>>
        <5>1. PICK k : k = <<>> OBVIOUS
        <5>2. PICK v : v = <<"a", Space, "a">> OBVIOUS
        <5>3. PICK u : u = <<Quote, "a", Space, "a", Quote>> OBVIOUS
        <5>4. a = [text |-> u, key |-> k, value |-> v]
          BY <3>3, <5>1, <5>2, <5>3 DEF Quoted
        <5> QED BY <3>1, <5>3, <5>4
      <4>2. \A i \in 1..5 : i = 1 \/ i = 2 \/ i = 3 \/ i = 4 \/ i = 5 OBVIOUS
      <4>3. Len(t) = 5 /\ Lower(t[1]) = Quote /\ Lower(t[2]) = "a"
            /\ Lower(t[3]) = Space /\ Lower(t[4]) = "a"
            /\ Lower(t[5]) = Quote
        BY <4>1, LowerIs
      <4> QED BY <3>1, <4>2, <4>3, SymbolsDiffer
    <3>4. CASE a = Flag(<<"/localhost", "a">>)
      <4>1. t = <<"/localhost", "a">> BY <3>1, <3>4 DEF Flag, Bare
      <4>2. \A i \in 1..2 : i = 1 \/ i = 2 OBVIOUS
      <4>3. Len(t) = 2 /\ Lower(t[1]) = "/localhost" /\ Lower(t[2]) = "a"
        BY <4>1, LowerIs
      <4> QED BY <3>1, <4>2, <4>3
    <3> QED BY <3>2, <3>3, <3>4 DEF Others
  <2>4. ASSUME NEW k \in Nat, MatchAt(K, a.text, k) PROVE FALSE
    <3>1. /\ k \in Nat \ {0} /\ k + Len(K) <= Len(a.text) + 1
          /\ \A j \in 1..Len(K) : Lower(a.text[k + j - 1]) = K[j]
      BY <2>4 DEF MatchAt
    <3>2. 1 \in 1..Len(K) /\ k + 1 - 1 = k BY <2>2
    <3>3. Lower(a.text[k]) = "/port" BY <2>2, <3>1, <3>2
    <3>4. Len(a.text) \in Nat BY <1>3 DEF Text
    <3>5. k \in 1..Len(a.text) BY <2>2, <3>1, <3>4
    <3> QED BY <2>3, <3>3, <3>5
  <2> QED BY <2>1, <2>4 DEF NoMatch
<1> QED BY <1>2, <1>5, <1>6 DEF IsArg, IsOther

(* strArgGiven and iArgGiven read every value that survives, and no other. *)
THEOREM ValuesAreAlwaysReadHolds == Spec => []ValuesAreAlwaysRead
<1>1. ASSUME NEW v \in Values PROVE v \in Text
  <2>1. PICK n \in 0..4 : v \in [1..n -> {"a", "A", "0", "1", "=", Space, "\t"}]
    BY DEF Values
  <2>2. {"a", "A", "0", "1", "=", Space, "\t"} \subseteq Symbols BY DEF Symbols
  <2>3. v \in [1..n -> Symbols] BY <2>1, <2>2
  <2> QED BY <2>3 DEF Text
<1>2. ValuesAreAlwaysRead
  BY <1>1, OthersAre, ValueIsAlwaysRead DEF ValuesAreAlwaysRead
<1> QED BY <1>2, PTL

(* The command line has precedence over the file. *)
THEOREM PrecedenceAlwaysHolds == Spec => []PrecedenceHolds
<1>1. ASSUME NEW args \in UNION {[1..n -> SomeArgs] : n \in 0..3}
      PROVE  args \in Seq(Argument) /\ AllArgs(args)
  <2>1. PICK n \in 0..3 : args \in [1..n -> SomeArgs] OBVIOUS
  <2>2. args \in Seq(SomeArgs) /\ Len(args) = n BY <2>1
  <2>3. \A i \in 1..Len(args) : IsArg(args[i])
    BY <2>1, <2>2, SomeArgsAre
  <2>4. SomeArgs \subseteq Argument BY SomeArgsAre DEF IsArg
  <2>5. args \in Seq(Argument) BY <2>2, <2>4
  <2> QED BY <2>3, <2>5 DEF AllArgs
<1>2. <<"me">> # <<>> OBVIOUS
<1>3. PrecedenceHolds
  BY <1>1, <1>2, PrecedenceIsKept DEF PrecedenceHolds
<1> QED BY <1>3, PTL
=============================================================================
