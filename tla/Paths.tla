------------------------------- MODULE Paths -------------------------------
(***************************************************************************)
(* The path functions of Fnsplit.cpp, as operators on sequences of         *)
(* characters: "a" stands for any character that is not special.           *)
(***************************************************************************)
EXTENDS Integers, Sequences

Sep   == {"/", "\\"}
Chars == Sep \cup {".", ":", "a"}

-----------------------------------------------------------------------------
(* Sequences of characters *)

Positions(p, S) == {i \in 1..Len(p) : p[i] \in S}

(* ReverseFind: the last position in p of a member of S, or 0. *)
ReverseFind(p, S) ==
  IF Positions(p, S) = {} THEN 0
  ELSE CHOOSE i \in Positions(p, S) : \A j \in Positions(p, S) : j <= i

Left(p, n)  == SubSeq(p, 1, n)
After(p, n) == SubSeq(p, n + 1, Len(p))

(* The first and last positions of the tokens that strtok finds in p. *)
Tokens(p) ==
  {r \in (1..Len(p)) \X (1..Len(p)) :
     /\ r[1] <= r[2]
     /\ \A i \in r[1]..r[2] : p[i] \notin Sep
     /\ r[1] = 1 \/ p[r[1] - 1] \in Sep
     /\ r[2] = Len(p) \/ p[r[2] + 1] \in Sep}

TrimLeft(p, S) ==
  LET stays == {i \in 1..Len(p) : p[i] \notin S} IN
  IF stays = {} THEN <<>>
  ELSE After(p, (CHOOSE i \in stays : \A k \in stays : i <= k) - 1)

-----------------------------------------------------------------------------
(* Fnsplit.cpp *)

(* The dot before the extension, or 0: the last one, unless the path ends  *)
(* in it or a separator follows it.                                        *)
ExtDot(p) ==
  LET dot == ReverseFind(p, {"."}) IN
  IF dot \in {0, Len(p)} \/ p[dot + 1] \in Sep THEN 0 ELSE dot

(* Mutant: the name keeps the separator. *)
fnsplitOffByOne(p) ==
  LET tmp == IF ExtDot(p) = 0 THEN p ELSE Left(p, ExtDot(p) - 1)
      cut == IF ReverseFind(tmp, {"\\"}) # 0 THEN ReverseFind(tmp, {"\\"})
             ELSE ReverseFind(tmp, {"/"})
  IN [dir  |-> Left(tmp, cut - 1),
      file |-> After(tmp, IF cut = 0 THEN 0 ELSE cut - 1),
      ext  |-> IF ExtDot(p) = 0 THEN <<>> ELSE After(p, ExtDot(p))]

(* fnsplit cuts at the last backslash; a slash counts only without one. *)
fnsplit(p) ==
  LET tmp == IF ExtDot(p) = 0 THEN p ELSE Left(p, ExtDot(p) - 1)
      cut == IF ReverseFind(tmp, {"\\"}) # 0 THEN ReverseFind(tmp, {"\\"})
             ELSE ReverseFind(tmp, {"/"})
  IN [dir  |-> Left(tmp, cut - 1),
      file |-> After(tmp, cut),
      ext  |-> IF ExtDot(p) = 0 THEN <<>> ELSE After(p, ExtDot(p))]

(* Mutant: dots in front of the extension stay. *)
fnmergeUntrimmed(dir, file, ext) ==
  (IF dir = <<>> THEN <<>> ELSE Append(dir, "\\")) \o file \o <<".">> \o ext

fnmerge(dir, file, ext) ==
  (IF dir = <<>> THEN <<>> ELSE Append(dir, "\\"))
    \o file \o <<".">> \o TrimLeft(ext, {"."})

(* Mutant: the new suffix goes behind the old one. *)
fnSetSuffixAppends(src, sfx) == fnmerge(<<>>, src, sfx)

fnSetSuffix(src, sfx) ==
  LET s == fnsplit(src) IN
  fnmerge(s.dir, s.file, IF Head(sfx) = "." THEN Tail(sfx) ELSE sfx)

(* Mutant: a path with an extension is taken for a directory too. *)
makeDirsOfAll(p, isaDir) ==
  {Left(p, r[2]) : r \in {t \in Tokens(p) : t[1] = t[2] \/ p[t[1] + 1] # ":"}}

(* The directories makeDirAndUpperDirs tries to make of a path that does   *)
(* not begin with a separator: those above the file that the path names,   *)
(* or, when it has no extension or isaDir is given, the path itself too.   *)
(* A token with a colon in its second place is a drive.                    *)
makeDirs(p, isaDir) ==
  LET d == IF fnsplit(p).ext = <<>> \/ isaDir THEN p ELSE fnsplit(p).dir
  IN {Left(d, r[2]) : r \in {t \in Tokens(d) :
                                t[1] = t[2] \/ d[t[1] + 1] # ":"}}

-----------------------------------------------------------------------------
(* Reference definitions *)

(* Where the last component of a path begins. *)
NameAt(p) == ReverseFind(p, Sep) + 1
Name(p)   == After(p, NameAt(p) - 1)

(* A path that begins with a name or a drive, ends with a name and has     *)
(* single separators.                                                      *)
Named(p) ==
  /\ p # <<>> /\ p[1] \notin Sep /\ p[Len(p)] \notin Sep
  /\ \A i \in 1..Len(p) - 1 : ~(p[i] \in Sep /\ p[i + 1] \in Sep)
  /\ \A i \in Positions(p, {":"}) :
       i = 2 /\ Len(p) > 2 /\ p[1] = "a" /\ p[3] \in Sep

(* The paths that fnsplit cuts where it should: at the last separator,     *)
(* because that is a backslash or there is none, and at the last dot only  *)
(* when that is in the name.  Directories may have dots, or end in one.    *)
Splittable(p) ==
  LET dot == ReverseFind(p, {"."}) IN
  /\ Positions(p, {"\\"}) = {} \/ p[NameAt(p) - 1] = "\\"
  /\ dot = 0 \/ dot >= NameAt(p) \/ p[dot + 1] \in Sep

(* The paths for which the code is right. *)
Plain(p) == Named(p) /\ Splittable(p)

(* A name with an extension: a dot that is neither first nor last in it.   *)
HasExt(p) == ReverseFind(p, {"."}) \in NameAt(p) + 1 .. Len(p) - 1

(* The directories above the last component. *)
UpperDirs(p) ==
  {Left(p, i - 1) : i \in {j \in Positions(p, Sep) : j # 3 \/ p[2] # ":"}}

-----------------------------------------------------------------------------
(* Properties of one path *)

(* Fnsplit.cpp:20-27: fnsplit finds the directory, the name and the        *)
(* extension of a path, and nothing gets lost or doubled: the name, a dot  *)
(* and the extension are what is behind the last separator, cut at its     *)
(* last dot.  There is no extension, and the name is all of it, only when  *)
(* it has no dot or ends in one ("Pathological cases", :42-54).            *)
SplitIsRight(p) ==
  LET s    == fnsplit(p)
      name == Name(p)
      dots == Positions(name, {"."})
  IN /\ s.dir = Left(p, NameAt(p) - 2)
     /\ name = IF s.ext = <<>> THEN s.file ELSE s.file \o <<".">> \o s.ext
     /\ Positions(s.ext, {"."}) = {}
     /\ s.ext = <<>> <=> dots = {} \/ name[Len(name)] = "."

(* fnmerge puts together what fnsplit took apart, but for the kind of the  *)
(* last separator, whatever dots the caller has left before the extension. *)
MergeInverts(p) ==
  LET s == fnsplit(p) IN
  \A dots \in {<<>>, <<".">>, <<".", ".">>} :
    fnmerge(s.dir, s.file, dots \o s.ext)
      = [i \in 1..Len(p) |-> IF i = NameAt(p) - 1 THEN "\\" ELSE p[i]]

(* fnSetSuffix replaces the extension whether or not the new one is given  *)
(* with its dot, and once more has the same effect as once.                *)
SuffixIsReplaced(p) ==
  LET t == fnSetSuffix(p, <<"a", "a">>) IN
  /\ fnSetSuffix(p, <<".", "a", "a">>) = t
  /\ fnsplit(t) = [fnsplit(p) EXCEPT !.ext = <<"a", "a">>]
  /\ fnSetSuffix(t, <<"a", "a">>) = t

(* makeDirAndUpperDirs makes the directories above a file, and not one of  *)
(* the file's own name, unless isaDir asks for it.                         *)
DirsAreRight(p) ==
  /\ makeDirs(p, FALSE) = UpperDirs(p)
  /\ UpperDirs(p) \subseteq makeDirs(p, TRUE)

(* Fnsplit.cpp:226, "for c:\fu\bar create c:\fu then c:\fu\bar": all the   *)
(* directories above the last component are made.  Not true of every named *)
(* path: of .a/a the directory .a is not made, because fnsplit takes a/a   *)
(* for an extension.                                                       *)
UpperDirsAreMade(p) == UpperDirs(p) \subseteq makeDirs(p, FALSE)
=============================================================================
