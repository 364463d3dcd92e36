----------------------------- MODULE MCPortsIni -----------------------------
(* Instances of PortsIni, and of the properties of Paths and CmdLine, for   *)
(* TLC.                                                                    *)
EXTENDS PortsIni, CmdLine

CONSTANT MaxLen     \* bound: the length of the paths looked at

ASSUME MaxLenAssumption == MaxLen \in Nat

(* a:\a\a.a, and the same with a level more and slashes *)
TwoPaths == {<<"a", ":", "\\", "a", "\\", "a", ".", "a">>,
             <<"a", "/", "a", "/", "a", ".", "a">>}

AllPaths    == UNION {[1..n -> Chars] : n \in 0..MaxLen}
PlainPaths  == {p \in AllPaths : Plain(p)}
PathsOfFiles == {p \in PlainPaths : HasExt(p)}

(* The following are about no variable and need a look at a first state    *)
(* only.                                                                   *)
First == calls = 0 /\ edits = 0 /\ dirs = {}

(* fnsplit is right on every path that it cuts where it should. *)
SplitIsAlwaysRight ==
  First => \A p \in {q \in AllPaths : Splittable(q)} : SplitIsRight(p)

(* fnmerge undoes fnsplit on every plain path of a file. *)
MergeAlwaysInverts == First => \A p \in PathsOfFiles : MergeInverts(p)

(* fnSetSuffix is right on every plain path of a file. *)
SuffixIsAlwaysReplaced == First => \A p \in PathsOfFiles : SuffixIsReplaced(p)

(* makeDirAndUpperDirs is right on every plain path of a file. *)
DirsAreAlwaysRight == First => \A p \in PathsOfFiles : DirsAreRight(p)

-----------------------------------------------------------------------------
Values == UNION {[1..n -> {"a", "A", "0", "1", "=", Space, "\t"}] : n \in 0..4}

(* Arguments that say nothing of host or port, though one begins with a    *)
(* keyword, one has spaces and one only begins like a flag.                *)
Others == {Flag(<<"a">>), Quoted(<<>>, <<"a", Space, "a">>),
           Flag(<<"/localhost", "a">>)}

SomeArgs ==
  Others \cup
  {Flag(<<"/localhost">>), Flag(<<"/host", "name">>), Flag(<<"/hawk">>),
   Bare(HostKey, <<"A">>), Quoted(HostKey, <<"a", Space, "0">>),
   Bare(PortKey, <<"1">>), Bare(PortKey, <<"1", "0", "1">>)}

(* strArgGiven and iArgGiven read every value that survives, and no other. *)
ValuesAreAlwaysRead ==
  First => \A v \in Values, before, behind \in Others :
             ValueIsRead(v, before, behind)

(* Not true of the code: a value in quotes comes through as it is written. *)
WhitespaceIsAlwaysPreserved ==
  First => \A v \in Values, before, behind \in Others :
             WhitespaceIsPreserved(v, before, behind)

(* The command line has precedence over the file. *)
PrecedenceHolds ==
  First => \A args \in UNION {[1..n -> SomeArgs] : n \in 0..3} :
             ArgsHavePrecedence(args, <<"me">>, <<"file">>, 7)
=============================================================================
