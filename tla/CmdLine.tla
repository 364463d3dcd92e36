------------------------------ MODULE CmdLine ------------------------------
(***************************************************************************)
(* The arguments of Fnsplit.cpp, and what VibCtlPorts.cpp takes from them: *)
(* the command line has precedence over the profile file for the host and  *)
(* the port that the GUI and the TCM meet at.                              *)
(*                                                                         *)
(* A command line is a sequence of symbols: a character, or a keyword,     *)
(* which stands for its characters, as nothing here ever cuts one.         *)
(***************************************************************************)
EXTENDS Paths, FiniteSets

Space == " "
Quote == "\""
White == {Space, "\t"}

(* MakeLower *)
Lower(c)     == CASE c = "/HOST" -> "/host" [] c = "A" -> "a" [] OTHER -> c
LowerCase(p) == [i \in 1..Len(p) |-> Lower(p[i])]

TrimRight(p, S) ==
  CHOOSE q \in {Left(p, n) : n \in 0..Len(p)} :
    /\ q = <<>> \/ q[Len(q)] \notin S
    /\ \A i \in Len(q) + 1 .. Len(p) : p[i] \in S
Trim(p, S) == TrimRight(TrimLeft(p, S), S)

(* Find, with the case ignored: where the keyword is, or 0. *)
Find(keyword, cmd) ==
  LET At == {k \in 1..Len(cmd) - Len(keyword) + 1 :
               LowerCase(SubSeq(cmd, k, k + Len(keyword) - 1)) = keyword}
  IN IF At = {} THEN 0 ELSE CHOOSE k \in At : \A j \in At : k <= j

-----------------------------------------------------------------------------
(* Fnsplit.cpp *)

(* Mutant: the version that is compiled out, "DOES match initial           *)
(* substrings".                                                            *)
ArgGivenInitial(keyword, cmd) == Find(keyword, cmd) # 0

(* The keyword with a space, or the end of the line, behind it. *)
ArgGiven(keyword, cmd) ==
  Find(Append(keyword, Space), Append(TrimRight(cmd, {"\t"}), Space)) # 0

(* atoi: white space is skipped, and what is no digit ends the number. *)
Atoi(p) ==
  LET q == TrimLeft(p, White)
      value[n \in 0..Len(q)] ==
        IF n = 0 THEN 0
        ELSE 10 * value[n - 1] + IF q[n] = "1" THEN 1 ELSE 0
      digits == {n \in 0..Len(q) : \A i \in 1..n : q[i] \in {"0", "1"}}
  IN value[CHOOSE n \in digits : \A m \in digits : m <= n]

(* The number behind the keyword, and behind a "=" if there is one; 0 when *)
(* it is not given.  A keyword without "=" that is not found is looked for *)
(* once more with it, in the process's own command line (:378 does not     *)
(* pass cmdLine on), which is cmd here: every caller takes its own.        *)
iArgGiven(keyword, cmd) ==
  LET given == IF Find(keyword, cmd) = 0 /\ Positions(keyword, {"="}) = {}
               THEN Append(TrimRight(keyword, White), "=") ELSE keyword
      rest  == After(cmd, Find(given, cmd) + Len(given) - 1)
  IN IF Find(given, cmd) = 0 THEN 0
     ELSE Atoi(IF rest # <<>> /\ rest[1] = "=" THEN Tail(rest) ELSE rest)

(* Mutant: a quote does not protect the spaces behind it. *)
EndsUnprotected(cmd, i) == cmd[i] \in White

(* Position i of the command line ends an argument: white space, but for   *)
(* a space behind an odd number of quotes, which is cloaked.               *)
Ends(cmd, i) ==
  \/ cmd[i] \in White \ {Space}
  \/ cmd[i] = Space /\ Cardinality(Positions(Left(cmd, i), {Quote})) % 2 = 0

(* The text behind the keyword, without quotes, "=" and spaces around it. *)
strArgGiven(keyword, cmd) ==
  LET from == Find(keyword, cmd) + Len(keyword)
      ends == {i \in from..Len(cmd) : Ends(cmd, i)}
      last == IF ends = {} THEN Len(cmd)
              ELSE (CHOOSE i \in ends : \A j \in ends : i <= j) - 1
      text == TrimLeft(Trim(SubSeq(cmd, from, last), {Quote}), {Space, "="})
  IN IF Find(keyword, cmd) = 0 THEN [given |-> FALSE, text |-> <<>>]
     ELSE [given |-> TRUE, text |-> Trim(Trim(text, {Quote}), {Space})]

-----------------------------------------------------------------------------
(* VibCtlPorts.cpp *)

HostKey == <<"/host", "=">>
PortKey == <<"/port", "=">>

(* The host that the command line gives, or nothing; me is what            *)
(* gethostname finds, or nothing when it fails.                            *)
getVibCtlHostFromCmdLine(cmd, me) ==
  IF strArgGiven(HostKey, cmd).given THEN strArgGiven(HostKey, cmd).text
  ELSE IF ArgGiven(<<"/localhost">>, cmd) THEN <<"localhost">>
  ELSE IF ArgGiven(<<"/host", "name">>, cmd) THEN me
  ELSE <<>>

(* The host, when the file has host. *)
getVibCtlHostEx(cmd, me, host) ==
  LET fromCmd == getVibCtlHostFromCmdLine(cmd, me) IN
  IF ArgGiven(<<"/hawk">>, cmd) THEN <<"localhost">>
  ELSE IF fromCmd # <<>> THEN fromCmd ELSE host

(* The port, when the file has base. *)
getVibControllerPortEx(cmd, lun, base) ==
  IF iArgGiven(PortKey, cmd) # 0 THEN iArgGiven(PortKey, cmd) ELSE base + lun

-----------------------------------------------------------------------------
(* Reference definitions *)

(* Arguments: how they are written, and what they say. *)
Bare(key, v)   == [text |-> key \o v, key |-> key, value |-> v]
Quoted(key, v) == [text |-> key \o <<Quote>> \o v \o <<Quote>>,
                   key |-> key, value |-> v]
Flag(key)      == Bare(key, <<>>)

(* A command line: the arguments with a space between any two of them. *)
LineOf(args) ==
  LET line[n \in 0..Len(args)] ==
        IF n = 0 THEN <<>>
        ELSE (IF n = 1 THEN <<>> ELSE Append(line[n - 1], Space))
               \o args[n].text
  IN line[Len(args)]

Has(args, key) == \E i \in 1..Len(args) : args[i].key = key

(* The value of the first argument with that key. *)
FirstValue(args, key) ==
  (CHOOSE a \in {args[i] : i \in 1..Len(args)} :
     \E i \in 1..Len(args) : /\ args[i] = a /\ a.key = key
                            /\ \A j \in 1..i - 1 : args[j].key # key).value

(* The hosts that the arguments name. *)
HostsGiven(args, me) ==
  (IF Has(args, HostKey) THEN {FirstValue(args, HostKey)} ELSE {})
    \cup {<<"localhost">> : x \in {k \in {<<"/localhost">>, <<"/hawk">>} :
                                   Has(args, k)}}
    \cup {me : x \in {k \in {<<"/host", "name">>} : Has(args, k)}}

(* The values that strArgGiven does not cut or trim: without tabs, without *)
(* spaces at the ends, and without "=" at the beginning.                   *)
Survives(v) ==
  /\ Positions(v, {"\t"}) = {}
  /\ v # <<>> => v[1] \notin {Space, "="} /\ v[Len(v)] # Space

-----------------------------------------------------------------------------
(* Properties of one command line *)

(* Fnsplit.cpp:421-424 and Fnsplit.h:35: wherever the argument stands and  *)
(* whatever the case of its keyword, strArgGiven finds its value as it was *)
(* written: a bare one unless it begins with "=", one in quotes without    *)
(* them and with the spaces between its words, but in neither case one     *)
(* that does not survive.  iArgGiven finds a number, with a "=" before it  *)
(* or without.                                                             *)
ValueIsRead(v, before, behind) ==
  LET Line(arg) == LineOf(<<before, arg, behind>>) IN
  /\ Positions(v, White \cup {Quote}) = {} =>
       (strArgGiven(HostKey, Line(Bare(<<"/HOST", "=">>, v))).text = v
          <=> Survives(v))
  /\ Positions(v, {Quote}) = {} =>
       (strArgGiven(HostKey, Line(Quoted(HostKey, v))).text = v
          <=> Survives(v))
  /\ \A key \in {PortKey, <<"/port">>} :
       v # <<>> /\ Positions(v, {"0", "1"}) = 1..Len(v) =>
         iArgGiven(<<"/port">>, Line(Bare(key, v))) = Atoi(v)

(* Fnsplit.cpp:423, "strip the quotes and preserve the whitespace": of any *)
(* value in quotes.  Not true of one with a space next to a quote, or with *)
(* a tab.                                                                  *)
WhitespaceIsPreserved(v, before, behind) ==
  Positions(v, {Quote, "="}) = {} =>
    strArgGiven(HostKey, LineOf(<<before, Quoted(HostKey, v), behind>>)).text
      = v

(* VibCtlPorts.cpp:38-46, "If cmd args are given, they have precedence":   *)
(* in whatever order the arguments come and whatever is between them, the  *)
(* first port and one of the hosts that they name is used, and the file's  *)
(* only when they name none.                                               *)
ArgsHavePrecedence(args, me, host, base) ==
  LET line == LineOf(args) IN
  /\ getVibCtlHostEx(line, me, host) \in
       IF HostsGiven(args, me) = {} THEN {host} ELSE HostsGiven(args, me)
  /\ getVibControllerPortEx(line, 1, base) =
       IF Has(args, PortKey) THEN Atoi(FirstValue(args, PortKey))
       ELSE base + 1
=============================================================================
