---------------------------- MODULE PathsProofs ----------------------------
(***************************************************************************)
(* Proofs about the path functions, for paths of every length.             *)
(***************************************************************************)
EXTENDS Paths, NatSteps

(* A bounded set of naturals that is not empty has a greatest element. *)
LEMMA GreatestNat ==
  ASSUME NEW T \in SUBSET Nat, NEW n \in Nat, T # {}, \A x \in T : x <= n
  PROVE  \E x \in T : \A y \in T : y <= x
<1> DEFINE U == {n - x : x \in T}
<1>1. U \in SUBSET Nat /\ U # {}
  <2>1. PICK x \in T : TRUE OBVIOUS
  <2>2. n - x \in U OBVIOUS
  <2> QED BY <2>2
<1> HIDE DEF U
<1>2. PICK u \in U : \A v \in U : u <= v BY <1>1, LeastNat
<1>3. PICK x \in T : u = n - x BY <1>2 DEF U
<1>4. \A y \in T : y <= x
  <2> TAKE y \in T
  <2>1. n - y \in U BY DEF U
  <2>2. n - x <= n - y BY <1>2, <1>3, <2>1
  <2>3. x \in Nat /\ y \in Nat OBVIOUS
  <2> QED BY <2>2, <2>3
<1> QED BY <1>4

(* What Left returns, a count below 0 included. *)
LEMMA LeftIs ==
  ASSUME NEW p \in Seq(Chars), NEW n \in Int, n <= Len(p)
  PROVE  /\ Left(p, n) \in Seq(Chars)
         /\ n >= 0 => Len(Left(p, n)) = n
         /\ n < 0 => Len(Left(p, n)) = 0
         /\ \A i \in 1..n : Left(p, n)[i] = p[i]
BY DEF Left

(* What After returns. *)
LEMMA AfterIs ==
  ASSUME NEW p \in Seq(Chars), NEW n \in Nat, n <= Len(p)
  PROVE  /\ After(p, n) \in Seq(Chars)
         /\ Len(After(p, n)) = Len(p) - n
         /\ \A i \in 1..Len(p) - n : After(p, n)[i] = p[n + i]
BY DEF After

(* What a concatenation is. *)
LEMMA CatIs ==
  ASSUME NEW p \in Seq(Chars), NEW q \in Seq(Chars)
  PROVE  /\ p \o q \in Seq(Chars) /\ Len(p \o q) = Len(p) + Len(q)
         /\ \A i \in 1..Len(p) : (p \o q)[i] = p[i]
         /\ \A i \in 1..Len(q) : (p \o q)[Len(p) + i] = q[i]
OBVIOUS

(* Sequences with the same elements are the same. *)
LEMMA SameSeq ==
  ASSUME NEW p \in Seq(Chars), NEW q \in Seq(Chars), Len(p) = Len(q),
         \A i \in 1..Len(p) : p[i] = q[i]
  PROVE  p = q
OBVIOUS

(* The beginning of a beginning is a beginning. *)
LEMMA LeftOfLeft ==
  ASSUME NEW p \in Seq(Chars), NEW m \in Nat, m <= Len(p),
         NEW n \in Int, n <= m
  PROVE  Left(Left(p, m), n) = Left(p, n)
<1> DEFINE q == Left(p, m)
<1>1. /\ q \in Seq(Chars) /\ Len(q) = m
      /\ \A i \in 1..m : q[i] = p[i]
  BY LeftIs
<1> HIDE DEF q
<1>2. /\ Left(q, n) \in Seq(Chars)
      /\ n >= 0 => Len(Left(q, n)) = n
      /\ n < 0 => Len(Left(q, n)) = 0
      /\ \A i \in 1..n : Left(q, n)[i] = q[i]
  BY <1>1, LeftIs
<1>3. /\ Left(p, n) \in Seq(Chars)
      /\ n >= 0 => Len(Left(p, n)) = n
      /\ n < 0 => Len(Left(p, n)) = 0
      /\ \A i \in 1..n : Left(p, n)[i] = p[i]
  <2>1. n <= Len(p) OBVIOUS
  <2> QED BY <2>1, LeftIs
<1>4. Len(Left(q, n)) = Len(Left(p, n)) BY <1>2, <1>3
<1>5. \A i \in 1..Len(Left(q, n)) : Left(q, n)[i] = Left(p, n)[i]
  BY <1>1, <1>2, <1>3
<1>6. Left(q, n) = Left(p, n) BY <1>2, <1>3, <1>4, <1>5, SameSeq
<1> QED BY <1>6 DEF q

-----------------------------------------------------------------------------
(* The last position of a member of S *)

(* k is the last position in p of a member of S, or 0 when there is none.  *)
IsLast(k, p, S) ==
  /\ k \in 0..Len(p)
  /\ k # 0 => p[k] \in S
  /\ \A i \in 1..Len(p) : p[i] \in S => i <= k

(* ReverseFind finds the last position. *)
LEMMA ReverseFindIsLast ==
  ASSUME NEW p \in Seq(Chars), NEW S
  PROVE  IsLast(ReverseFind(p, S), p, S)
<1> DEFINE T == Positions(p, S)
<1>1. T \in SUBSET Nat /\ \A x \in T : x <= Len(p) BY DEF Positions
<1>2. CASE T = {}
  <2>1. ReverseFind(p, S) = 0 BY <1>2 DEF ReverseFind
  <2> QED BY <1>2, <2>1 DEF IsLast, Positions
<1>3. CASE T # {}
  <2>1. \E x \in T : \A y \in T : y <= x
    <3>1. Len(p) \in Nat OBVIOUS
    <3> HIDE DEF T
    <3> QED BY <1>1, <1>3, <3>1, GreatestNat
  <2>2. ReverseFind(p, S) \in T /\ \A y \in T : y <= ReverseFind(p, S)
    BY <1>3, <2>1 DEF ReverseFind
  <2> QED BY <2>2 DEF IsLast, Positions
<1> QED BY <1>2, <1>3

(* There is only one last position. *)
LEMMA LastIsUnique ==
  ASSUME NEW p \in Seq(Chars), NEW S, NEW k, NEW l,
         IsLast(k, p, S), IsLast(l, p, S)
  PROVE  k = l
BY DEF IsLast

(* What ReverseFind finds is known by its property. *)
LEMMA ReverseFindIs ==
  ASSUME NEW p \in Seq(Chars), NEW S, NEW k, IsLast(k, p, S)
  PROVE  ReverseFind(p, S) = k
BY ReverseFindIsLast, LastIsUnique

-----------------------------------------------------------------------------
(* fnsplit *)

(* p is put together from a directory, a name and an extension; sep is 0   *)
(* when it has no directory.                                               *)
Parts(p, sep, file, ext) ==
  /\ sep \in 0..Len(p)
  /\ Len(p) = sep + Len(file) + 1 + Len(ext)
  /\ sep # 0 => p[sep] \in Sep
  /\ \A i \in 1..Len(file) : p[sep + i] = file[i]
  /\ p[sep + Len(file) + 1] = "."
  /\ \A i \in 1..Len(ext) : p[sep + Len(file) + 1 + i] = ext[i]

(* A separator that fnsplit cuts at: a slash only without a backslash.     *)
CutsAt(p, sep) ==
  \/ sep = 0
  \/ p[sep] = "\\"
  \/ p[sep] = "/" /\ \A i \in 1..Len(p) : p[i] # "\\"

(* fnsplit cuts at the last separator, if it sees that at all. *)
LEMMA CutIs ==
  ASSUME NEW q \in Seq(Chars), NEW k, IsLast(k, q, Sep), CutsAt(q, k)
  PROVE  (IF ReverseFind(q, {"\\"}) # 0 THEN ReverseFind(q, {"\\"})
          ELSE ReverseFind(q, {"/"})) = k
<1>1. CASE k = 0
  <2>1. IsLast(0, q, {"\\"}) /\ IsLast(0, q, {"/"}) BY <1>1 DEF IsLast, Sep
  <2> QED BY <1>1, <2>1, ReverseFindIs
<1>2. CASE k # 0 /\ q[k] = "\\"
  <2>1. IsLast(k, q, {"\\"}) BY <1>2 DEF IsLast, Sep
  <2> QED BY <1>2, <2>1, ReverseFindIs
<1>3. CASE k # 0 /\ q[k] # "\\"
  <2>1. IsLast(0, q, {"\\"}) BY <1>3 DEF IsLast, CutsAt
  <2>2. IsLast(k, q, {"/"}) BY <1>3 DEF IsLast, Sep, CutsAt
  <2> QED BY <1>3, <2>1, <2>2, ReverseFindIs
<1> QED BY <1>1, <1>2, <1>3

(* fnsplit takes apart what was put together from parts. *)
LEMMA SplitOfParts ==
  ASSUME NEW p \in Seq(Chars), NEW sep \in Nat,
         NEW file \in Seq(Chars), NEW ext \in Seq(Chars), ext # <<>>,
         Parts(p, sep, file, ext), CutsAt(p, sep),
         \A i \in 1..Len(file) : file[i] \notin Sep,
         \A i \in 1..Len(ext) : ext[i] \notin Sep \cup {"."}
  PROVE  /\ ExtDot(p) = sep + Len(file) + 1
         /\ fnsplit(p) = [dir |-> Left(p, sep - 1), file |-> file, ext |-> ext]
<1> DEFINE dot == sep + Len(file) + 1
           tmp == Left(p, dot - 1)
<1>1. dot \in 1..Len(p) - 1 /\ p[dot] = "." /\ p[dot + 1] = ext[1]
  BY DEF Parts
<1>2. \A i \in dot + 1 .. Len(p) : p[i] \notin Sep \cup {"."}
  <2> TAKE i \in dot + 1 .. Len(p)
  <2>1. i - dot \in 1..Len(ext) /\ p[i] = ext[i - dot] BY DEF Parts
  <2> QED BY <2>1
<1>3. ReverseFind(p, {"."}) = dot
  <2>1. IsLast(dot, p, {"."}) BY <1>1, <1>2 DEF IsLast
  <2> QED BY <2>1, ReverseFindIs
<1>4. ExtDot(p) = dot
  BY <1>1, <1>2, <1>3 DEF ExtDot
<1>5. /\ tmp \in Seq(Chars) /\ Len(tmp) = sep + Len(file)
      /\ \A i \in 1..sep + Len(file) : tmp[i] = p[i]
  BY <1>1, LeftIs
<1>6. \A i \in sep + 1 .. Len(tmp) : tmp[i] = file[i - sep]
  <2> TAKE i \in sep + 1 .. Len(tmp)
  <2>1. i - sep \in 1..Len(file) /\ p[sep + (i - sep)] = file[i - sep]
    BY <1>5 DEF Parts
  <2> QED BY <1>5, <2>1
<1>7. \A i \in sep + 1 .. Len(tmp) : tmp[i] \notin Sep
  <2> TAKE i \in sep + 1 .. Len(tmp)
  <2>1. i - sep \in 1..Len(file) BY <1>5
  <2> QED BY <1>6, <2>1
<1>8. After(p, dot) = ext
  <2>1. /\ After(p, dot) \in Seq(Chars) /\ Len(After(p, dot)) = Len(p) - dot
        /\ \A i \in 1..Len(p) - dot : After(p, dot)[i] = p[dot + i]
    <3>1. dot \in Nat /\ dot <= Len(p) BY <1>1
    <3> HIDE DEF dot
    <3> QED BY <3>1, AfterIs
  <2>2. Len(p) - dot = Len(ext) BY DEF Parts
  <2>3. \A i \in 1..Len(ext) : After(p, dot)[i] = ext[i]
    BY <2>1, <2>2 DEF Parts
  <2> QED BY <2>1, <2>2, <2>3, SameSeq
<1>9. After(tmp, sep) = file
  <2>1. /\ After(tmp, sep) \in Seq(Chars) /\ Len(After(tmp, sep)) = Len(file)
        /\ \A i \in 1..Len(file) : After(tmp, sep)[i] = tmp[sep + i]
    <3>1. sep <= Len(tmp) /\ Len(tmp) - sep = Len(file) BY <1>5
    <3> HIDE DEF tmp
    <3> QED BY <1>5, <3>1, AfterIs
  <2>2. \A i \in 1..Len(file) : After(tmp, sep)[i] = file[i]
    <3> TAKE i \in 1..Len(file)
    <3>1. sep + i \in sep + 1 .. Len(tmp) /\ (sep + i) - sep = i BY <1>5
    <3>2. tmp[sep + i] = file[i] BY <1>6, <3>1
    <3> QED BY <2>1, <3>2
  <2> QED BY <2>1, <2>2, SameSeq
<1>10. Left(tmp, sep - 1) = Left(p, sep - 1)
  <2>1. /\ sep - 1 \in Int /\ dot - 1 \in Nat
        /\ sep - 1 <= dot - 1 /\ dot - 1 <= Len(p)
    BY <1>1
  <2> HIDE DEF dot
  <2> QED BY <2>1, LeftOfLeft
<1>11. (IF ReverseFind(tmp, {"\\"}) # 0 THEN ReverseFind(tmp, {"\\"})
        ELSE ReverseFind(tmp, {"/"})) = sep
  <2>1. Len(tmp) <= Len(p) BY <1>1, <1>5
  <2> HIDE DEF tmp
  <2>2. IsLast(sep, tmp, Sep) BY <1>5, <1>7 DEF IsLast, Parts
  <2>3. CutsAt(tmp, sep) BY <1>5, <2>1 DEF CutsAt
  <2> QED BY <1>5, <2>2, <2>3, CutIs
<1>12. dot # 0 /\ ExtDot(p) # 0 BY <1>1, <1>4
<1> HIDE DEF tmp, dot
<1> QED
  BY <1>4, <1>8, <1>9, <1>10, <1>11, <1>12, Zenon DEF fnsplit, tmp, dot

-----------------------------------------------------------------------------
(* Paths that fnsplit cuts where it should *)

(* Where such a path is cut, and where its last dot is. *)
LEMMA SplittableIs ==
  ASSUME NEW p \in Seq(Chars), Splittable(p), NEW k, IsLast(k, p, Sep),
         NEW d, IsLast(d, p, {"."})
  PROVE  /\ NameAt(p) = k + 1
         /\ k \in 0..Len(p)
         /\ CutsAt(p, k)
         /\ d = 0 \/ d > k \/ p[d + 1] \in Sep
<1>1. NameAt(p) = k + 1 BY ReverseFindIs DEF NameAt
<1>2. k \in 0..Len(p) /\ NameAt(p) - 1 = k BY <1>1 DEF IsLast
<1>3. CutsAt(p, k)
  <2>1. CASE k = 0 BY <2>1 DEF CutsAt
  <2>2. CASE p[k] = "\\" BY <2>2 DEF CutsAt
  <2>3. CASE k # 0 /\ p[k] # "\\"
    <3>1. p[NameAt(p) - 1] # "\\" BY <1>2, <2>3, Zenon
    <3>2. Positions(p, {"\\"}) = {} BY <3>1, Zenon DEF Splittable
    <3>3. p[k] = "/" BY <2>3 DEF IsLast, Sep
    <3> QED BY <3>2, <3>3 DEF CutsAt, Positions
  <2> QED BY <2>1, <2>2, <2>3
<1>4. d = 0 \/ d > k \/ p[d + 1] \in Sep
  <2>1. ReverseFind(p, {"."}) = d BY ReverseFindIs
  <2>2. d = 0 \/ d >= NameAt(p) \/ p[d + 1] \in Sep
    BY <2>1, Zenon DEF Splittable
  <2>3. d \in Nat BY DEF IsLast
  <2> QED BY <1>1, <1>2, <2>2, <2>3
<1> QED BY <1>1, <1>2, <1>3, <1>4

(* The last separator of a plain path is neither its first character nor   *)
(* its last.                                                               *)
LEMMA PlainIs ==
  ASSUME NEW p \in Seq(Chars), Plain(p), NEW k, IsLast(k, p, Sep)
  PROVE  /\ NameAt(p) = k + 1
         /\ k \in Nat /\ k < Len(p) /\ k # 1
         /\ CutsAt(p, k)
<1>1. Len(p) \in Nat \ {0} BY DEF Plain, Named
<1>2. p[1] \notin Sep /\ p[Len(p)] \notin Sep BY DEF Plain, Named
<1>3. k \in Nat /\ k < Len(p) /\ k # 1 BY <1>1, <1>2 DEF IsLast
<1>4. IsLast(ReverseFind(p, {"."}), p, {"."}) BY ReverseFindIsLast
<1>5. Splittable(p) BY DEF Plain
<1> QED BY <1>3, <1>4, <1>5, SplittableIs

(* Such a path with a dot in its name that is not its last character.      *)
LEMMA NameHasParts ==
  ASSUME NEW p \in Seq(Chars), Splittable(p), NEW k, IsLast(k, p, Sep),
         NEW d, IsLast(d, p, {"."}), d \in 1..Len(p) - 1, k < d
  PROVE  LET file == After(Left(p, d - 1), k)
             ext  == After(p, d)
         IN /\ k \in Nat /\ CutsAt(p, k)
            /\ NameAt(p) = k + 1
            /\ file \in Seq(Chars) /\ Len(file) = d - 1 - k
            /\ ext \in Seq(Chars) /\ ext # <<>>
            /\ Parts(p, k, file, ext)
            /\ \A i \in 1..Len(file) : file[i] \notin Sep
            /\ \A i \in 1..Len(ext) : ext[i] \notin Sep \cup {"."}
<1> DEFINE tmp == Left(p, d - 1)
           file == After(tmp, k)
           ext == After(p, d)
<1>1. /\ k \in Nat /\ k < Len(p) /\ CutsAt(p, k)
      /\ NameAt(p) = k + 1 /\ p[d] = "." /\ k < d
  BY SplittableIs DEF IsLast
<1>2. /\ tmp \in Seq(Chars) /\ Len(tmp) = d - 1
      /\ \A i \in 1..d - 1 : tmp[i] = p[i]
  <2>1. d - 1 \in Int /\ d - 1 <= Len(p) /\ d - 1 >= 0 OBVIOUS
  <2> QED BY <2>1, LeftIs
<1> HIDE DEF tmp
<1>3. /\ file \in Seq(Chars) /\ Len(file) = d - 1 - k
      /\ \A i \in 1..Len(file) : file[i] = tmp[k + i]
  <2>1. k <= Len(tmp) BY <1>1, <1>2
  <2>2. /\ file \in Seq(Chars) /\ Len(file) = Len(tmp) - k
        /\ \A i \in 1..Len(tmp) - k : file[i] = tmp[k + i]
    BY <1>1, <1>2, <2>1, AfterIs
  <2> QED BY <1>2, <2>2
<1>4. /\ ext \in Seq(Chars) /\ Len(ext) = Len(p) - d
      /\ \A i \in 1..Len(p) - d : ext[i] = p[d + i]
  <2>1. d \in Nat /\ d <= Len(p) OBVIOUS
  <2> QED BY <2>1, AfterIs
<1> HIDE DEF file, ext
<1>5. \A i \in 1..Len(file) : file[i] = p[k + i] /\ p[k + i] \notin Sep
  <2> TAKE i \in 1..Len(file)
  <2>1. k + i \in 1..d - 1 /\ k + i > k BY <1>1, <1>3
  <2>2. k + i \in 1..Len(p) BY <2>1
  <2> QED BY <1>1, <1>2, <1>3, <2>1, <2>2 DEF IsLast
<1>6. \A i \in 1..Len(ext) : ext[i] = p[d + i] /\ p[d + i] \notin Sep \cup {"."}
  <2> TAKE i \in 1..Len(ext)
  <2>1. d + i \in 1..Len(p) /\ d + i > d /\ d + i > k BY <1>1, <1>4
  <2> QED BY <1>4, <2>1 DEF IsLast
<1>7. Parts(p, k, file, ext)
  <2>1. Len(p) = k + Len(file) + 1 + Len(ext) /\ k + Len(file) + 1 = d
    BY <1>1, <1>3, <1>4
  <2>2. k \in 0..Len(p) BY <1>1
  <2>3. k # 0 => p[k] \in Sep BY DEF IsLast
  <2> QED BY <1>1, <1>5, <1>6, <2>1, <2>2, <2>3 DEF Parts
<1>8. ext # <<>> BY <1>4
<1> QED BY <1>1, <1>3, <1>4, <1>5, <1>6, <1>7, <1>8 DEF file, ext, tmp

(* The dot before the extension of a plain path is behind its last         *)
(* separator.                                                              *)
LEMMA DotIsInName ==
  ASSUME NEW p \in Seq(Chars), Plain(p), HasExt(p),
         NEW k, IsLast(k, p, Sep), NEW d, IsLast(d, p, {"."})
  PROVE  Splittable(p) /\ k # 1 /\ d \in 1..Len(p) - 1 /\ k < d
<1>1. NameAt(p) = k + 1 /\ k \in Nat /\ k # 1 BY PlainIs
<1>2. ReverseFind(p, {"."}) = d BY ReverseFindIs
<1>3. d \in NameAt(p) + 1 .. Len(p) - 1 BY <1>2 DEF HasExt
<1>4. d \in 1..Len(p) - 1 /\ k < d BY <1>1, <1>3
<1> QED BY <1>1, <1>4 DEF Plain

(* A path without an extension. *)
LEMMA SplitWithoutExt ==
  ASSUME NEW p \in Seq(Chars), NEW k, IsLast(k, p, Sep), CutsAt(p, k),
         ExtDot(p) = 0
  PROVE  /\ fnsplit(p).dir = Left(p, k - 1)
         /\ fnsplit(p).file = After(p, k)
         /\ fnsplit(p).ext = <<>>
BY CutIs, Zenon DEF fnsplit

(* fnsplit is right on every path that it cuts where it should: directory, *)
(* name and extension are found, and there is no extension only where the  *)
(* name has no dot or ends in one.                                         *)
THEOREM SplitHolds ==
  ASSUME NEW p \in Seq(Chars), Splittable(p)
  PROVE  SplitIsRight(p)
<1>1. PICK k : k = ReverseFind(p, Sep) OBVIOUS
<1>2. IsLast(k, p, Sep) BY <1>1, ReverseFindIsLast
<1>3. PICK d : d = ReverseFind(p, {"."}) OBVIOUS
<1>4. IsLast(d, p, {"."}) BY <1>3, ReverseFindIsLast
<1>5. /\ NameAt(p) = k + 1 /\ k \in 0..Len(p) /\ CutsAt(p, k)
      /\ d = 0 \/ d > k \/ p[d + 1] \in Sep
  BY <1>2, <1>4, SplittableIs
<1>6. Left(p, NameAt(p) - 2) = Left(p, k - 1)
  <2>1. NameAt(p) - 2 = k - 1 BY <1>5
  <2> QED BY <2>1, Zenon
<1> DEFINE name == Name(p)
           dots == Positions(name, {"."})
<1>7. /\ name = After(p, k)
      /\ name \in Seq(Chars) /\ Len(name) = Len(p) - k
      /\ \A i \in 1..Len(p) - k : name[i] = p[k + i]
  <2>1. NameAt(p) - 1 = k BY <1>5
  <2>2. Name(p) = After(p, k) BY <2>1, Zenon DEF Name
  <2>3. k \in Nat /\ k <= Len(p) BY <1>5
  <2>4. /\ After(p, k) \in Seq(Chars) /\ Len(After(p, k)) = Len(p) - k
        /\ \A i \in 1..Len(p) - k : After(p, k)[i] = p[k + i]
    BY <2>3, AfterIs
  <2> QED BY <2>2, <2>4, Zenon
<1>8. ASSUME NEW ext, NEW file, fnsplit(p).dir = Left(p, k - 1),
             fnsplit(p).file = file, fnsplit(p).ext = ext,
             name = IF ext = <<>> THEN file ELSE file \o <<".">> \o ext,
             Positions(ext, {"."}) = {},
             ext = <<>> <=> dots = {} \/ name[Len(name)] = "."
      PROVE  SplitIsRight(p)
  BY <1>6, <1>8, Zenon DEF SplitIsRight
<1> HIDE DEF name
<1>9. CASE d \in 1..Len(p) - 1 /\ d > k
  <2> DEFINE file == After(Left(p, d - 1), k)
             ext == After(p, d)
  <2>1. /\ k < d /\ k \in Nat
        /\ file \in Seq(Chars) /\ Len(file) = d - 1 - k
        /\ ext \in Seq(Chars) /\ ext # <<>>
        /\ Parts(p, k, file, ext)
        /\ \A i \in 1..Len(file) : file[i] \notin Sep
        /\ \A i \in 1..Len(ext) : ext[i] \notin Sep \cup {"."}
    BY <1>2, <1>4, <1>5, <1>9, NameHasParts
  <2> HIDE DEF file, ext
  <2>2. fnsplit(p) = [dir |-> Left(p, k - 1), file |-> file, ext |-> ext]
    BY <1>5, <2>1, SplitOfParts
  <2>3. file \o <<".">> \o ext = name
    <3> DEFINE m == file \o <<".">> \o ext
    <3> DEFINE fd == file \o <<".">>
    <3>1. m \in Seq(Chars) /\ Len(m) = Len(file) + 1 + Len(ext)
      <4>1. <<".">> \in Seq(Chars) /\ Len(<<".">>) = 1 BY DEF Chars
      <4>2. fd \in Seq(Chars) /\ Len(fd) = Len(file) + 1
        BY <2>1, <4>1, CatIs
      <4> HIDE DEF fd
      <4>3. fd \o ext \in Seq(Chars) /\ Len(fd \o ext) = Len(fd) + Len(ext)
        BY <2>1, <4>2, CatIs
      <4> QED BY <4>2, <4>3 DEF fd
    <3>2. Len(m) = Len(name) BY <2>1, <1>7, <3>1 DEF Parts
    <3>3. \A i \in 1..Len(m) : m[i] = name[i]
      <4> TAKE i \in 1..Len(m)
      <4>1. name[i] = p[k + i] BY <1>7, <3>2
      <4>2. CASE i <= Len(file)
        <5>1. m[i] = file[i] BY <2>1, <4>2
        <5> QED BY <2>1, <4>1, <4>2, <5>1 DEF Parts
      <4>3. CASE i = Len(file) + 1
        <5>1. m[i] = "." BY <2>1, <4>3
        <5> QED BY <1>5, <2>1, <4>1, <4>3, <5>1, SMTT(30) DEF Parts
      <4>4. CASE i > Len(file) + 1
        <5>1. PICK j \in 1..Len(ext) : i = Len(file) + 1 + j
          <6>1. i - Len(file) - 1 \in 1..Len(ext) BY <2>1, <3>1, <4>4
          <6>2. i = Len(file) + 1 + (i - Len(file) - 1) BY <2>1, <3>1
          <6> QED BY <6>1, <6>2
        <5>2. m[i] = ext[j] BY <2>1, <5>1
        <5>3. k + i = k + Len(file) + 1 + j BY <1>5, <2>1, <5>1
        <5> QED BY <2>1, <4>1, <5>2, <5>3 DEF Parts
      <4> QED BY <2>1, <3>1, <4>2, <4>3, <4>4
    <3> HIDE DEF m
    <3>4. m = name BY <1>7, <3>1, <3>2, <3>3, SameSeq
    <3> QED BY <3>4 DEF m
  <2>4. Positions(ext, {"."}) = {} BY <2>1 DEF Positions
  <2>5. dots # {} /\ name[Len(name)] # "."
    <3>1. d - k \in 1..Len(p) - k /\ k + (d - k) = d BY <1>9, <2>1
    <3>2. d - k \in dots BY <1>4, <1>7, <1>9, <3>1 DEF IsLast, Positions
    <3>3. Len(p) - k \in 1..Len(p) - k /\ k + (Len(p) - k) = Len(p)
      BY <1>9, <2>1
    <3>4. name[Len(name)] = p[Len(p)] BY <1>7, <3>3
    <3>5. p[Len(p)] # "." BY <1>4, <1>9 DEF IsLast
    <3> QED BY <3>2, <3>4, <3>5
  <2>6. /\ fnsplit(p).dir = Left(p, k - 1)
        /\ fnsplit(p).file = file /\ fnsplit(p).ext = ext
    BY <2>2
  <2> HIDE DEF dots
  <2> QED BY <1>8, <2>1, <2>3, <2>4, <2>5, <2>6, Zenon
<1>10. CASE ~(d \in 1..Len(p) - 1 /\ d > k)
  <2>1. d = 0 \/ d = Len(p) \/ (d \in 1..k - 1 /\ p[d + 1] \in Sep)
    <3>1. d # 0 /\ k # 0 => d # k BY <1>2, <1>4 DEF IsLast, Sep
    <3> QED BY <1>4, <1>5, <1>10, <3>1 DEF IsLast
  <2>2. ExtDot(p) = 0 BY <1>3, <2>1 DEF ExtDot
  <2>3. /\ fnsplit(p).dir = Left(p, k - 1)
        /\ fnsplit(p).file = name /\ fnsplit(p).ext = <<>>
    BY <1>2, <1>5, <1>7, <2>2, SplitWithoutExt, Zenon
  <2>4. Positions(<<>>, {"."}) = {} BY DEF Positions
  <2>5. dots = {} \/ name[Len(name)] = "."
    <3>1. CASE d = Len(p) /\ d # 0
      <4>1. k # d BY <1>2, <1>4, <3>1 DEF IsLast, Sep
      <4>2. Len(p) - k \in 1..Len(p) - k /\ k + (Len(p) - k) = Len(p)
        BY <1>5, <3>1, <4>1
      <4>3. name[Len(name)] = p[Len(p)] BY <1>7, <4>2
      <4> QED BY <1>4, <3>1, <4>3 DEF IsLast
    <3>2. CASE d = 0 \/ d < k
      <4>1. ASSUME NEW i \in 1..Len(name), name[i] = "." PROVE FALSE
        <5>1. p[k + i] = "." /\ k + i \in 1..Len(p) BY <1>5, <1>7, <4>1
        <5>2. k + i <= d BY <1>4, <5>1 DEF IsLast
        <5> QED BY <1>4, <1>5, <3>2, <5>2 DEF IsLast
      <4> QED BY <4>1 DEF Positions
    <3> QED BY <1>5, <2>1, <3>1, <3>2
  <2> HIDE DEF dots
  <2> QED BY <1>8, <2>3, <2>4, <2>5, Zenon
<1> QED BY <1>9, <1>10

-----------------------------------------------------------------------------
(* fnmerge and fnSetSuffix *)

Dots == {<<>>, <<".">>, <<".", ".">>}

(* Dots in front of an extension are trimmed, and no more. *)
LEMMA DotsAreTrimmed ==
  ASSUME NEW dots \in Dots, NEW ext \in Seq(Chars), ext # <<>>, ext[1] # "."
  PROVE  TrimLeft(dots \o ext, {"."}) = ext
<1> DEFINE q == dots \o ext
           stays == {i \in 1..Len(q) : q[i] \notin {"."}}
           n == Len(dots) + 1
<1>1. dots \in Seq(Chars) /\ \A i \in 1..Len(dots) : dots[i] = "."
  <2>1. "." \in Chars BY DEF Chars
  <2>2. CASE dots = <<>> BY <2>2
  <2>3. CASE dots = <<".">> BY <2>1, <2>3
  <2>4. CASE dots = <<".", ".">> BY <2>1, <2>4
  <2> QED BY <2>2, <2>3, <2>4 DEF Dots
<1>2. /\ q \in Seq(Chars) /\ Len(q) = Len(dots) + Len(ext)
      /\ \A i \in 1..Len(dots) : q[i] = "."
      /\ \A i \in 1..Len(ext) : q[Len(dots) + i] = ext[i]
  BY <1>1
<1>3. Len(dots) \in Nat /\ Len(ext) \in Nat \ {0} BY <1>1
<1> HIDE DEF q
<1>4. n \in stays /\ \A i \in stays : n <= i
  <2>1. q[n] = ext[1] BY <1>2, <1>3
  <2> QED BY <1>2, <1>3, <2>1
<1>5. \A m \in stays : (\A i \in stays : m <= i) => m = n
  <2>1. stays \subseteq Nat BY <1>2
  <2> HIDE DEF stays, n
  <2> TAKE m \in stays
  <2> HAVE \A i \in stays : m <= i
  <2>2. m <= n /\ n <= m /\ m \in Nat /\ n \in Nat BY <1>4, <2>1
  <2> QED BY <2>2
<1>6. (CHOOSE i \in stays : \A m \in stays : i <= m) - 1 = Len(dots)
  <2> DEFINE least == CHOOSE i \in stays : \A m \in stays : i <= m
  <2>1. least \in stays /\ \A m \in stays : least <= m
    <3> HIDE DEF stays, n
    <3> QED BY <1>4
  <2> HIDE DEF least, stays
  <2>2. least = n BY <1>5, <2>1
  <2>3. n - 1 = Len(dots) BY <1>3
  <2> QED BY <2>2, <2>3 DEF least
<1>7. After(q, Len(dots)) = ext
  <2>1. Len(dots) <= Len(q) BY <1>2, <1>3
  <2>2. /\ After(q, Len(dots)) \in Seq(Chars)
        /\ Len(After(q, Len(dots))) = Len(q) - Len(dots)
        /\ \A i \in 1..Len(q) - Len(dots) :
             After(q, Len(dots))[i] = q[Len(dots) + i]
    BY <1>2, <1>3, <2>1, AfterIs
  <2>3. Len(q) - Len(dots) = Len(ext) BY <1>2, <1>3
  <2> QED BY <1>2, <2>2, <2>3, SameSeq
<1>8. stays # {} BY <1>4
<1> HIDE DEF n
<1>9. TrimLeft(q, {"."}) = ext
  BY <1>6, <1>7, <1>8, Zenon DEF TrimLeft
<1> QED BY <1>9 DEF q

(* How long the directory is with its separator. *)
SepAt(dir) == IF dir = <<>> THEN 0 ELSE Len(dir) + 1

(* t is what fnmerge makes. *)
Merged(t, dir, file, ext) ==
  /\ t \in Seq(Chars)
  /\ Parts(t, SepAt(dir), file, ext)
  /\ Left(t, SepAt(dir) - 1) = dir
  /\ SepAt(dir) # 0 => t[SepAt(dir)] = "\\"

(* fnmerge puts parts together. *)
LEMMA MergeHasParts ==
  ASSUME NEW dir \in Seq(Chars), NEW file \in Seq(Chars),
         NEW ext \in Seq(Chars), ext # <<>>, ext[1] # ".", NEW dots \in Dots
  PROVE  Merged(fnmerge(dir, file, dots \o ext), dir, file, ext)
<1> DEFINE front == IF dir = <<>> THEN <<>> ELSE Append(dir, "\\")
           t == front \o file \o <<".">> \o ext
           n == SepAt(dir)
<1>1. fnmerge(dir, file, dots \o ext) = t
  BY DotsAreTrimmed, Zenon DEF fnmerge
<1>2. /\ front \in Seq(Chars) /\ Len(front) = n /\ n \in Nat
      /\ n # 0 => front[n] = "\\"
      /\ \A i \in 1..n - 1 : front[i] = dir[i]
  <2>1. CASE dir = <<>> BY <2>1 DEF SepAt
  <2>2. CASE dir # <<>>
    <3>1. front = Append(dir, "\\") BY <2>2
    <3>2. "\\" \in Chars BY DEF Chars, Sep
    <3> QED BY <2>2, <3>1, <3>2 DEF SepAt
  <2> QED BY <2>1, <2>2
<1> HIDE DEF front, n
<1>3. "." \in Chars BY DEF Chars
<1>4. /\ t \in Seq(Chars) /\ Len(t) = n + Len(file) + 1 + Len(ext)
      /\ \A i \in 1..n : t[i] = front[i]
      /\ \A i \in 1..Len(file) : t[n + i] = file[i]
      /\ t[n + Len(file) + 1] = "."
      /\ \A i \in 1..Len(ext) : t[n + Len(file) + 1 + i] = ext[i]
  <2> DEFINE named == front \o file
             dotted == named \o <<".">>
  <2>1. /\ named \in Seq(Chars) /\ Len(named) = n + Len(file)
        /\ \A i \in 1..n : named[i] = front[i]
        /\ \A i \in 1..Len(file) : named[n + i] = file[i]
    BY <1>2, CatIs, ZenonT(60)
  <2> HIDE DEF named
  <2>2. <<".">> \in Seq(Chars) /\ Len(<<".">>) = 1 /\ <<".">>[1] = "."
    BY <1>3
  <2>3. Len(file) \in Nat /\ Len(ext) \in Nat OBVIOUS
  <2>4. /\ dotted \in Seq(Chars) /\ Len(dotted) = n + Len(file) + 1
        /\ \A i \in 1..n + Len(file) : dotted[i] = named[i]
        /\ \A i \in 1..1 : dotted[n + Len(file) + i] = <<".">>[i]
    <3> DEFINE one == <<".">>
    <3>1. one \in Seq(Chars) /\ Len(one) = 1 BY <2>2
    <3> HIDE DEF one
    <3>2. /\ named \o one \in Seq(Chars)
          /\ Len(named \o one) = Len(named) + Len(one)
          /\ \A i \in 1..Len(named) : (named \o one)[i] = named[i]
          /\ \A i \in 1..Len(one) : (named \o one)[Len(named) + i] = one[i]
      BY <2>1, <3>1, CatIs, Zenon
    <3>3. dotted = named \o one BY DEF dotted, one
    <3> HIDE DEF dotted
    <3> QED BY <2>1, <3>1, <3>2, <3>3 DEF one
  <2> HIDE DEF dotted
  <2>5. dotted[n + Len(file) + 1] = "." BY <2>2, <2>4
  <2>6. t = dotted \o ext BY DEF dotted, named
  <2> HIDE DEF t
  <2>7. /\ dotted \o ext \in Seq(Chars)
        /\ Len(dotted \o ext) = Len(dotted) + Len(ext)
        /\ \A i \in 1..Len(dotted) : (dotted \o ext)[i] = dotted[i]
        /\ \A i \in 1..Len(ext) : (dotted \o ext)[Len(dotted) + i] = ext[i]
    BY <2>4, CatIs, Zenon
  <2>8. /\ t \in Seq(Chars)
        /\ Len(t) = n + Len(file) + 1 + Len(ext)
        /\ \A i \in 1..n + Len(file) + 1 : t[i] = dotted[i]
        /\ \A i \in 1..Len(ext) : t[n + Len(file) + 1 + i] = ext[i]
    BY <2>4, <2>6, <2>7
  <2>9. \A i \in 1..n : t[i] = front[i]
    <3> TAKE i \in 1..n
    <3>1. i \in 1..n + Len(file) /\ i \in 1..n + Len(file) + 1
      BY <1>2, <2>3
    <3> QED BY <2>1, <2>4, <2>8, <3>1
  <2>10. \A i \in 1..Len(file) : t[n + i] = file[i]
    <3> TAKE i \in 1..Len(file)
    <3>1. n + i \in 1..n + Len(file) /\ n + i \in 1..n + Len(file) + 1
      BY <1>2, <2>3
    <3> QED BY <2>1, <2>4, <2>8, <3>1
  <2>11. t[n + Len(file) + 1] = "."
    <3>1. n + Len(file) + 1 \in 1..n + Len(file) + 1 BY <1>2, <2>3
    <3> QED BY <2>5, <2>8, <3>1
  <2> QED BY <2>8, <2>9, <2>10, <2>11
<1> HIDE DEF t
<1>5. n # 0 => t[n] = "\\" BY <1>2, <1>4
<1>6. Parts(t, n, file, ext)
  <2>1. n \in 0..Len(t) BY <1>2, <1>4
  <2> QED BY <1>4, <1>5, <2>1 DEF Parts, Sep
<1>7. Left(t, n - 1) = dir
  <2>1. n - 1 \in Int /\ n - 1 <= Len(t) BY <1>2, <1>4
  <2>2. /\ Left(t, n - 1) \in Seq(Chars)
        /\ n - 1 >= 0 => Len(Left(t, n - 1)) = n - 1
        /\ n - 1 < 0 => Len(Left(t, n - 1)) = 0
        /\ \A i \in 1..n - 1 : Left(t, n - 1)[i] = t[i]
    BY <1>4, <2>1, LeftIs
  <2>3. Len(Left(t, n - 1)) = Len(dir) BY <2>2 DEF n, SepAt
  <2>4. \A i \in 1..n - 1 : t[i] = dir[i] BY <1>2, <1>4
  <2>5. \A i \in 1..Len(dir) : i \in 1..n - 1 BY DEF n, SepAt
  <2> QED BY <2>2, <2>3, <2>4, <2>5, SameSeq
<1>8. Merged(t, dir, file, ext)
  BY <1>4, <1>5, <1>6, <1>7 DEF n, Merged
<1> QED BY <1>1, <1>8, Zenon

(* fnmerge undoes fnsplit on every plain path of a file. *)
THEOREM MergeHolds ==
  ASSUME NEW p \in Seq(Chars), Plain(p), HasExt(p)
  PROVE  MergeInverts(p)
<1>1. PICK k : k = ReverseFind(p, Sep) OBVIOUS
<1>2. IsLast(k, p, Sep) BY <1>1, ReverseFindIsLast
<1>3. PICK d : d = ReverseFind(p, {"."}) OBVIOUS
<1>4. IsLast(d, p, {"."}) BY <1>3, ReverseFindIsLast
<1>5. Splittable(p) /\ k # 1 /\ d \in 1..Len(p) - 1 /\ k < d
  BY <1>2, <1>4, DotIsInName
<1> DEFINE dir == Left(p, k - 1)
           file == After(Left(p, d - 1), k)
           ext == After(p, d)
<1>6. /\ k \in Nat /\ k # 1 /\ k < d /\ CutsAt(p, k) /\ NameAt(p) = k + 1
      /\ file \in Seq(Chars) /\ ext \in Seq(Chars) /\ ext # <<>>
      /\ Parts(p, k, file, ext)
      /\ \A i \in 1..Len(file) : file[i] \notin Sep
      /\ \A i \in 1..Len(ext) : ext[i] \notin Sep \cup {"."}
  BY <1>2, <1>4, <1>5, NameHasParts
<1> HIDE DEF file, ext
<1>7. fnsplit(p) = [dir |-> dir, file |-> file, ext |-> ext]
  BY <1>6, SplitOfParts
<1>8. /\ dir \in Seq(Chars) /\ SepAt(dir) = k
      /\ \A i \in 1..k - 1 : dir[i] = p[i]
  <2>1. k - 1 \in Int /\ k - 1 <= Len(p) BY <1>5, <1>6
  <2>2. /\ dir \in Seq(Chars)
        /\ k - 1 >= 0 => Len(dir) = k - 1
        /\ k - 1 < 0 => Len(dir) = 0
        /\ \A i \in 1..k - 1 : dir[i] = p[i]
    BY <2>1, LeftIs
  <2> HIDE DEF dir
  <2>3. SepAt(dir) = k BY <1>6, <2>2 DEF SepAt
  <2> QED BY <2>2, <2>3
<1> HIDE DEF dir
<1>9. ASSUME NEW dots \in Dots
      PROVE  fnmerge(dir, file, dots \o ext)
               = [i \in 1..Len(p) |-> IF i = NameAt(p) - 1 THEN "\\" ELSE p[i]]
  <2> DEFINE t == fnmerge(dir, file, dots \o ext)
             q == [i \in 1..Len(p) |-> IF i = NameAt(p) - 1 THEN "\\" ELSE p[i]]
  <2>1. ext[1] # "." BY <1>6
  <2>2. /\ t \in Seq(Chars)
        /\ Parts(t, k, file, ext)
        /\ Left(t, k - 1) = dir
        /\ k # 0 => t[k] = "\\"
    <3>1. Merged(t, dir, file, ext)
      BY <1>6, <1>8, <2>1, MergeHasParts, Zenon
    <3> HIDE DEF t
    <3> QED BY <1>8, <3>1 DEF Merged
  <2> HIDE DEF t
  <2>3. q \in Seq(Chars) /\ Len(q) = Len(p) BY DEF Chars, Sep
  <2>4. Len(t) = Len(p) BY <1>6, <2>2 DEF Parts
  <2>5. \A i \in 1..Len(t) : t[i] = q[i]
    <3> TAKE i \in 1..Len(t)
    <3>0. NameAt(p) - 1 = k /\ i \in 1..Len(p) BY <1>6, <2>4
    <3>1. CASE i < k
      <4>1. k - 1 \in Int /\ k - 1 <= Len(t) BY <1>5, <1>6, <2>4
      <4>2. \A j \in 1..k - 1 : Left(t, k - 1)[j] = t[j]
        BY <2>2, <4>1, LeftIs
      <4>3. i \in 1..k - 1 BY <1>6, <3>1
      <4>4. t[i] = dir[i] BY <2>2, <4>2, <4>3
      <4>5. t[i] = p[i] BY <1>8, <4>3, <4>4
      <4> QED BY <1>6, <3>0, <3>1, <4>5
    <3>2. CASE i = k BY <1>6, <2>2, <3>0, <3>2
    <3>3. CASE i > k
      <4>1. q[i] = p[i] BY <3>0, <3>3
      <4>2. CASE i <= k + Len(file)
        <5>1. PICK j \in 1..Len(file) : i = k + j
          <6>1. i - k \in 1..Len(file) BY <1>6, <3>3, <4>2
          <6> QED BY <1>6, <6>1
        <5> QED BY <1>6, <2>2, <4>1, <5>1 DEF Parts
      <4>3. CASE i = k + Len(file) + 1
        BY <1>6, <2>2, <4>1, <4>3 DEF Parts
      <4>4. CASE i > k + Len(file) + 1
        <5>1. PICK j \in 1..Len(ext) : i = k + Len(file) + 1 + j
          <6>1. i - (k + Len(file) + 1) \in 1..Len(ext)
            BY <1>6, <2>2, <4>4 DEF Parts
          <6>2. i = k + Len(file) + 1 + (i - (k + Len(file) + 1))
            BY <1>6
          <6> QED BY <6>1, <6>2
        <5> QED BY <1>6, <2>2, <4>1, <5>1 DEF Parts
      <4>5. k \in Nat /\ Len(file) \in Nat /\ i \in Nat BY <1>6
      <4> QED BY <4>2, <4>3, <4>4, <4>5
    <3> QED BY <1>6, <3>1, <3>2, <3>3
  <2> HIDE DEF q
  <2>6. t = q BY <2>2, <2>3, <2>4, <2>5, SameSeq
  <2> QED BY <2>6 DEF t, q
<1>10. fnsplit(p).dir = dir /\ fnsplit(p).file = file /\ fnsplit(p).ext = ext
  BY <1>7
<1> QED BY <1>9, <1>10, Zenon DEF MergeInverts, Dots

(* fnSetSuffix replaces the extension of every plain path of a file.       *)
THEOREM SuffixHolds ==
  ASSUME NEW p \in Seq(Chars), Plain(p), HasExt(p)
  PROVE  SuffixIsReplaced(p)
<1> DEFINE sfx == <<"a", "a">>
           s == fnsplit(p)
           t == fnSetSuffix(p, sfx)
<1>1. s.dir \in Seq(Chars) /\ s.file \in Seq(Chars)
      /\ s = [dir |-> s.dir, file |-> s.file, ext |-> s.ext]
      /\ \A i \in 1..Len(s.file) : s.file[i] \notin Sep
  <2>1. PICK k : k = ReverseFind(p, Sep) OBVIOUS
  <2>2. IsLast(k, p, Sep) BY <2>1, ReverseFindIsLast
  <2>3. PICK d : d = ReverseFind(p, {"."}) OBVIOUS
  <2>4. IsLast(d, p, {"."}) BY <2>3, ReverseFindIsLast
  <2>5. Splittable(p) /\ d \in 1..Len(p) - 1 /\ k < d
    BY <2>2, <2>4, DotIsInName
  <2> DEFINE dir == Left(p, k - 1)
             file == After(Left(p, d - 1), k)
             ext == After(p, d)
  <2>6. /\ k \in Nat /\ CutsAt(p, k) /\ k < d
        /\ file \in Seq(Chars) /\ ext \in Seq(Chars) /\ ext # <<>>
        /\ Parts(p, k, file, ext)
        /\ \A i \in 1..Len(file) : file[i] \notin Sep
        /\ \A i \in 1..Len(ext) : ext[i] \notin Sep \cup {"."}
    BY <2>2, <2>4, <2>5, NameHasParts
  <2>7. dir \in Seq(Chars)
    <3>1. k - 1 \in Int /\ k - 1 <= Len(p) BY <2>5, <2>6
    <3> QED BY <3>1, LeftIs
  <2> HIDE DEF file, ext
  <2>8. s = [dir |-> dir, file |-> file, ext |-> ext]
    BY <2>6, SplitOfParts
  <2> HIDE DEF s, dir
  <2> QED BY <2>6, <2>7, <2>8
<1> HIDE DEF s
<1>2. /\ sfx \in Seq(Chars) /\ sfx # <<>> /\ sfx[1] # "." /\ Len(sfx) = 2
      /\ \A i \in 1..Len(sfx) : sfx[i] \notin Sep \cup {"."}
      /\ Head(sfx) # "."
      /\ Head(<<".", "a", "a">>) = "." /\ Tail(<<".", "a", "a">>) = sfx
  BY DEF Chars, Sep
<1> HIDE DEF sfx
<1>3. /\ t = fnmerge(s.dir, s.file, sfx)
      /\ fnSetSuffix(p, <<".", "a", "a">>) = t
  BY <1>2, Zenon DEF fnSetSuffix, s
<1> HIDE DEF t
<1>4. /\ t \in Seq(Chars)
      /\ Parts(t, SepAt(s.dir), s.file, sfx)
      /\ Left(t, SepAt(s.dir) - 1) = s.dir
      /\ SepAt(s.dir) # 0 => t[SepAt(s.dir)] = "\\"
  <2>1. <<>> \in Dots /\ <<>> \o sfx = sfx BY <1>2 DEF Dots
  <2>2. fnmerge(s.dir, s.file, <<>> \o sfx) = t BY <1>3, <2>1
  <2> DEFINE u == fnmerge(s.dir, s.file, <<>> \o sfx)
  <2>3. Merged(u, s.dir, s.file, sfx)
    BY <1>1, <1>2, <2>1, MergeHasParts, Zenon
  <2> QED BY <2>2, <2>3, Zenon DEF Merged
<1>5. fnsplit(t) = [dir |-> s.dir, file |-> s.file, ext |-> sfx]
  <2>1. SepAt(s.dir) \in Nat BY <1>1 DEF SepAt
  <2>2. CutsAt(t, SepAt(s.dir)) BY <1>4 DEF CutsAt
  <2>3. /\ ExtDot(t) = SepAt(s.dir) + Len(s.file) + 1
        /\ fnsplit(t) = [dir |-> Left(t, SepAt(s.dir) - 1),
                         file |-> s.file, ext |-> sfx]
    BY <1>1, <1>2, <1>4, <2>1, <2>2, SplitOfParts, SMTT(30)
  <2> QED BY <1>4, <2>3
<1>6. fnsplit(t) = [s EXCEPT !.ext = sfx] BY <1>1, <1>5
<1>7. fnSetSuffix(t, sfx) = t
  <2>1. fnsplit(t).dir = s.dir /\ fnsplit(t).file = s.file BY <1>5
  <2> QED BY <1>2, <1>3, <2>1, Zenon DEF fnSetSuffix
<1> QED BY <1>3, <1>6, <1>7, Zenon DEF SuffixIsReplaced, t, s, sfx

-----------------------------------------------------------------------------
(* makeDirAndUpperDirs *)

(* The directories that are made of d. *)
TokenDirs(d) ==
  {Left(d, r[2]) : r \in {t \in Tokens(d) : t[1] = t[2] \/ d[t[1] + 1] # ":"}}

(* Separator i of p ends the name of a directory, and not a drive. *)
EndsDir(p, i) == i \in 1..Len(p) /\ p[i] \in Sep /\ (i # 3 \/ p[2] # ":")

(* The directories above, by the separators that end them. *)
LEMMA UpperDirsIs ==
  ASSUME NEW p
  PROVE  UpperDirs(p) = {Left(p, i - 1) : i \in {j \in 1..Len(p) : EndsDir(p, j)}}
BY DEF UpperDirs, EndsDir, Positions

(* What a named path is, character by character. *)
LEMMA NamedIs ==
  ASSUME NEW p \in Seq(Chars), Named(p)
  PROVE  /\ Len(p) >= 1 /\ p[1] \notin Sep /\ p[Len(p)] \notin Sep
         /\ \A i \in 1..Len(p) - 1 : p[i] \in Sep => p[i + 1] \notin Sep
         /\ \A i \in 1..Len(p) : p[i] = ":" => i = 2 /\ Len(p) > 2 /\ p[3] \in Sep
<1>1. \A i \in 1..Len(p) : p[i] = ":" => i \in Positions(p, {":"})
  BY DEF Positions
<1> QED BY <1>1 DEF Named

(* Every separator ends a token. *)
LEMMA SepEndsToken ==
  ASSUME NEW p \in Seq(Chars), Named(p), NEW m \in Nat, m <= Len(p),
         NEW i, EndsDir(p, i), i - 1 <= m
  PROVE  Left(p, i - 1) \in TokenDirs(Left(p, m))
<1> DEFINE d == Left(p, m)
           T == {j \in 0..i - 1 : j = 0 \/ p[j] \in Sep}
<1>1. i \in 1..Len(p) /\ p[i] \in Sep /\ (i # 3 \/ p[2] # ":")
  BY DEF EndsDir
<1>2. /\ d \in Seq(Chars) /\ Len(d) = m
      /\ \A j \in 1..m : d[j] = p[j]
  BY LeftIs
<1>3. PICK g \in T : \A j \in T : j <= g
  <2>1. T \in SUBSET Nat /\ 0 \in T /\ i \in Nat /\ \A j \in T : j <= i
    BY <1>1
  <2> HIDE DEF T
  <2> QED BY <2>1, GreatestNat
<1>4. g \in Nat /\ g < i - 1
  <2>1. g \in 0..i - 1 /\ (g = 0 \/ p[g] \in Sep) BY <1>3
  <2>2. i # 1 BY <1>1, NamedIs
  <2>3. g # i - 1
    <3>1. SUFFICES ASSUME g = i - 1 PROVE FALSE OBVIOUS
    <3>2. i - 1 \in 1..Len(p) - 1 /\ (i - 1) + 1 = i /\ p[i - 1] \in Sep
      BY <1>1, <2>1, <2>2, <3>1
    <3> QED BY <1>1, <3>2, NamedIs
  <2> QED BY <1>1, <2>1, <2>3
<1>5. \A j \in g + 1 .. i - 1 : p[j] \notin Sep
  <2> TAKE j \in g + 1 .. i - 1
  <2>1. j \notin T BY <1>3, <1>4
  <2>2. j \in 0..i - 1 BY <1>4
  <2> QED BY <2>1, <2>2
<1> DEFINE r == <<g + 1, i - 1>>
<1>6. r \in Tokens(d)
  <2>1. r \in (1..Len(d)) \X (1..Len(d)) /\ r[1] = g + 1 /\ r[2] = i - 1
    BY <1>1, <1>2, <1>4
  <2>2. r[1] <= r[2] BY <1>1, <1>4
  <2>3. \A j \in r[1]..r[2] : d[j] \notin Sep
    <3> TAKE j \in r[1]..r[2]
    <3>1. j \in g + 1 .. i - 1 /\ j \in 1..m BY <1>1, <1>4
    <3> QED BY <1>2, <1>5, <3>1
  <2>4. r[1] = 1 \/ d[r[1] - 1] \in Sep
    <3>1. CASE g = 0 BY <3>1
    <3>2. CASE g # 0
      <4>1. p[g] \in Sep BY <1>3, <3>2
      <4>2. g \in 1..m /\ r[1] - 1 = g BY <1>1, <1>4, <3>2
      <4> QED BY <1>2, <4>1, <4>2
    <3> QED BY <3>1, <3>2
  <2>5. r[2] = Len(d) \/ d[r[2] + 1] \in Sep
    <3>1. CASE i - 1 = m BY <1>2, <3>1
    <3>2. CASE i - 1 # m
      <4>1. i \in 1..m /\ r[2] + 1 = i BY <1>1, <3>2
      <4> QED BY <1>1, <1>2, <4>1
    <3> QED BY <3>1, <3>2
  <2> HIDE DEF r, d
  <2> QED BY <2>1, <2>2, <2>3, <2>4, <2>5 DEF Tokens
<1>7. r[1] = r[2] \/ d[r[1] + 1] # ":"
  <2>1. SUFFICES ASSUME g + 1 # i - 1, d[g + 2] = ":" PROVE FALSE
    <3>1. r[1] = g + 1 /\ r[2] = i - 1 /\ r[1] + 1 = g + 2 BY <1>4
    <3> HIDE DEF r, d
    <3> QED BY <3>1
  <2>2. g + 2 \in 1..m /\ g + 2 \in 1..Len(p) BY <1>1, <1>4, <2>1
  <2>3. g + 2 = 2 /\ p[3] \in Sep /\ p[2] = ":"
    BY <1>2, <2>1, <2>2, NamedIs
  <2>4. ~(3 \in g + 1 .. i - 1) BY <1>5, <2>3
  <2> QED BY <1>1, <1>4, <2>1, <2>3, <2>4
<1>8. Left(d, i - 1) = Left(p, i - 1)
  <2>1. i - 1 \in Int BY <1>1
  <2> QED BY <2>1, LeftOfLeft
<1>9. r[2] = i - 1 OBVIOUS
<1> HIDE DEF r, d
<1>10. Left(d, r[2]) \in TokenDirs(d) BY <1>6, <1>7, Zenon DEF TokenDirs
<1> QED BY <1>8, <1>9, <1>10, Zenon DEF d

(* Every token of the directory ends at a separator of the path. *)
LEMMA TokenEndsAtSep ==
  ASSUME NEW p \in Seq(Chars), Named(p), NEW k, IsLast(k, p, Sep),
         NEW r \in Tokens(Left(p, k - 1)),
         r[1] = r[2] \/ Left(p, k - 1)[r[1] + 1] # ":"
  PROVE  /\ EndsDir(p, r[2] + 1)
         /\ Left(Left(p, k - 1), r[2]) = Left(p, (r[2] + 1) - 1)
<1> DEFINE d == Left(p, k - 1)
<1>1. k \in 0..Len(p) /\ (k # 0 => p[k] \in Sep) BY DEF IsLast
<1>2. /\ d \in Seq(Chars)
      /\ k - 1 >= 0 => Len(d) = k - 1
      /\ k - 1 < 0 => Len(d) = 0
      /\ \A j \in 1..k - 1 : d[j] = p[j]
  <2>1. k - 1 \in Int /\ k - 1 <= Len(p) BY <1>1
  <2> QED BY <2>1, LeftIs
<1> DEFINE a == r[1]
           b == r[2]
<1>3. /\ a \in 1..Len(d) /\ b \in 1..Len(d) /\ a <= b
      /\ a = 1 \/ d[a - 1] \in Sep
      /\ b = Len(d) \/ d[b + 1] \in Sep
      /\ a = b \/ d[a + 1] # ":"
  BY DEF Tokens
<1> HIDE DEF d, a, b
<1>4. k >= 2 /\ Len(d) = k - 1 BY <1>1, <1>2, <1>3
<1>5. b + 1 \in 1..Len(p) /\ p[b + 1] \in Sep
  <2>1. CASE b = Len(d) BY <1>1, <1>4, <2>1
  <2>2. CASE b # Len(d)
    <3>1. b + 1 \in 1..k - 1 BY <1>3, <1>4, <2>2
    <3> QED BY <1>1, <1>2, <1>3, <2>2, <3>1
  <2> QED BY <2>1, <2>2
<1>6. b + 1 # 3 \/ p[2] # ":"
  <2>1. SUFFICES ASSUME b + 1 = 3, p[2] = ":" PROVE FALSE OBVIOUS
  <2>2. b = 2 /\ a \in 1..2 BY <1>3, <1>4, <2>1
  <2>3. d[1] = p[1] /\ d[2] = p[2] BY <1>2, <1>3, <1>4, <2>2
  <2>4. a # 2 BY <1>3, <2>3, NamedIs
  <2> QED BY <1>3, <2>1, <2>2, <2>3, <2>4
<1>7. EndsDir(p, b + 1) BY <1>5, <1>6 DEF EndsDir
<1>8. Left(d, b) = Left(p, b)
  <2>1. k - 1 \in Nat /\ k - 1 <= Len(p) /\ b \in Int /\ b <= k - 1
    BY <1>1, <1>3, <1>4
  <2> QED BY <2>1, LeftOfLeft DEF d
<1>9. (b + 1) - 1 = b BY <1>3, <1>4
<1> QED BY <1>7, <1>8, <1>9 DEF a, b, d

(* makeDirAndUpperDirs is right on every plain path of a file. *)
THEOREM DirsHold ==
  ASSUME NEW p \in Seq(Chars), Plain(p), HasExt(p)
  PROVE  DirsAreRight(p)
<1>1. PICK k : k = ReverseFind(p, Sep) OBVIOUS
<1>2. IsLast(k, p, Sep) BY <1>1, ReverseFindIsLast
<1>3. k \in Nat /\ k < Len(p) /\ NameAt(p) = k + 1 BY <1>2, PlainIs
<1>4. fnsplit(p).ext # <<>> /\ fnsplit(p).dir = Left(p, k - 1)
  <2>1. PICK d : d = ReverseFind(p, {"."}) OBVIOUS
  <2>2. IsLast(d, p, {"."}) BY <2>1, ReverseFindIsLast
  <2>3. Splittable(p) /\ d \in 1..Len(p) - 1 /\ k < d
    BY <1>2, <2>2, DotIsInName
  <2> DEFINE file == After(Left(p, d - 1), k)
             ext == After(p, d)
  <2>4. /\ CutsAt(p, k)
        /\ file \in Seq(Chars) /\ ext \in Seq(Chars) /\ ext # <<>>
        /\ Parts(p, k, file, ext)
        /\ \A i \in 1..Len(file) : file[i] \notin Sep
        /\ \A i \in 1..Len(ext) : ext[i] \notin Sep \cup {"."}
    BY <1>2, <2>2, <2>3, NameHasParts
  <2> HIDE DEF file, ext
  <2>5. fnsplit(p) = [dir |-> Left(p, k - 1), file |-> file, ext |-> ext]
    BY <1>3, <2>4, SplitOfParts
  <2> QED BY <2>4, <2>5
<1>5. Named(p) BY DEF Plain
<1>6. makeDirs(p, FALSE) = TokenDirs(Left(p, k - 1))
  BY <1>4, Zenon DEF makeDirs, TokenDirs
<1>7. makeDirs(p, TRUE) = TokenDirs(p) BY Zenon DEF makeDirs, TokenDirs
<1>8. UpperDirs(p) \subseteq TokenDirs(Left(p, k - 1))
  <2> SUFFICES ASSUME NEW i \in 1..Len(p), EndsDir(p, i)
               PROVE  Left(p, i - 1) \in TokenDirs(Left(p, k - 1))
    BY UpperDirsIs, Zenon
  <2>1. i <= k BY <1>2 DEF EndsDir, IsLast
  <2>2. k - 1 \in Nat /\ k - 1 <= Len(p) /\ i - 1 <= k - 1 BY <1>3, <2>1
  <2> QED BY <1>5, <2>2, SepEndsToken
<1>9. TokenDirs(Left(p, k - 1)) \subseteq UpperDirs(p)
  <2> SUFFICES ASSUME NEW r \in Tokens(Left(p, k - 1)),
                      r[1] = r[2] \/ Left(p, k - 1)[r[1] + 1] # ":"
               PROVE  Left(Left(p, k - 1), r[2]) \in UpperDirs(p)
    BY Zenon DEF TokenDirs
  <2>1. /\ EndsDir(p, r[2] + 1)
        /\ Left(Left(p, k - 1), r[2]) = Left(p, (r[2] + 1) - 1)
    BY <1>2, <1>5, TokenEndsAtSep
  <2>2. r[2] + 1 \in {j \in 1..Len(p) : EndsDir(p, j)}
    BY <2>1 DEF EndsDir
  <2> QED BY <2>1, <2>2, UpperDirsIs, Zenon
<1>10. UpperDirs(p) \subseteq TokenDirs(p)
  <2> SUFFICES ASSUME NEW i \in 1..Len(p), EndsDir(p, i)
               PROVE  Left(p, i - 1) \in TokenDirs(p)
    BY UpperDirsIs, Zenon
  <2>1. Len(p) \in Nat /\ i - 1 <= Len(p) OBVIOUS
  <2>2. Left(p, Len(p)) = p
    <3>1. /\ Left(p, Len(p)) \in Seq(Chars)
          /\ Len(Left(p, Len(p))) = Len(p)
          /\ \A j \in 1..Len(p) : Left(p, Len(p))[j] = p[j]
      BY LeftIs
    <3> QED BY <3>1, SameSeq
  <2>3. Left(p, i - 1) \in TokenDirs(Left(p, Len(p)))
    BY <1>5, <2>1, SepEndsToken
  <2> QED BY <2>2, <2>3
<1> QED BY <1>6, <1>7, <1>8, <1>9, <1>10, Zenon DEF DirsAreRight
=============================================================================
