--------------------------- MODULE CmdLineProofs ---------------------------
(***************************************************************************)
(* Proofs about the command line, for arguments of every number, length    *)
(* and order: what is given is found and read, and has precedence over     *)
(* the file.                                                               *)
(***************************************************************************)
EXTENDS CmdLine, PathsProofs, FiniteSetTheorems

(* Texts of symbols: of any strings.  The provers do not see of a string   *)
(* that it is in STRING, so those that the code names are added.           *)
Symbols ==
  STRING \cup {Space, Quote, "\t", "=", "/host", "/HOST", "/port", "name",
              "/localhost", "/hawk", "localhost", "a", "A", "0", "1"}
Text    == Seq(Symbols)

-----------------------------------------------------------------------------
(* Texts *)

(* What a stretch of a text is. *)
LEMMA StretchIs ==
  ASSUME NEW p \in Text, NEW m \in Nat \ {0}, NEW n \in Nat, n <= Len(p),
         m <= n + 1
  PROVE  /\ SubSeq(p, m, n) \in Text /\ Len(SubSeq(p, m, n)) = n - m + 1
         /\ \A i \in 1..n - m + 1 : SubSeq(p, m, n)[i] = p[m + i - 1]
BY DEF Text

(* What the beginning of a text is. *)
LEMMA BeginningIs ==
  ASSUME NEW p \in Text, NEW n \in Nat, n <= Len(p)
  PROVE  /\ Left(p, n) \in Text /\ Len(Left(p, n)) = n
         /\ \A i \in 1..n : Left(p, n)[i] = p[i]
BY StretchIs DEF Left, Text

(* What the rest of a text is. *)
LEMMA RestIs ==
  ASSUME NEW p \in Text, NEW n \in Nat, n <= Len(p)
  PROVE  /\ After(p, n) \in Text /\ Len(After(p, n)) = Len(p) - n
         /\ \A i \in 1..Len(p) - n : After(p, n)[i] = p[n + i]
<1>1. PICK m : m = n + 1 OBVIOUS
<1>2. PICK l : l = Len(p) OBVIOUS
<1>3. m \in Nat \ {0} /\ l \in Nat /\ l <= Len(p) /\ m <= l + 1
      /\ l - m + 1 = Len(p) - n
  BY <1>1, <1>2 DEF Text
<1>4. /\ SubSeq(p, m, l) \in Text /\ Len(SubSeq(p, m, l)) = l - m + 1
      /\ \A i \in 1..l - m + 1 : SubSeq(p, m, l)[i] = p[m + i - 1]
  BY <1>3, StretchIs
<1>5. SubSeq(p, m, l) = After(p, n) BY <1>1, <1>2 DEF After
<1>6. \A i \in 1..Len(p) - n : m + i - 1 = n + i BY <1>1, <1>2, <1>3
<1> QED BY <1>3, <1>4, <1>5, <1>6

(* What two texts make together. *)
LEMMA TogetherIs ==
  ASSUME NEW p \in Text, NEW q \in Text
  PROVE  /\ p \o q \in Text /\ Len(p \o q) = Len(p) + Len(q)
         /\ \A i \in 1..Len(p) : (p \o q)[i] = p[i]
         /\ \A i \in 1..Len(q) : (p \o q)[Len(p) + i] = q[i]
BY DEF Text

(* Texts with the same symbols are the same. *)
LEMMA SameText ==
  ASSUME NEW p \in Text, NEW q \in Text, Len(p) = Len(q),
         \A i \in 1..Len(p) : p[i] = q[i]
  PROVE  p = q
BY DEF Text

(* Texts can be put together in any order. *)
LEMMA TogetherAssoc ==
  ASSUME NEW p \in Text, NEW q \in Text, NEW r \in Text
  PROVE  (p \o q) \o r = p \o (q \o r)
<1> DEFINE a == (p \o q) \o r
           b == p \o (q \o r)
<1>1. /\ p \o q \in Text /\ Len(p \o q) = Len(p) + Len(q)
      /\ \A i \in 1..Len(p) : (p \o q)[i] = p[i]
      /\ \A i \in 1..Len(q) : (p \o q)[Len(p) + i] = q[i]
  BY TogetherIs
<1>2. /\ q \o r \in Text /\ Len(q \o r) = Len(q) + Len(r)
      /\ \A i \in 1..Len(q) : (q \o r)[i] = q[i]
      /\ \A i \in 1..Len(r) : (q \o r)[Len(q) + i] = r[i]
  BY TogetherIs
<1>3. /\ a \in Text /\ Len(a) = Len(p \o q) + Len(r)
      /\ \A i \in 1..Len(p \o q) : a[i] = (p \o q)[i]
      /\ \A i \in 1..Len(r) : a[Len(p \o q) + i] = r[i]
  BY <1>1, TogetherIs
<1>4. /\ b \in Text /\ Len(b) = Len(p) + Len(q \o r)
      /\ \A i \in 1..Len(p) : b[i] = p[i]
      /\ \A i \in 1..Len(q \o r) : b[Len(p) + i] = (q \o r)[i]
  BY <1>2, TogetherIs
<1>5. Len(p) \in Nat /\ Len(q) \in Nat /\ Len(r) \in Nat BY DEF Text
<1> HIDE DEF a, b
<1>6. ASSUME NEW i \in 1..Len(a) PROVE a[i] = b[i]
  <2>1. CASE i \in 1..Len(p)
    BY <1>1, <1>3, <1>4, <1>5, <2>1
  <2>2. CASE i > Len(p) /\ i <= Len(p) + Len(q)
    <3>1. PICK j \in 1..Len(q) : i = Len(p) + j
      <4>1. i - Len(p) \in 1..Len(q) /\ i = Len(p) + (i - Len(p))
        BY <1>5, <2>2
      <4> QED BY <4>1
    <3>2. a[i] = q[j] BY <1>1, <1>3, <1>5, <3>1
    <3>3. b[i] = q[j]
      <4>1. j \in 1..Len(q \o r) BY <1>2, <1>5, <3>1
      <4>2. b[Len(p) + j] = (q \o r)[j] BY <1>4, <4>1
      <4> QED BY <1>2, <3>1, <4>2
    <3> QED BY <3>2, <3>3
  <2>3. CASE i > Len(p) + Len(q)
    <3>1. PICK j \in 1..Len(r) : i = Len(p) + Len(q) + j
      <4>1. i - Len(p) - Len(q) \in 1..Len(r)
            /\ i = Len(p) + Len(q) + (i - Len(p) - Len(q))
        BY <1>1, <1>3, <1>5, <2>3
      <4> QED BY <4>1
    <3>2. a[i] = r[j] BY <1>1, <1>3, <1>5, <3>1
    <3>3. b[i] = (q \o r)[Len(q) + j]
      <4>1. Len(q) + j \in 1..Len(q \o r) /\ i = Len(p) + (Len(q) + j)
        BY <1>2, <1>5, <3>1
      <4> QED BY <1>4, <4>1
    <3>4. b[i] = r[j] BY <1>2, <3>3
    <3> QED BY <3>2, <3>4
  <2>4. i \in 1..Len(p) \/ (i > Len(p) /\ i <= Len(p) + Len(q))
        \/ i > Len(p) + Len(q)
    BY <1>3, <1>1, <1>5
  <2> QED BY <2>1, <2>2, <2>3, <2>4
<1>7. Len(a) = Len(b) BY <1>1, <1>2, <1>3, <1>4, <1>5
<1>8. a = b BY <1>3, <1>4, <1>6, <1>7, SameText
<1> QED BY <1>8 DEF a, b

(* A text with a space behind it. *)
Spaced(p) == Append(p, Space)

(* It is a text, and the space is its last symbol. *)
LEMMA SpacedIs ==
  ASSUME NEW p \in Text
  PROVE  /\ <<Space>> \in Text /\ Spaced(p) = p \o <<Space>>
         /\ Spaced(p) \in Text /\ Len(Spaced(p)) = Len(p) + 1
         /\ \A i \in 1..Len(p) : Spaced(p)[i] = p[i]
         /\ Spaced(p)[Len(p) + 1] = Space
<1>1. Space \in Symbols BY DEF Symbols
<1> QED BY <1>1 DEF Text, Spaced

-----------------------------------------------------------------------------
(* Looking for a keyword *)

(* K is found in p at k, with the case ignored. *)
MatchAt(K, p, k) ==
  /\ k \in Nat \ {0} /\ k + Len(K) <= Len(p) + 1
  /\ \A j \in 1..Len(K) : Lower(p[k + j - 1]) = K[j]

NoMatch(K, p) == \A k \in Nat : ~MatchAt(K, p, k)

FirstMatch(K, p, k) ==
  MatchAt(K, p, k) /\ \A j \in Nat : j < k => ~MatchAt(K, p, j)

(* The stretches that Find compares are the matches. *)
LEMMA MatchIs ==
  ASSUME NEW K \in Text, K # <<>>, NEW p \in Text, NEW k
  PROVE  MatchAt(K, p, k) <=>
           /\ k \in 1..Len(p) - Len(K) + 1
           /\ LowerCase(SubSeq(p, k, k + Len(K) - 1)) = K
<1>1. Len(K) \in Nat \ {0} /\ Len(p) \in Nat BY DEF Text
<1>2. k \in Nat \ {0} /\ k + Len(K) <= Len(p) + 1
        <=> k \in 1..Len(p) - Len(K) + 1
  BY <1>1
<1>3. ASSUME k \in 1..Len(p) - Len(K) + 1
      PROVE  LowerCase(SubSeq(p, k, k + Len(K) - 1)) = K
               <=> \A j \in 1..Len(K) : Lower(p[k + j - 1]) = K[j]
  <2> DEFINE s == SubSeq(p, k, k + Len(K) - 1)
  <2>1. s \in Text /\ Len(s) = Len(K)
        /\ \A i \in 1..Len(K) : s[i] = p[k + i - 1]
    <3>1. k \in Nat \ {0} /\ k + Len(K) - 1 \in Nat
          /\ k + Len(K) - 1 <= Len(p) /\ k <= k + Len(K) - 1 + 1
          /\ k + Len(K) - 1 - k + 1 = Len(K)
      BY <1>1, <1>3
    <3> QED BY <3>1, StretchIs
  <2> HIDE DEF s
  <2>2. LowerCase(s) = [i \in 1..Len(K) |-> Lower(p[k + i - 1])]
    BY <2>1 DEF LowerCase
  <2>3. K = [i \in 1..Len(K) |-> K[i]] BY <1>1 DEF Text
  <2>4. LowerCase(s) = K <=> \A j \in 1..Len(K) : Lower(p[k + j - 1]) = K[j]
    BY <2>2, <2>3
  <2> QED BY <2>4 DEF s
<1> QED BY <1>2, <1>3 DEF MatchAt

(* Find finds the first match, or nothing if there is none. *)
LEMMA FindIs ==
  ASSUME NEW K \in Text, K # <<>>, NEW p \in Text
  PROVE  /\ NoMatch(K, p) => Find(K, p) = 0
         /\ \A k : FirstMatch(K, p, k) => Find(K, p) = k
<1> DEFINE At == {k \in 1..Len(p) - Len(K) + 1 :
                   LowerCase(SubSeq(p, k, k + Len(K) - 1)) = K}
<1>1. \A k : k \in At <=> MatchAt(K, p, k) BY MatchIs
<1>2. At \subseteq Nat OBVIOUS
<1>3. Find(K, p) = IF At = {} THEN 0
                   ELSE CHOOSE k \in At : \A j \in At : k <= j
  BY DEF Find
<1> HIDE DEF At
<1>4. NoMatch(K, p) => At = {} BY <1>1, <1>2 DEF NoMatch
<1>5. ASSUME NEW k, FirstMatch(K, p, k) PROVE Find(K, p) = k
  <2>0. k \in At BY <1>1, <1>5 DEF FirstMatch
  <2>1. \A j \in At : k <= j
    <3> TAKE j \in At
    <3>1. MatchAt(K, p, j) /\ j \in Nat /\ k \in Nat BY <1>1, <1>2, <2>0
    <3>2. ~(j < k) BY <1>5, <3>1 DEF FirstMatch
    <3> QED BY <3>1, <3>2
  <2>2. \A l \in At : (\A j \in At : l <= j) => l = k
    BY <1>2, <2>0, <2>1
  <2>3. (CHOOSE l \in At : \A j \in At : l <= j) = k BY <2>0, <2>1, <2>2
  <2> QED BY <1>3, <2>0, <2>3
<1> QED BY <1>3, <1>4, <1>5

(* A keyword, with a space behind it at most. *)
AKey(K) == K \in Text /\ K # <<>> /\ \A j \in 1..Len(K) - 1 : K[j] # Space

(* Complete arguments: nothing, or a text that a space ends. *)
Whole(p) == p = <<>> \/ p[Len(p)] = Space

(* What begins in complete arguments ends in them, so that a match in p    *)
(* and q is a match in one of them.                                        *)
LEMMA MatchTogether ==
  ASSUME NEW K, AKey(K), NEW p \in Text, Whole(p), NEW q \in Text, NEW k
  PROVE  MatchAt(K, p \o q, k) <=>
           \/ MatchAt(K, p, k)
           \/ k \in Nat /\ k > Len(p) /\ MatchAt(K, q, k - Len(p))
<1>0. Len(K) \in Nat \ {0} /\ Len(p) \in Nat /\ Len(q) \in Nat
  BY DEF AKey, Text
<1>1. /\ Len(p \o q) = Len(p) + Len(q)
      /\ \A i \in 1..Len(p) : (p \o q)[i] = p[i]
      /\ \A i \in 1..Len(q) : (p \o q)[Len(p) + i] = q[i]
  BY TogetherIs
<1>2. ASSUME MatchAt(K, p, k) PROVE MatchAt(K, p \o q, k)
  <2>1. k \in Nat \ {0} /\ k + Len(K) <= Len(p) + 1 BY <1>2 DEF MatchAt
  <2>2. \A j \in 1..Len(K) : (p \o q)[k + j - 1] = p[k + j - 1]
    <3> TAKE j \in 1..Len(K)
    <3>1. k + j - 1 \in 1..Len(p) BY <1>0, <2>1
    <3> QED BY <1>1, <3>1
  <2>3. k + Len(K) <= Len(p \o q) + 1 BY <1>0, <1>1, <2>1
  <2> QED BY <1>2, <2>1, <2>2, <2>3 DEF MatchAt
<1>3. ASSUME k \in Nat, k > Len(p)
      PROVE  MatchAt(K, p \o q, k) <=> MatchAt(K, q, k - Len(p))
  <2>1. PICK l \in Nat \ {0} : k = Len(p) + l
    <3>1. k - Len(p) \in Nat \ {0} /\ k = Len(p) + (k - Len(p)) BY <1>0, <1>3
    <3> QED BY <3>1
  <2>2. k - Len(p) = l /\ k \in Nat \ {0} BY <1>0, <1>3, <2>1
  <2>3. k + Len(K) <= Len(p \o q) + 1 <=> l + Len(K) <= Len(q) + 1
    BY <1>0, <1>1, <2>1
  <2>4. l + Len(K) <= Len(q) + 1 =>
          \A j \in 1..Len(K) : (p \o q)[k + j - 1] = q[l + j - 1]
    <3> HAVE l + Len(K) <= Len(q) + 1
    <3> TAKE j \in 1..Len(K)
    <3>1. l + j - 1 \in 1..Len(q) /\ k + j - 1 = Len(p) + (l + j - 1)
      BY <1>0, <2>1
    <3> QED BY <1>1, <3>1
  <2>5. MatchAt(K, q, l) <=>
          /\ l + Len(K) <= Len(q) + 1
          /\ \A j \in 1..Len(K) : Lower(q[l + j - 1]) = K[j]
    BY DEF MatchAt
  <2>6. MatchAt(K, p \o q, k) <=>
          /\ l + Len(K) <= Len(q) + 1
          /\ \A j \in 1..Len(K) : Lower((p \o q)[k + j - 1]) = K[j]
    BY <2>2, <2>3 DEF MatchAt
  <2>7. MatchAt(K, p \o q, k) <=> MatchAt(K, q, l)
    BY <2>4, <2>5, <2>6
  <2> QED BY <2>2, <2>7
<1>4. ASSUME MatchAt(K, p \o q, k), ~(k > Len(p)) PROVE MatchAt(K, p, k)
  <2>1. k \in Nat \ {0} /\ k <= Len(p) BY <1>0, <1>4 DEF MatchAt
  <2>2. p[Len(p)] = Space BY <1>0, <2>1 DEF Whole
  <2>3. k + Len(K) <= Len(p) + 1
    <3>1. SUFFICES ASSUME ~(k + Len(K) <= Len(p) + 1) PROVE FALSE OBVIOUS
    <3>2. PICK j : j = Len(p) - k + 1 OBVIOUS
    <3>3. j \in 1..Len(K) - 1 /\ j \in 1..Len(K) /\ k + j - 1 = Len(p)
          /\ Len(p) \in 1..Len(p)
      BY <1>0, <2>1, <3>1, <3>2
    <3>4. Lower((p \o q)[k + j - 1]) = K[j] BY <1>4, <3>3 DEF MatchAt
    <3>5. (p \o q)[Len(p)] = Space BY <1>1, <2>2, <3>3
    <3>6. Lower(Space) = Space BY DEF Lower, Space
    <3>7. K[j] = Space BY <3>3, <3>4, <3>5, <3>6
    <3> QED BY <3>3, <3>7 DEF AKey
  <2>4. \A j \in 1..Len(K) : (p \o q)[k + j - 1] = p[k + j - 1]
    <3> TAKE j \in 1..Len(K)
    <3>1. k + j - 1 \in 1..Len(p) BY <1>0, <2>1, <2>3
    <3> QED BY <1>1, <3>1
  <2> QED BY <1>4, <2>1, <2>3, <2>4 DEF MatchAt
<1>5. MatchAt(K, p \o q, k) => k \in Nat BY DEF MatchAt
<1> QED BY <1>2, <1>3, <1>4, <1>5

(* Of two texts without a match, what they make together has none. *)
LEMMA NoMatchTogether ==
  ASSUME NEW K, AKey(K), NEW p \in Text, Whole(p), NEW q \in Text,
         NoMatch(K, p), NoMatch(K, q)
  PROVE  NoMatch(K, p \o q)
<1> SUFFICES ASSUME NEW k \in Nat, MatchAt(K, p \o q, k) PROVE FALSE
  BY DEF NoMatch
<1>1. \/ MatchAt(K, p, k)
      \/ k > Len(p) /\ MatchAt(K, q, k - Len(p))
  BY MatchTogether
<1>2. k > Len(p) => k - Len(p) \in Nat BY DEF Text
<1> QED BY <1>1, <1>2 DEF NoMatch

(* The first match is that of the argument behind those without one. *)
LEMMA FirstTogether ==
  ASSUME NEW K, AKey(K), NEW p \in Text, Whole(p), NEW q \in Text,
         NoMatch(K, p), MatchAt(K, q, 1)
  PROVE  FirstMatch(K, p \o q, Len(p) + 1)
<1>0. Len(p) \in Nat BY DEF Text
<1>1. PICK k : k = Len(p) + 1 OBVIOUS
<1>2. k \in Nat /\ k > Len(p) /\ k - Len(p) = 1 BY <1>0, <1>1
<1>3. MatchAt(K, p \o q, k) BY <1>2, MatchTogether
<1>4. ASSUME NEW j \in Nat, j < k PROVE ~MatchAt(K, p \o q, j)
  <2>1. ~(j > Len(p)) BY <1>0, <1>1, <1>4
  <2>2. ~MatchAt(K, p, j) BY DEF NoMatch
  <2> QED BY <2>1, <2>2, MatchTogether
<1> QED BY <1>1, <1>3, <1>4 DEF FirstMatch

(* A text that begins with the keyword, in whatever case, has a match.     *)
LEMMA MatchAtFront ==
  ASSUME NEW K, AKey(K), NEW w \in Text, Len(w) = Len(K),
         \A j \in 1..Len(K) : Lower(w[j]) = K[j], NEW q \in Text
  PROVE  MatchAt(K, w \o q, 1)
<1>1. Len(K) \in Nat \ {0} /\ Len(w) \in Nat /\ Len(q) \in Nat
  BY DEF AKey, Text
<1>2. /\ Len(w \o q) = Len(w) + Len(q)
      /\ \A i \in 1..Len(w) : (w \o q)[i] = w[i]
  BY TogetherIs
<1>3. 1 + Len(K) <= Len(w \o q) + 1 BY <1>1, <1>2
<1>4. \A j \in 1..Len(K) : Lower((w \o q)[1 + j - 1]) = K[j]
  <2> TAKE j \in 1..Len(K)
  <2>1. 1 + j - 1 = j /\ j \in 1..Len(w) BY <1>1
  <2> QED BY <1>2, <2>1
<1> QED BY <1>3, <1>4 DEF MatchAt

(* A keyword without a space is in a text just when it is in the text with *)
(* a space behind.                                                         *)
LEMMA SpaceNoMatch ==
  ASSUME NEW K, AKey(K), K[Len(K)] # Space, NEW p \in Text
  PROVE  NoMatch(K, p) <=> NoMatch(K, Spaced(p))
<1>0. Len(K) \in Nat \ {0} /\ Len(p) \in Nat BY DEF AKey, Text
<1>1. /\ Len(Spaced(p)) = Len(p) + 1
      /\ \A i \in 1..Len(p) : Spaced(p)[i] = p[i]
      /\ Spaced(p)[Len(p) + 1] = Space
  BY SpacedIs
<1>2. ASSUME NEW k \in Nat PROVE MatchAt(K, p, k) <=> MatchAt(K, Spaced(p), k)
  <2>1. k + Len(K) <= Len(p) + 1 /\ k # 0 =>
          \A j \in 1..Len(K) : Spaced(p)[k + j - 1] = p[k + j - 1]
    <3> HAVE k + Len(K) <= Len(p) + 1 /\ k # 0
    <3> TAKE j \in 1..Len(K)
    <3>1. k + j - 1 \in 1..Len(p) BY <1>0
    <3> QED BY <1>1, <3>1
  <2>2. ASSUME MatchAt(K, Spaced(p), k) PROVE k + Len(K) <= Len(p) + 1
    <3>1. SUFFICES ASSUME ~(k + Len(K) <= Len(p) + 1) PROVE FALSE OBVIOUS
    <3>2. k + Len(K) - 1 = Len(p) + 1 /\ Len(K) \in 1..Len(K)
      BY <1>0, <1>1, <2>2, <3>1 DEF MatchAt
    <3>3. Lower(Space) = K[Len(K)] BY <1>1, <2>2, <3>2 DEF MatchAt
    <3>4. Lower(Space) = Space BY DEF Lower, Space
    <3> QED BY <3>3, <3>4
  <2>3. k + Len(K) <= Len(p) + 1 => k + Len(K) <= Len(Spaced(p)) + 1
    BY <1>0, <1>1
  <2> QED BY <2>1, <2>2, <2>3 DEF MatchAt
<1> QED BY <1>2 DEF NoMatch

-----------------------------------------------------------------------------
(* Counting the quotes *)

Count(p, S) == Cardinality(Positions(p, S))

(* What two texts have together of S is what each has of it. *)
LEMMA CountTogether ==
  ASSUME NEW S, NEW p \in Text, NEW q \in Text
  PROVE  /\ Count(p, S) \in Nat /\ Count(q, S) \in Nat
         /\ Count(p \o q, S) = Count(p, S) + Count(q, S)
<1> DEFINE P == Positions(p, S)
           Q == Positions(q, S)
           R == {Len(p) + i : i \in Q}
<1>0. Len(p) \in Nat /\ Len(q) \in Nat BY DEF Text
<1>1. IsFiniteSet(P) /\ Cardinality(P) \in Nat
  <2>1. P \in SUBSET (1..Len(p)) BY DEF Positions
  <2>2. IsFiniteSet(1..Len(p)) BY <1>0, FS_Interval
  <2>3. IsFiniteSet(P) BY <2>1, <2>2, FS_Subset
  <2> QED BY <2>3, FS_CardinalityType
<1>2. IsFiniteSet(Q) /\ Cardinality(Q) \in Nat
  <2>1. Q \in SUBSET (1..Len(q)) BY DEF Positions
  <2>2. IsFiniteSet(1..Len(q)) BY <1>0, FS_Interval
  <2>3. IsFiniteSet(Q) BY <2>1, <2>2, FS_Subset
  <2> QED BY <2>3, FS_CardinalityType
<1>3. IsFiniteSet(R) /\ Cardinality(R) = Cardinality(Q)
  <2> DEFINE f == [i \in Q |-> Len(p) + i]
  <2>1. Q \subseteq Nat BY DEF Positions
  <2> HIDE DEF Q
  <2>2. f \in Bijection(Q, R)
    BY <1>0, <2>1 DEF Bijection, Injection, Surjection, IsInjective
  <2>3. ExistsBijection(Q, R) BY <2>2 DEF ExistsBijection
  <2> HIDE DEF R
  <2> QED BY <1>2, <2>3, FS_Bijection DEF Q
<1>4. Positions(p \o q, S) = P \cup R
  <2>1. /\ Len(p \o q) = Len(p) + Len(q)
        /\ \A i \in 1..Len(p) : (p \o q)[i] = p[i]
        /\ \A i \in 1..Len(q) : (p \o q)[Len(p) + i] = q[i]
    BY TogetherIs
  <2>2. ASSUME NEW i \in Positions(p \o q, S) PROVE i \in P \cup R
    <3>1. i \in 1..Len(p) + Len(q) /\ (p \o q)[i] \in S
      BY <2>1 DEF Positions
    <3>2. CASE i <= Len(p) BY <1>0, <2>1, <3>1, <3>2 DEF Positions
    <3>3. CASE ~(i <= Len(p))
      <4>1. PICK j \in 1..Len(q) : i = Len(p) + j
        <5>1. i - Len(p) \in 1..Len(q) /\ i = Len(p) + (i - Len(p))
          BY <1>0, <3>1, <3>3
        <5> QED BY <5>1
      <4>2. j \in Q BY <2>1, <3>1, <4>1 DEF Positions
      <4> QED BY <4>1, <4>2
    <3> QED BY <3>2, <3>3
  <2>3. ASSUME NEW i \in P PROVE i \in Positions(p \o q, S)
    BY <1>0, <2>1 DEF Positions
  <2>4. ASSUME NEW i \in R PROVE i \in Positions(p \o q, S)
    <3>1. PICK j \in Q : i = Len(p) + j OBVIOUS
    <3>2. j \in 1..Len(q) /\ q[j] \in S BY DEF Positions
    <3>3. i \in 1..Len(p \o q) BY <1>0, <2>1, <3>1, <3>2
    <3>4. (p \o q)[i] \in S BY <2>1, <3>1, <3>2
    <3> QED BY <3>3, <3>4 DEF Positions
  <2> HIDE DEF P, R
  <2> QED BY <2>2, <2>3, <2>4
<1>5. P \cap R = {}
  <2>1. \A i \in P : i <= Len(p) BY <1>0 DEF Positions
  <2>2. \A i \in R : i > Len(p) BY <1>0 DEF Positions
  <2>3. \A i \in P : i \in Int BY DEF Positions
  <2> HIDE DEF P, R
  <2> QED BY <1>0, <2>1, <2>2, <2>3
<1> HIDE DEF P, Q, R
<1>6. Cardinality(P \cup R)
        = Cardinality(P) + Cardinality(R) - Cardinality(P \cap R)
  BY <1>1, <1>3, FS_Union
<1>7. Cardinality(P \cap R) = 0 BY <1>5, FS_EmptySet
<1>8. Count(p, S) = Cardinality(P) /\ Count(q, S) = Cardinality(Q)
      /\ Count(p \o q, S) = Cardinality(P \cup R)
  BY <1>4 DEF Count, P, Q
<1> QED BY <1>1, <1>2, <1>3, <1>6, <1>7, <1>8

(* As many quotes as close each other. *)
Even(p) == Count(p, {Quote}) % 2 = 0

(* Texts of closed quotes make such a text together. *)
LEMMA EvenTogether ==
  ASSUME NEW p \in Text, NEW q \in Text, Even(p), Even(q)
  PROVE  Even(p \o q)
<1>1. /\ Count(p, {Quote}) \in Nat /\ Count(q, {Quote}) \in Nat
      /\ Count(p \o q, {Quote}) = Count(p, {Quote}) + Count(q, {Quote})
  BY CountTogether
<1>2. \A m, n \in Nat : m % 2 = 0 /\ n % 2 = 0 => (m + n) % 2 = 0 OBVIOUS
<1> QED BY <1>1, <1>2 DEF Even

(* One quote more or two. *)
LEMMA QuotesBehind ==
  ASSUME NEW p \in Text, NEW q \in Text, Even(p)
  PROVE  /\ Positions(q, {Quote}) = {} => Even(p \o q)
         /\ \A i : Positions(q, {Quote}) = {i} => ~Even(p \o q)
         /\ \A i, j : i # j /\ Positions(q, {Quote}) = {i, j} => Even(p \o q)
<1>1. /\ Count(p, {Quote}) \in Nat /\ Count(q, {Quote}) \in Nat
      /\ Count(p \o q, {Quote}) = Count(p, {Quote}) + Count(q, {Quote})
  BY CountTogether
<1>2. \A m \in Nat : m % 2 = 0 =>
        (m + 0) % 2 = 0 /\ (m + 1) % 2 # 0 /\ (m + 2) % 2 = 0
  OBVIOUS
<1>3. Positions(q, {Quote}) = {} => Count(q, {Quote}) = 0
  BY FS_EmptySet DEF Count
<1>4. \A i : Positions(q, {Quote}) = {i} => Count(q, {Quote}) = 1
  BY FS_Singleton DEF Count
<1>5. ASSUME NEW i, NEW j, i # j, Positions(q, {Quote}) = {i, j}
      PROVE  Count(q, {Quote}) = 2
  <2>1. IsFiniteSet({i}) /\ Cardinality({i}) = 1 /\ j \notin {i}
    BY <1>5, FS_Singleton
  <2>2. Cardinality({i} \cup {j}) = 2 BY <2>1, FS_AddElement
  <2>3. {i} \cup {j} = {i, j} OBVIOUS
  <2> QED BY <1>5, <2>2, <2>3 DEF Count
<1>6. Positions(q, {Quote}) = {} => Even(p \o q) BY <1>1, <1>2, <1>3 DEF Even
<1>7. \A i : Positions(q, {Quote}) = {i} => ~Even(p \o q)
  BY <1>1, <1>2, <1>4 DEF Even
<1>8. \A i, j : i # j /\ Positions(q, {Quote}) = {i, j} => Even(p \o q)
  BY <1>1, <1>2, <1>5 DEF Even
<1> QED BY <1>6, <1>7, <1>8

-----------------------------------------------------------------------------
(* Trimming *)

(* TrimLeft cuts what is of S at the front, and no more. *)
LEMMA TrimLeftIs ==
  ASSUME NEW p \in Text, NEW S, NEW n \in Nat, n <= Len(p),
         \A i \in 1..n : p[i] \in S, n = Len(p) \/ p[n + 1] \notin S
  PROVE  TrimLeft(p, S) = After(p, n)
<1> DEFINE stays == {i \in 1..Len(p) : p[i] \notin S}
<1>0. Len(p) \in Nat BY DEF Text
<1>1. TrimLeft(p, S) =
        IF stays = {} THEN <<>>
        ELSE After(p, (CHOOSE i \in stays : \A k \in stays : i <= k) - 1)
  BY Zenon DEF TrimLeft
<1>2. CASE n = Len(p)
  <2>1. stays = {} BY <1>2
  <2>2. After(p, n) \in Text /\ Len(After(p, n)) = 0 BY <1>0, <1>2, RestIs
  <2>3. After(p, n) = <<>> BY <2>2 DEF Text
  <2> QED BY <1>1, <2>1, <2>3
<1>3. CASE n # Len(p)
  <2>1. n + 1 \in stays /\ \A k \in stays : n + 1 <= k BY <1>0, <1>3
  <2>2. \A i \in stays : (\A k \in stays : i <= k) => i = n + 1 BY <2>1
  <2>3. stays # {} BY <2>1
  <2> HIDE DEF stays
  <2>4. (CHOOSE i \in stays : \A k \in stays : i <= k) = n + 1 BY <2>1, <2>2
  <2>5. (n + 1) - 1 = n OBVIOUS
  <2> QED BY <1>1, <2>3, <2>4, <2>5
<1> QED BY <1>2, <1>3

(* There is a place where it cuts. *)
LEMMA TrimLeftHas ==
  ASSUME NEW p \in Text, NEW S
  PROVE  \E n \in Nat : /\ n <= Len(p) /\ \A i \in 1..n : p[i] \in S
                        /\ n = Len(p) \/ p[n + 1] \notin S
<1> DEFINE stays == {i \in 1..Len(p) : p[i] \notin S}
<1>0. Len(p) \in Nat BY DEF Text
<1>1. CASE stays = {} BY <1>0, <1>1
<1>2. CASE stays # {}
  <2>1. PICK k \in stays : \A i \in stays : k <= i
    <3>1. stays \in SUBSET Nat OBVIOUS
    <3> HIDE DEF stays
    <3> QED BY <1>2, <3>1, LeastNat
  <2>2. PICK n \in Nat : k = n + 1
    <3>1. k - 1 \in Nat /\ k = (k - 1) + 1 OBVIOUS
    <3> QED BY <3>1
  <2>3. n <= Len(p) /\ p[n + 1] \notin S BY <1>0, <2>2
  <2>4. \A i \in 1..n : p[i] \in S BY <1>0, <2>1, <2>2
  <2> QED BY <2>3, <2>4
<1> QED BY <1>1, <1>2

(* TrimRight cuts what is of S at the end, and no more. *)
LEMMA TrimRightIs ==
  ASSUME NEW p \in Text, NEW S, NEW n \in Nat, n <= Len(p),
         \A i \in n + 1 .. Len(p) : p[i] \in S, n = 0 \/ p[n] \notin S
  PROVE  TrimRight(p, S) = Left(p, n)
<1> DEFINE Cut(q) == /\ q = <<>> \/ q[Len(q)] \notin S
                     /\ \A i \in Len(q) + 1 .. Len(p) : p[i] \in S
           All == {Left(p, m) : m \in 0..Len(p)}
<1>0. Len(p) \in Nat BY DEF Text
<1>1. \A m \in 0..Len(p) : /\ Left(p, m) \in Text /\ Len(Left(p, m)) = m
                           /\ \A i \in 1..m : Left(p, m)[i] = p[i]
  BY <1>0, BeginningIs
<1>2. Left(p, n) \in All /\ Cut(Left(p, n))
  <2>1. n \in 0..Len(p) BY <1>0
  <2>2. n = 0 => Left(p, n) = <<>> BY <1>1, <2>1 DEF Text
  <2>3. n # 0 => Left(p, n)[n] = p[n] BY <1>1, <2>1
  <2> QED BY <1>1, <2>1, <2>2, <2>3
<1>3. ASSUME NEW q \in All, Cut(q) PROVE q = Left(p, n)
  <2>1. PICK m \in 0..Len(p) : q = Left(p, m) OBVIOUS
  <2>2. Len(q) = m /\ (m # 0 => q[m] = p[m] /\ q # <<>>) BY <1>1, <2>1
  <2>3. (m = 0 \/ p[m] \notin S) /\ \A i \in m + 1 .. Len(p) : p[i] \in S
    BY <1>3, <2>2
  <2>4. ~(m < n)
    <3>1. m < n => n \in m + 1 .. Len(p) /\ n # 0 BY <1>0
    <3> QED BY <2>3, <3>1
  <2>5. ~(n < m)
    <3>1. n < m => m \in n + 1 .. Len(p) /\ m # 0 BY <1>0
    <3> QED BY <2>3, <3>1
  <2>6. m = n BY <2>4, <2>5
  <2> QED BY <2>1, <2>6
<1>4. TrimRight(p, S) = CHOOSE q \in All : Cut(q) BY DEF TrimRight
<1> HIDE DEF All, Cut
<1> QED BY <1>2, <1>3, <1>4

(* What neither begins nor ends in S is not trimmed. *)
LEMMA NotTrimmed ==
  ASSUME NEW p \in Text, NEW S
  PROVE  /\ p = <<>> \/ p[1] \notin S => TrimLeft(p, S) = p
         /\ p = <<>> \/ p[Len(p)] \notin S => TrimRight(p, S) = p
<1>0. Len(p) \in Nat /\ (Len(p) = 0 <=> p = <<>>) BY DEF Text
<1>1. After(p, 0) = p
  <2>1. /\ After(p, 0) \in Text /\ Len(After(p, 0)) = Len(p) - 0
        /\ \A i \in 1..Len(p) - 0 : After(p, 0)[i] = p[0 + i]
    BY <1>0, RestIs
  <2>2. Len(p) - 0 = Len(p) /\ \A i \in 1..Len(p) : 0 + i = i BY <1>0
  <2> QED BY <2>1, <2>2, SameText
<1>2. Left(p, Len(p)) = p
  <2>1. /\ Left(p, Len(p)) \in Text /\ Len(Left(p, Len(p))) = Len(p)
        /\ \A i \in 1..Len(p) : Left(p, Len(p))[i] = p[i]
    BY <1>0, BeginningIs
  <2> QED BY <2>1, SameText
<1>3. ASSUME p = <<>> \/ p[1] \notin S PROVE TrimLeft(p, S) = p
  <2>1. /\ 0 \in Nat /\ 0 <= Len(p) /\ \A i \in 1..0 : p[i] \in S
        /\ 0 = Len(p) \/ p[0 + 1] \notin S
    BY <1>0, <1>3
  <2>2. TrimLeft(p, S) = After(p, 0) BY <2>1, TrimLeftIs
  <2> QED BY <1>1, <2>2
<1>4. ASSUME p = <<>> \/ p[Len(p)] \notin S PROVE TrimRight(p, S) = p
  <2>1. /\ \A i \in Len(p) + 1 .. Len(p) : p[i] \in S
        /\ Len(p) = 0 \/ p[Len(p)] \notin S
    BY <1>0, <1>4
  <2>2. TrimRight(p, S) = Left(p, Len(p)) BY <1>0, <2>1, TrimRightIs
  <2> QED BY <1>2, <2>2
<1> QED BY <1>3, <1>4

(* What is left of a text is of the text, and does not begin with what is  *)
(* trimmed; it is shorter if the text did.                                 *)
LEMMA TrimLeftGives ==
  ASSUME NEW p \in Text, NEW S
  PROVE  /\ TrimLeft(p, S) \in Text
         /\ Len(TrimLeft(p, S)) <= Len(p)
         /\ p # <<>> /\ p[1] \in S => Len(TrimLeft(p, S)) < Len(p)
         /\ TrimLeft(p, S) = <<>> \/ TrimLeft(p, S)[1] \notin S
         /\ \A i \in 1..Len(TrimLeft(p, S)) :
              \E j \in 1..Len(p) : TrimLeft(p, S)[i] = p[j]
<1>0. Len(p) \in Nat BY DEF Text
<1>1. PICK n \in Nat : /\ n <= Len(p) /\ \A i \in 1..n : p[i] \in S
                       /\ n = Len(p) \/ p[n + 1] \notin S
  BY TrimLeftHas
<1>2. PICK r : r = After(p, n) OBVIOUS
<1>3. TrimLeft(p, S) = r BY <1>1, <1>2, TrimLeftIs
<1>4. /\ r \in Text /\ Len(r) = Len(p) - n
      /\ \A i \in 1..Len(p) - n : r[i] = p[n + i]
  BY <1>1, <1>2, RestIs
<1>5. r = <<>> \/ r[1] \notin S
  <2>1. CASE n = Len(p) BY <1>0, <1>4, <2>1 DEF Text
  <2>2. CASE n # Len(p)
    <3>1. 1 \in 1..Len(p) - n BY <1>0, <1>1, <2>2
    <3> QED BY <1>1, <1>4, <2>2, <3>1
  <2> QED BY <2>1, <2>2
<1>6. ASSUME NEW i \in 1..Len(r) PROVE \E j \in 1..Len(p) : r[i] = p[j]
  <2>1. n + i \in 1..Len(p) BY <1>0, <1>1, <1>4
  <2>2. r[i] = p[n + i] BY <1>4
  <2> QED BY <2>1, <2>2
<1>7. Len(r) <= Len(p) /\ (p # <<>> /\ p[1] \in S => Len(r) < Len(p))
  <2>1. p # <<>> => Len(p) # 0 BY DEF Text
  <2>2. p # <<>> /\ p[1] \in S => n # 0 BY <1>0, <1>1, <2>1
  <2> QED BY <1>0, <1>1, <1>4, <2>2
<1> QED BY <1>3, <1>4, <1>5, <1>6, <1>7

(* What is left of a text at its end is not longer, and does not end with  *)
(* what is trimmed.                                                        *)
LEMMA TrimRightGives ==
  ASSUME NEW p \in Text, NEW S
  PROVE  /\ TrimRight(p, S) \in Text
         /\ Len(TrimRight(p, S)) <= Len(p)
         /\ \/ TrimRight(p, S) = <<>>
            \/ TrimRight(p, S)[Len(TrimRight(p, S))] \notin S
<1> DEFINE stays == {i \in 1..Len(p) : p[i] \notin S}
<1>0. Len(p) \in Nat BY DEF Text
<1>1. PICK n \in Nat : /\ n <= Len(p) /\ \A i \in n + 1 .. Len(p) : p[i] \in S
                       /\ n = 0 \/ p[n] \notin S
  <2>1. CASE stays = {}
    <3>1. \A i \in 0 + 1 .. Len(p) : p[i] \in S BY <1>0, <2>1
    <3>2. 0 \in Nat /\ 0 <= Len(p) BY <1>0
    <3> QED BY <3>1, <3>2
  <2>2. CASE stays # {}
    <3>1. stays \in SUBSET Nat /\ \A i \in stays : i <= Len(p) OBVIOUS
    <3>2. PICK n \in stays : \A i \in stays : i <= n
      <4> HIDE DEF stays
      <4> QED BY <1>0, <2>2, <3>1, GreatestNat
    <3>3. n \in Nat /\ n <= Len(p) /\ p[n] \notin S BY <1>0
    <3>4. \A i \in n + 1 .. Len(p) : p[i] \in S BY <1>0, <3>2
    <3> QED BY <3>3, <3>4
  <2> QED BY <2>1, <2>2
<1>2. PICK r : r = Left(p, n) OBVIOUS
<1>3. TrimRight(p, S) = r BY <1>1, <1>2, TrimRightIs
<1>4. r \in Text /\ Len(r) = n /\ \A i \in 1..n : r[i] = p[i]
  BY <1>1, <1>2, BeginningIs
<1>5. r = <<>> \/ r[Len(r)] \notin S
  <2>1. n = 0 => r = <<>> BY <1>4 DEF Text
  <2>2. n # 0 => n \in 1..n BY <1>1
  <2> QED BY <1>1, <1>4, <2>1, <2>2
<1> QED BY <1>1, <1>3, <1>4, <1>5

(* The same of what is trimmed on both sides. *)
LEMMA TrimGives ==
  ASSUME NEW p \in Text, NEW S
  PROVE  /\ Trim(p, S) \in Text
         /\ Len(Trim(p, S)) <= Len(p)
         /\ p # <<>> /\ p[1] \in S => Len(Trim(p, S)) < Len(p)
         /\ Trim(p, S) = <<>> \/ Trim(p, S)[Len(Trim(p, S))] \notin S
<1>1. PICK q : q = TrimLeft(p, S) OBVIOUS
<1>2. /\ q \in Text /\ Len(q) <= Len(p)
      /\ p # <<>> /\ p[1] \in S => Len(q) < Len(p)
  BY <1>1, TrimLeftGives
<1>3. PICK r : r = TrimRight(q, S) OBVIOUS
<1>4. /\ r \in Text /\ Len(r) <= Len(q)
      /\ r = <<>> \/ r[Len(r)] \notin S
  BY <1>2, <1>3, TrimRightGives
<1>5. Trim(p, S) = r BY <1>1, <1>3 DEF Trim
<1>6. Len(p) \in Nat /\ Len(q) \in Nat /\ Len(r) \in Nat
  BY <1>2, <1>4 DEF Text
<1>7. /\ Len(r) <= Len(p)
      /\ p # <<>> /\ p[1] \in S => Len(r) < Len(p)
  BY <1>2, <1>4, <1>6
<1> QED BY <1>4, <1>5, <1>7

(* What strArgGiven makes of what stands behind the keyword. *)
Cleaned(a) ==
  Trim(Trim(TrimLeft(Trim(a, {Quote}), {Space, "="}), {Quote}), {Space})

(* What has nothing of S in it is not trimmed. *)
LEMMA NothingTrimmed ==
  ASSUME NEW p \in Text, NEW S, \A i \in 1..Len(p) : p[i] \notin S
  PROVE  TrimLeft(p, S) = p /\ TrimRight(p, S) = p /\ Trim(p, S) = p
<1>1. p = <<>> \/ (1 \in 1..Len(p) /\ Len(p) \in 1..Len(p)) BY DEF Text
<1>2. TrimLeft(p, S) = p /\ TrimRight(p, S) = p BY <1>1, NotTrimmed
<1> QED BY <1>2 DEF Trim

(* Cleaning does not make a text longer, and one that begins with a quote  *)
(* gets shorter.                                                           *)
LEMMA CleanedIsShorter ==
  ASSUME NEW a \in Text
  PROVE  a # <<>> /\ a[1] = Quote => Len(Cleaned(a)) < Len(a)
<1>1. PICK b : b = Trim(a, {Quote}) OBVIOUS
<1>2. /\ b \in Text
      /\ a # <<>> /\ a[1] = Quote => Len(b) < Len(a)
  <2>1. PICK S : S = {Quote} OBVIOUS
  <2>2. /\ Trim(a, S) \in Text
        /\ a # <<>> /\ a[1] \in S => Len(Trim(a, S)) < Len(a)
    BY TrimGives
  <2> QED BY <1>1, <2>1, <2>2
<1>3. PICK c : c = TrimLeft(b, {Space, "="}) OBVIOUS
<1>4. c \in Text /\ Len(c) <= Len(b) BY <1>2, <1>3, TrimLeftGives
<1>5. PICK d : d = Trim(c, {Quote}) OBVIOUS
<1>6. d \in Text /\ Len(d) <= Len(c) BY <1>4, <1>5, TrimGives
<1>7. PICK e : e = Trim(d, {Space}) OBVIOUS
<1>8. e \in Text /\ Len(e) <= Len(d) BY <1>6, <1>7, TrimGives
<1>9. /\ Len(a) \in Nat /\ Len(b) \in Nat /\ Len(c) \in Nat
      /\ Len(d) \in Nat /\ Len(e) \in Nat
  BY <1>2, <1>4, <1>6, <1>8 DEF Text
<1>10. Cleaned(a) = e BY <1>1, <1>3, <1>5, <1>7 DEF Cleaned
<1>11. a # <<>> /\ a[1] = Quote => Len(e) < Len(a)
  BY <1>2, <1>4, <1>6, <1>8, <1>9
<1> QED BY <1>10, <1>11

(* Without quotes it is only the beginning and the spaces that are lost.   *)
LEMMA CleanedIs ==
  ASSUME NEW v \in Text, Positions(v, {Quote}) = {}, NEW r,
         r = TrimLeft(v, {Space, "="})
  PROVE  /\ r \in Text
         /\ \A i \in 1..Len(r) : \E j \in 1..Len(v) : r[i] = v[j]
         /\ Trim(Trim(r, {Quote}), {Space}) = Trim(r, {Space})
<1>1. /\ r \in Text
      /\ \A i \in 1..Len(r) : \E j \in 1..Len(v) : r[i] = v[j]
  <2>1. PICK S : S = {Space, "="} OBVIOUS
  <2>2. /\ TrimLeft(v, S) \in Text
        /\ \A i \in 1..Len(TrimLeft(v, S)) :
             \E j \in 1..Len(v) : TrimLeft(v, S)[i] = v[j]
    BY TrimLeftGives
  <2>3. TrimLeft(v, S) = r BY <2>1
  <2> QED BY <2>2, <2>3, Zenon
<1>2. \A i \in 1..Len(v) : v[i] # Quote BY DEF Positions
<1>3. \A i \in 1..Len(r) : r[i] \notin {Quote}
  <2> TAKE i \in 1..Len(r)
  <2>1. PICK j \in 1..Len(v) : r[i] = v[j] BY <1>1
  <2> QED BY <1>2, <2>1
<1>4. Trim(r, {Quote}) = r BY <1>1, <1>3, NothingTrimmed
<1> QED BY <1>1, <1>4, Zenon

(* It is all there just when the value survives.                           *)
LEMMA CleanedIsAll ==
  ASSUME NEW v \in Text, Positions(v, {"\t"}) = {}, NEW r,
         r = TrimLeft(v, {Space, "="})
  PROVE  Trim(r, {Space}) = v <=> Survives(v)
<1>0. Len(v) \in Nat /\ (Len(v) = 0 <=> v = <<>>) BY DEF Text
<1>1. r \in Text /\ Len(r) <= Len(v)
      /\ (v # <<>> /\ v[1] \in {Space, "="} => Len(r) < Len(v))
  BY TrimLeftGives
<1>2. PICK t : t = Trim(r, {Space}) OBVIOUS
<1>3. /\ t \in Text /\ Len(t) <= Len(r)
      /\ t = <<>> \/ t[Len(t)] \notin {Space}
  BY <1>1, <1>2, TrimGives
<1>4. ASSUME t = v PROVE Survives(v)
  <2>1. Len(r) \in Nat /\ Len(t) \in Nat BY <1>1, <1>3 DEF Text
  <2>2. v # <<>> => v[1] \notin {Space, "="} BY <1>0, <1>1, <1>3, <1>4, <2>1
  <2>3. v # <<>> => v[Len(v)] # Space BY <1>3, <1>4
  <2> QED BY <2>2, <2>3 DEF Survives
<1>5. ASSUME Survives(v) PROVE t = v
  <2>1. v = <<>> \/ v[1] \notin {Space, "="} BY <1>5 DEF Survives
  <2>2. v = <<>> \/ (v[1] \notin {Space} /\ v[Len(v)] \notin {Space})
    BY <1>5 DEF Survives
  <2>3. r = v BY <2>1, NotTrimmed
  <2>4. TrimLeft(v, {Space}) = v /\ TrimRight(v, {Space}) = v
    BY <2>2, NotTrimmed
  <2> QED BY <1>2, <2>3, <2>4 DEF Trim
<1> QED BY <1>2, <1>4, <1>5

(* A value without white space and quotes stays as it is, just when it     *)
(* survives.                                                               *)
LEMMA CleanedBare ==
  ASSUME NEW v \in Text, Positions(v, White \cup {Quote}) = {}
  PROVE  Cleaned(v) = v <=> Survives(v)
<1>1. \A i \in 1..Len(v) : v[i] \notin White \cup {Quote} BY DEF Positions
<1>2. Positions(v, {Quote}) = {} /\ Positions(v, {"\t"}) = {}
  BY <1>1 DEF Positions, White
<1>3. Trim(v, {Quote}) = v
  <2>1. \A i \in 1..Len(v) : v[i] \notin {Quote} BY <1>1
  <2> QED BY <2>1, NothingTrimmed
<1>4. PICK r : r = TrimLeft(v, {Space, "="}) OBVIOUS
<1>5. Trim(Trim(r, {Quote}), {Space}) = Trim(r, {Space})
  BY <1>2, <1>4, CleanedIs
<1>6. Cleaned(v) = Trim(r, {Space}) BY <1>3, <1>4, <1>5 DEF Cleaned
<1>7. Trim(r, {Space}) = v <=> Survives(v) BY <1>2, <1>4, CleanedIsAll
<1> QED BY <1>6, <1>7

InQuotes(v) == <<Quote>> \o v \o <<Quote>>

(* What a text in quotes is. *)
LEMMA InQuotesIs ==
  ASSUME NEW v \in Text
  PROVE  /\ <<Quote>> \in Text /\ <<Space>> \in Text
         /\ InQuotes(v) \in Text /\ Len(InQuotes(v)) = Len(v) + 2
         /\ InQuotes(v)[1] = Quote /\ InQuotes(v)[Len(v) + 2] = Quote
         /\ \A i \in 1..Len(v) : InQuotes(v)[i + 1] = v[i]
<1>0. Len(v) \in Nat BY DEF Text
<1>1. /\ <<Quote>> \in Text /\ Len(<<Quote>>) = 1 /\ <<Quote>>[1] = Quote
      /\ <<Space>> \in Text
  BY DEF Text, Symbols
<1>2. PICK o : o = <<Quote>> OBVIOUS
<1>3. o \in Text /\ Len(o) = 1 /\ o[1] = Quote BY <1>1, <1>2
<1>4. PICK w : w = o \o v OBVIOUS
<1>5. /\ w \in Text /\ Len(w) = 1 + Len(v) /\ w[1] = Quote
      /\ \A i \in 1..Len(v) : w[1 + i] = v[i]
  <2>1. /\ w \in Text /\ Len(w) = Len(o) + Len(v)
        /\ \A i \in 1..Len(o) : w[i] = o[i]
        /\ \A i \in 1..Len(v) : w[Len(o) + i] = v[i]
    BY <1>3, <1>4, TogetherIs
  <2> QED BY <1>3, <2>1
<1>6. PICK x : x = w \o o OBVIOUS
<1>7. /\ x \in Text /\ Len(x) = Len(w) + Len(o)
      /\ \A i \in 1..Len(w) : x[i] = w[i]
      /\ \A i \in 1..Len(o) : x[Len(w) + i] = o[i]
  BY <1>3, <1>5, <1>6, TogetherIs
<1>8. Len(x) = Len(v) + 2 BY <1>0, <1>3, <1>5, <1>7
<1>9. x[1] = Quote BY <1>0, <1>5, <1>7
<1>10. x[Len(v) + 2] = Quote
  <2>1. Len(w) + 1 = Len(v) + 2 /\ 1 \in 1..Len(o) BY <1>0, <1>3, <1>5
  <2>2. x[Len(w) + 1] = o[1] BY <1>7, <2>1
  <2> QED BY <1>3, <2>1, <2>2
<1>11. \A i \in 1..Len(v) : x[i + 1] = v[i]
  <2> TAKE i \in 1..Len(v)
  <2>1. i + 1 \in 1..Len(w) /\ i + 1 = 1 + i BY <1>0, <1>5
  <2> QED BY <1>5, <1>7, <2>1
<1>12. x = InQuotes(v) BY <1>2, <1>4, <1>6 DEF InQuotes
<1> QED BY <1>1, <1>7, <1>8, <1>9, <1>10, <1>11, <1>12

(* A value in quotes without tabs and quotes loses its quotes only, just   *)
(* when it survives.                                                       *)
LEMMA CleanedQuoted ==
  ASSUME NEW v \in Text, Positions(v, {"\t", Quote}) = {}
  PROVE  Cleaned(InQuotes(v)) = v <=> Survives(v)
<1>0. Len(v) \in Nat BY DEF Text
<1>1. \A i \in 1..Len(v) : v[i] # Quote /\ v[i] # "\t" BY DEF Positions
<1>2. PICK x : x = InQuotes(v) OBVIOUS
<1>3. /\ x \in Text /\ Len(x) = Len(v) + 2
      /\ x[1] = Quote /\ x[Len(v) + 2] = Quote
      /\ \A i \in 1..Len(v) : x[i + 1] = v[i]
  BY <1>2, InQuotesIs
<1>4. Trim(x, {Quote}) = v
  <2>1. CASE v = <<>>
    <3>1. Len(x) = 2 /\ \A i \in 1..2 : x[i] \in {Quote} BY <1>3, <2>1
    <3>2. TrimLeft(x, {Quote}) = After(x, 2) BY <1>3, <3>1, TrimLeftIs
    <3>3. After(x, 2) \in Text /\ Len(After(x, 2)) = 0
      <4>1. PICK n \in Nat : n = 2 OBVIOUS
      <4>2. After(x, n) \in Text /\ Len(After(x, n)) = Len(x) - n
        BY <1>3, <3>1, <4>1, RestIs
      <4> QED BY <3>1, <4>1, <4>2
    <3>4. TrimLeft(x, {Quote}) = v BY <2>1, <3>2, <3>3 DEF Text
    <3>5. TrimRight(v, {Quote}) = v BY <2>1, NotTrimmed
    <3> QED BY <3>4, <3>5 DEF Trim
  <2>2. CASE v # <<>>
    <3>0. Len(v) # 0 BY <2>2 DEF Text
    <3>1. PICK y : y = After(x, 1) OBVIOUS
    <3>2. /\ y \in Text /\ Len(y) = Len(x) - 1
          /\ \A i \in 1..Len(x) - 1 : y[i] = x[1 + i]
      <4>1. PICK n \in Nat : n = 1 OBVIOUS
      <4>2. n <= Len(x) /\ y = After(x, n) BY <1>0, <1>3, <3>1, <4>1
      <4>3. /\ y \in Text /\ Len(y) = Len(x) - n
            /\ \A i \in 1..Len(x) - n : y[i] = x[n + i]
        BY <1>3, <4>2, RestIs
      <4> QED BY <4>1, <4>3
    <3>3. TrimLeft(x, {Quote}) = y
      <4>1. 1 <= Len(x) /\ \A i \in 1..1 : x[i] \in {Quote} BY <1>0, <1>3
      <4>2. x[1 + 1] \notin {Quote} BY <1>0, <1>1, <1>3, <3>0
      <4> QED BY <3>1, <4>1, <4>2, <1>3, TrimLeftIs
    <3>4. Len(y) = Len(v) + 1 /\ y[Len(v) + 1] = Quote
      BY <1>0, <1>3, <3>2
    <3>5. \A i \in 1..Len(v) : y[i] = v[i]
      <4> TAKE i \in 1..Len(v)
      <4>1. i \in 1..Len(x) - 1 /\ 1 + i = i + 1 BY <1>0, <1>3
      <4> QED BY <1>3, <3>2, <4>1
    <3>6. TrimRight(y, {Quote}) = Left(y, Len(v))
      <4>1. \A i \in Len(v) + 1 .. Len(y) : y[i] \in {Quote}
        BY <1>0, <3>4
      <4>2. Len(v) <= Len(y) /\ y[Len(v)] \notin {Quote}
        BY <1>0, <1>1, <3>0, <3>4, <3>5
      <4> QED BY <1>0, <3>2, <4>1, <4>2, TrimRightIs
    <3>7. /\ Left(y, Len(v)) \in Text /\ Len(Left(y, Len(v))) = Len(v)
          /\ \A i \in 1..Len(v) : Left(y, Len(v))[i] = y[i]
      BY <1>0, <3>2, <3>4, BeginningIs
    <3>8. Left(y, Len(v)) = v BY <3>5, <3>7, SameText
    <3> QED BY <3>3, <3>6, <3>8 DEF Trim
  <2> QED BY <2>1, <2>2
<1>5. Positions(v, {Quote}) = {} /\ Positions(v, {"\t"}) = {}
  BY <1>1 DEF Positions
<1>6. PICK r : r = TrimLeft(v, {Space, "="}) OBVIOUS
<1>7. Trim(Trim(r, {Quote}), {Space}) = Trim(r, {Space})
  BY <1>5, <1>6, CleanedIs
<1>8. Cleaned(x) = Trim(r, {Space}) BY <1>4, <1>6, <1>7 DEF Cleaned
<1>9. Trim(r, {Space}) = v <=> Survives(v) BY <1>5, <1>6, CleanedIsAll
<1> QED BY <1>2, <1>8, <1>9

-----------------------------------------------------------------------------
(* The text behind a keyword *)

(* What a keyword, what is behind it, and the rest make together. *)
LEMMA ThreeTogether ==
  ASSUME NEW w \in Text, NEW a \in Text, NEW r \in Text
  PROVE  /\ (w \o a) \o r \in Text /\ (w \o a) \o r = w \o (a \o r)
         /\ Len((w \o a) \o r) = Len(w) + Len(a) + Len(r)
         /\ \A i \in 1..Len(w) : ((w \o a) \o r)[i] = w[i]
         /\ \A i \in 1..Len(a) : ((w \o a) \o r)[Len(w) + i] = a[i]
         /\ \A i \in 1..Len(r) : ((w \o a) \o r)[Len(w) + Len(a) + i] = r[i]
<1>0. Len(w) \in Nat /\ Len(a) \in Nat /\ Len(r) \in Nat BY DEF Text
<1>1. PICK b : b = w \o a OBVIOUS
<1>2. /\ b \in Text /\ Len(b) = Len(w) + Len(a)
      /\ \A i \in 1..Len(w) : b[i] = w[i]
      /\ \A i \in 1..Len(a) : b[Len(w) + i] = a[i]
  BY <1>1, TogetherIs
<1>3. PICK q : q = b \o r OBVIOUS
<1>4. /\ q \in Text /\ Len(q) = Len(b) + Len(r)
      /\ \A i \in 1..Len(b) : q[i] = b[i]
      /\ \A i \in 1..Len(r) : q[Len(b) + i] = r[i]
  BY <1>2, <1>3, TogetherIs, ZenonT(60)
<1>5. q = w \o (a \o r) BY <1>1, <1>3, TogetherAssoc
<1>6. \A i \in 1..Len(w) : q[i] = w[i]
  <2> TAKE i \in 1..Len(w)
  <2>1. i \in 1..Len(b) BY <1>0, <1>2
  <2> QED BY <1>2, <1>4, <2>1
<1>7. \A i \in 1..Len(a) : q[Len(w) + i] = a[i]
  <2> TAKE i \in 1..Len(a)
  <2>1. Len(w) + i \in 1..Len(b) BY <1>0, <1>2
  <2> QED BY <1>2, <1>4, <2>1
<1>8. Len(q) = Len(w) + Len(a) + Len(r) BY <1>0, <1>2, <1>4
<1>9. \A i \in 1..Len(r) : q[Len(w) + Len(a) + i] = r[i] BY <1>2, <1>4
<1> QED BY <1>1, <1>3, <1>4, <1>5, <1>6, <1>7, <1>8, <1>9

(* The beginning of two texts together. *)
LEMMA BeginningTogether ==
  ASSUME NEW p \in Text, NEW q \in Text, NEW n \in Nat, n <= Len(q)
  PROVE  Left(p \o q, Len(p) + n) = p \o Left(q, n)
<1>0. Len(p) \in Nat /\ Len(q) \in Nat BY DEF Text
<1>1. PICK x : x = p \o q OBVIOUS
<1>2. /\ x \in Text /\ Len(x) = Len(p) + Len(q)
      /\ \A i \in 1..Len(p) : x[i] = p[i]
      /\ \A i \in 1..Len(q) : x[Len(p) + i] = q[i]
  BY <1>1, TogetherIs
<1>3. PICK m \in Nat : m = Len(p) + n BY <1>0
<1>4. PICK a : a = Left(x, m) OBVIOUS
<1>5. m <= Len(x) BY <1>0, <1>2, <1>3
<1>6. a \in Text /\ Len(a) = m /\ \A i \in 1..m : a[i] = x[i]
  BY <1>2, <1>4, <1>5, BeginningIs
<1>7. PICK c : c = Left(q, n) OBVIOUS
<1>8. c \in Text /\ Len(c) = n /\ \A i \in 1..n : c[i] = q[i]
  BY <1>7, BeginningIs
<1>9. PICK b : b = p \o c OBVIOUS
<1>10. /\ b \in Text /\ Len(b) = Len(p) + Len(c)
       /\ \A i \in 1..Len(p) : b[i] = p[i]
       /\ \A i \in 1..Len(c) : b[Len(p) + i] = c[i]
  BY <1>8, <1>9, TogetherIs
<1>11. ASSUME NEW i \in 1..Len(a) PROVE a[i] = b[i]
  <2>0. i \in 1..m BY <1>6
  <2>1. CASE i <= Len(p)
    <3>1. i \in 1..Len(p) BY <1>0, <2>0, <2>1
    <3> QED BY <1>2, <1>6, <1>10, <2>0, <3>1
  <2>2. CASE ~(i <= Len(p))
    <3>1. PICK j \in 1..n : i = Len(p) + j
      <4>1. i - Len(p) \in 1..n /\ i = Len(p) + (i - Len(p))
        BY <1>0, <1>3, <2>0, <2>2
      <4> QED BY <4>1
    <3>2. j \in 1..Len(q) /\ j \in 1..Len(c) BY <1>0, <1>8
    <3>3. a[i] = q[j] BY <1>2, <1>6, <2>0, <3>1, <3>2
    <3>4. b[i] = c[j] BY <1>10, <3>1, <3>2
    <3> QED BY <1>8, <3>3, <3>4
  <2> QED BY <2>1, <2>2
<1>12. Len(a) = Len(b) BY <1>3, <1>6, <1>8, <1>10
<1>13. a = b BY <1>6, <1>10, <1>11, <1>12, SameText
<1> QED BY <1>1, <1>3, <1>4, <1>7, <1>9, <1>13

(* What ends an argument behind complete ones. *)
LEMMA EndsIs ==
  ASSUME NEW p \in Text, NEW q \in Text, NEW n \in 1..Len(q)
  PROVE  Ends(p \o q, Len(p) + n) <=>
           \/ q[n] \in White \ {Space}
           \/ q[n] = Space /\ Even(p \o Left(q, n))
<1>0. Len(p) \in Nat /\ Len(q) \in Nat BY DEF Text
<1>1. n \in Nat /\ n <= Len(q) BY <1>0
<1>2. (p \o q)[Len(p) + n] = q[n] BY TogetherIs
<1>3. Left(p \o q, Len(p) + n) = p \o Left(q, n)
  BY <1>1, BeginningTogether
<1> QED BY <1>2, <1>3 DEF Ends, Even, Count

(* HostKey, in capitals or not. *)
IsHostKey(w) ==
  /\ w \in Text /\ Len(w) = 2 /\ w[1] \in {"/host", "/HOST"} /\ w[2] = "="

(* HostKey is a keyword of two symbols, and HOST for host is one too. *)
LEMMA HostKeyIs ==
  /\ AKey(HostKey) /\ HostKey[Len(HostKey)] # Space /\ Len(HostKey) = 2
  /\ HostKey[1] = "/host" /\ HostKey[2] = "="
  /\ IsHostKey(HostKey) /\ IsHostKey(<<"/HOST", "=">>)
<1>1. HostKey \in Text /\ <<"/HOST", "=">> \in Text
  BY DEF Text, Symbols, HostKey
<1>2. /\ HostKey # <<>> /\ Len(HostKey) = 2
      /\ HostKey[1] = "/host" /\ HostKey[2] = "="
  BY DEF HostKey
<1>3. Len(HostKey) - 1 = 1 BY <1>2
<1>4. "/host" # Space /\ "=" # Space BY DEF Space
<1>5. AKey(HostKey)
  <2>1. \A j \in 1..1 : j = 1 OBVIOUS
  <2> QED BY <1>1, <1>2, <1>3, <1>4, <2>1 DEF AKey
<1>6. IsHostKey(HostKey) BY <1>1, <1>2 DEF IsHostKey
<1>7. IsHostKey(<<"/HOST", "=">>) BY <1>1 DEF IsHostKey
<1> QED BY <1>2, <1>4, <1>5, <1>6, <1>7

(* strArgGiven takes what is between the keyword and what ends it. *)
LEMMA TextIsTaken ==
  ASSUME NEW pre \in Text, Whole(pre), NoMatch(HostKey, pre),
         NEW w, IsHostKey(w), NEW a \in Text, NEW post \in Text,
         \A j \in 1..Len(a) :
           ~Ends(pre \o ((w \o a) \o post), Len(pre) + (2 + j)),
         post # <<>> =>
           Ends(pre \o ((w \o a) \o post), Len(pre) + (2 + Len(a) + 1))
  PROVE  strArgGiven(HostKey, pre \o ((w \o a) \o post))
           = [given |-> TRUE, text |-> Cleaned(a)]
<1>0. /\ Len(pre) \in Nat /\ Len(a) \in Nat /\ Len(post) \in Nat
      /\ (Len(post) = 0 <=> post = <<>>)
  BY DEF Text
<1>1. w \in Text /\ Len(w) = 2 /\ w[1] \in {"/host", "/HOST"} /\ w[2] = "="
  BY DEF IsHostKey
<1>2. PICK q : q = (w \o a) \o post OBVIOUS
<1>3. /\ q \in Text /\ q = w \o (a \o post)
      /\ Len(q) = 2 + Len(a) + Len(post)
      /\ \A i \in 1..Len(a) : q[2 + i] = a[i]
  <2>1. /\ q \in Text /\ q = w \o (a \o post)
        /\ Len(q) = Len(w) + Len(a) + Len(post)
        /\ \A i \in 1..Len(a) : q[Len(w) + i] = a[i]
    <3>1. w \in Text BY <1>1
    <3>2. /\ (w \o a) \o post \in Text
          /\ (w \o a) \o post = w \o (a \o post)
          /\ Len((w \o a) \o post) = Len(w) + Len(a) + Len(post)
          /\ \A i \in 1..Len(a) : ((w \o a) \o post)[Len(w) + i] = a[i]
      BY <3>1, ThreeTogether, ZenonT(60)
    <3> QED BY <1>2, <3>2, Zenon
  <2> QED BY <1>1, <2>1
<1>4. PICK cmd : cmd = pre \o q OBVIOUS
<1>5. /\ cmd \in Text /\ Len(cmd) = Len(pre) + Len(q)
      /\ \A i \in 1..Len(q) : cmd[Len(pre) + i] = q[i]
  BY <1>3, <1>4, TogetherIs, ZenonT(60)
<1>6. Find(HostKey, cmd) = Len(pre) + 1
  <2>1. \A j \in 1..2 : Lower(w[j]) = HostKey[j]
    <3>1. Lower(w[1]) = "/host" /\ Lower(w[2]) = "=" BY <1>1 DEF Lower
    <3>2. \A j \in 1..2 : j = 1 \/ j = 2 OBVIOUS
    <3> QED BY <3>1, <3>2, HostKeyIs
  <2>2. PICK r : r = a \o post OBVIOUS
  <2>3. r \in Text BY <2>2, TogetherIs
  <2>4. MatchAt(HostKey, w \o r, 1)
    BY <1>1, <2>1, <2>3, HostKeyIs, MatchAtFront
  <2>5. MatchAt(HostKey, q, 1) BY <1>3, <2>2, <2>4
  <2>6. FirstMatch(HostKey, cmd, Len(pre) + 1)
    BY <1>3, <1>4, <2>5, HostKeyIs, FirstTogether
  <2>7. HostKey \in Text /\ HostKey # <<>> BY HostKeyIs DEF AKey
  <2> QED BY <1>5, <2>6, <2>7, FindIs
<1> DEFINE from == Find(HostKey, cmd) + Len(HostKey)
           ends == {i \in from..Len(cmd) : Ends(cmd, i)}
           last == IF ends = {} THEN Len(cmd)
                   ELSE (CHOOSE i \in ends : \A j \in ends : i <= j) - 1
<1>7. from = Len(pre) + 3 BY <1>0, <1>6, HostKeyIs
<1>8. PICK e : e = Len(pre) + (2 + Len(a) + 1) OBVIOUS
<1>9. ASSUME NEW i \in ends PROVE e <= i
  <2>1. i \in Len(pre) + 3 .. Len(cmd) /\ Ends(cmd, i) BY <1>7
  <2>2. SUFFICES ASSUME ~(e <= i) PROVE FALSE OBVIOUS
  <2>3. PICK j \in 1..Len(a) : i = Len(pre) + (2 + j)
    <3>1. i - Len(pre) - 2 \in 1..Len(a)
          /\ i = Len(pre) + (2 + (i - Len(pre) - 2))
      BY <1>0, <1>8, <2>1, <2>2
    <3> QED BY <3>1
  <2> QED BY <1>2, <1>4, <2>1, <2>3
<1>10. last = Len(pre) + (2 + Len(a))
  <2>1. CASE post = <<>>
    <3>1. ends = {}
      <4>1. Len(cmd) < e BY <1>0, <1>3, <1>5, <1>8, <2>1
      <4>2. \A i \in ends : i <= Len(cmd) /\ i \in Int /\ Len(cmd) \in Int
            /\ e \in Int
        BY <1>0, <1>3, <1>5, <1>8
      <4> HIDE DEF ends
      <4> QED BY <1>9, <4>1, <4>2
    <3> QED BY <1>0, <1>3, <1>5, <2>1, <3>1
  <2>2. CASE post # <<>>
    <3>1. e \in ends
      <4>1. e \in Len(pre) + 3 .. Len(cmd)
        BY <1>0, <1>3, <1>5, <1>8, <2>2
      <4>2. Ends(cmd, e) BY <1>2, <1>4, <1>8, <2>2
      <4> QED BY <1>7, <4>1, <4>2
    <3>2. \A i \in ends : (\A j \in ends : i <= j) => i = e
      <4> TAKE i \in ends
      <4> HAVE \A j \in ends : i <= j
      <4>1. i <= e /\ e <= i BY <1>9, <3>1
      <4>2. i \in Int /\ e \in Int BY <1>0, <1>7, <1>8
      <4> QED BY <4>1, <4>2
    <3>3. ends # {} BY <3>1
    <3> HIDE DEF ends
    <3>4. (CHOOSE i \in ends : \A j \in ends : i <= j) = e
      BY <1>9, <3>1, <3>2
    <3>5. e - 1 = Len(pre) + (2 + Len(a)) BY <1>0, <1>8
    <3> QED BY <3>3, <3>4, <3>5
  <2> QED BY <2>1, <2>2
<1>11. SubSeq(cmd, from, last) = a
  <2> HIDE DEF from, last
  <2>1. PICK m : m = from OBVIOUS
  <2>2. PICK n : n = last OBVIOUS
  <2>3. m = Len(pre) + 3 /\ n = Len(pre) + (2 + Len(a))
    BY <1>7, <1>10, <2>1, <2>2
  <2>4. m \in Nat \ {0} /\ n \in Nat /\ n <= Len(cmd) /\ m <= n + 1
        /\ n - m + 1 = Len(a)
    BY <1>0, <1>3, <1>5, <2>3
  <2>5. PICK s : s = SubSeq(cmd, m, n) OBVIOUS
  <2>6. /\ s \in Text /\ Len(s) = n - m + 1
        /\ \A i \in 1..n - m + 1 : s[i] = cmd[m + i - 1]
    BY <1>5, <2>4, <2>5, StretchIs
  <2>7. \A i \in 1..Len(a) : s[i] = a[i]
    <3> TAKE i \in 1..Len(a)
    <3>1. m + i - 1 = Len(pre) + (2 + i) /\ 2 + i \in 1..Len(q)
      BY <1>0, <1>3, <2>3
    <3>2. cmd[m + i - 1] = q[2 + i] BY <1>5, <3>1
    <3> QED BY <1>3, <2>4, <2>6, <3>2
  <2>8. s = a BY <2>4, <2>6, <2>7, SameText
  <2> QED BY <2>1, <2>2, <2>5, <2>8
<1>12. Find(HostKey, cmd) # 0 BY <1>0, <1>6
<1>13. strArgGiven(HostKey, cmd)
         = LET text == TrimLeft(Trim(SubSeq(cmd, from, last), {Quote}),
                                {Space, "="})
           IN IF Find(HostKey, cmd) = 0
              THEN [given |-> FALSE, text |-> <<>>]
              ELSE [given |-> TRUE,
                    text |-> Trim(Trim(text, {Quote}), {Space})]
  BY Zenon DEF strArgGiven
<1> HIDE DEF from, last
<1>14. strArgGiven(HostKey, cmd) = [given |-> TRUE, text |-> Cleaned(a)]
  BY <1>11, <1>12, <1>13, Zenon DEF Cleaned
<1> QED BY <1>2, <1>4, <1>14

(* Where the quotes of an argument are.                                    *)
LEMMA QuotesAre ==
  ASSUME NEW q \in Text, NEW n \in Nat, n <= Len(q)
  PROVE  Positions(Left(q, n), {Quote}) = {i \in 1..n : q[i] = Quote}
<1>1. /\ Left(q, n) \in Text /\ Len(Left(q, n)) = n
      /\ \A i \in 1..n : Left(q, n)[i] = q[i]
  BY BeginningIs
<1> QED BY <1>1 DEF Positions

(* The host that is read of a line. *)
HostIs(line, v) == strArgGiven(HostKey, line) = [given |-> TRUE, text |-> v]

(* A host without white space and quotes is taken as it is and cleaned.    *)
LEMMA BareHostIsRead ==
  ASSUME NEW pre \in Text, Whole(pre), Even(pre), NoMatch(HostKey, pre),
         NEW w, IsHostKey(w),
         NEW v \in Text, Positions(v, White \cup {Quote}) = {},
         NEW post \in Text, post = <<>> \/ post[1] = Space
  PROVE  HostIs(pre \o ((w \o v) \o post), Cleaned(v))
<1>0. Len(v) \in Nat /\ Len(post) \in Nat /\ (Len(post) = 0 <=> post = <<>>)
  BY DEF Text
<1>1. w \in Text /\ Len(w) = 2 /\ w[1] \in {"/host", "/HOST"} /\ w[2] = "="
  BY DEF IsHostKey
<1>2. PICK q : q = (w \o v) \o post OBVIOUS
<1>3. /\ q \in Text /\ Len(q) = Len(w) + Len(v) + Len(post)
      /\ \A i \in 1..Len(w) : q[i] = w[i]
      /\ \A i \in 1..Len(v) : q[Len(w) + i] = v[i]
      /\ \A i \in 1..Len(post) : q[Len(w) + Len(v) + i] = post[i]
  <2>1. w \in Text BY <1>1
  <2>2. /\ (w \o v) \o post \in Text
        /\ Len((w \o v) \o post) = Len(w) + Len(v) + Len(post)
        /\ \A i \in 1..Len(w) : ((w \o v) \o post)[i] = w[i]
        /\ \A i \in 1..Len(v) : ((w \o v) \o post)[Len(w) + i] = v[i]
        /\ \A i \in 1..Len(post) :
             ((w \o v) \o post)[Len(w) + Len(v) + i] = post[i]
    BY <2>1, ThreeTogether, ZenonT(60)
  <2> QED BY <1>2, <2>2, Zenon
<1>4. /\ Len(q) = 2 + Len(v) + Len(post)
      /\ q[1] \in {"/host", "/HOST"} /\ q[2] = "="
      /\ \A i \in 1..Len(v) : q[2 + i] = v[i]
      /\ post # <<>> => q[2 + Len(v) + 1] = Space
  BY <1>0, <1>1, <1>3
<1>5. \A i \in 1..Len(v) : v[i] \notin White /\ v[i] # Quote
  BY DEF Positions
<1>6. ASSUME NEW j \in 1..Len(v) PROVE ~Ends(pre \o q, Len(pre) + (2 + j))
  <2>1. PICK n : n = 2 + j OBVIOUS
  <2>2. n \in 1..Len(q) BY <1>0, <1>4, <2>1
  <2>3. q[n] \notin White BY <1>4, <1>5, <2>1
  <2>4. Space \in White BY DEF White
  <2> QED BY <1>3, <2>1, <2>2, <2>3, <2>4, EndsIs
<1>7. ASSUME post # <<>>
      PROVE  Ends(pre \o q, Len(pre) + (2 + Len(v) + 1))
  <2>1. PICK n : n = 2 + Len(v) + 1 OBVIOUS
  <2>2. n \in 1..Len(q) /\ n \in Nat /\ n <= Len(q)
    BY <1>0, <1>4, <1>7, <2>1
  <2>3. Positions(Left(q, n), {Quote}) = {i \in 1..n : q[i] = Quote}
    BY <1>3, <2>2, QuotesAre
  <2>4. ASSUME NEW i \in 1..n PROVE q[i] # Quote
    <3>1. i = 1 \/ i = 2 \/ i = n \/ i - 2 \in 1..Len(v)
      BY <1>0, <2>1
    <3>2. "/host" # Quote /\ "/HOST" # Quote /\ "=" # Quote /\ Space # Quote
      BY DEF Quote, Space
    <3>3. CASE i = 1 \/ i = 2 BY <1>4, <3>2, <3>3
    <3>4. CASE i = n BY <1>4, <1>7, <2>1, <3>2, <3>4
    <3>5. CASE i - 2 \in 1..Len(v)
      <4>1. i = 2 + (i - 2) OBVIOUS
      <4> QED BY <1>4, <1>5, <3>5, <4>1
    <3> QED BY <3>1, <3>3, <3>4, <3>5
  <2>5. Positions(Left(q, n), {Quote}) = {} BY <2>3, <2>4
  <2>6. Left(q, n) \in Text BY <1>3, <2>2, BeginningIs
  <2>7. Even(pre \o Left(q, n)) BY <2>5, <2>6, QuotesBehind
  <2>8. q[n] = Space BY <1>4, <1>7, <2>1
  <2> QED BY <1>3, <2>1, <2>2, <2>7, <2>8, EndsIs
<1>8. strArgGiven(HostKey, pre \o q) = [given |-> TRUE, text |-> Cleaned(v)]
  BY <1>2, <1>6, <1>7, TextIsTaken
<1> QED BY <1>2, <1>8 DEF HostIs

(* A host in quotes is taken with the spaces in it and cleaned.            *)
LEMMA QuotedHostIsRead ==
  ASSUME NEW pre \in Text, Whole(pre), Even(pre), NoMatch(HostKey, pre),
         NEW w, IsHostKey(w),
         NEW v \in Text, Positions(v, {"\t", Quote}) = {},
         NEW post \in Text, post = <<>> \/ post[1] = Space
  PROVE  HostIs(pre \o ((w \o InQuotes(v)) \o post), Cleaned(InQuotes(v)))
<1>0. Len(v) \in Nat /\ Len(post) \in Nat /\ (Len(post) = 0 <=> post = <<>>)
  BY DEF Text
<1>1. w \in Text /\ Len(w) = 2 /\ w[1] \in {"/host", "/HOST"} /\ w[2] = "="
  BY DEF IsHostKey
<1>a. PICK a \in Text : a = InQuotes(v) BY InQuotesIs
<1>b. /\ a \in Text /\ Len(a) = Len(v) + 2
      /\ a[1] = Quote /\ a[Len(v) + 2] = Quote
      /\ \A i \in 1..Len(v) : a[i + 1] = v[i]
  BY <1>a, InQuotesIs
<1>2. PICK q : q = (w \o a) \o post OBVIOUS
<1>3. /\ q \in Text /\ Len(q) = Len(w) + Len(a) + Len(post)
      /\ \A i \in 1..Len(w) : q[i] = w[i]
      /\ \A i \in 1..Len(a) : q[Len(w) + i] = a[i]
      /\ \A i \in 1..Len(post) : q[Len(w) + Len(a) + i] = post[i]
  <2>1. w \in Text /\ a \in Text /\ post \in Text BY <1>1
  <2>2. (w \o a) \o post \in Text BY <2>1, ThreeTogether
  <2>3. Len((w \o a) \o post) = Len(w) + Len(a) + Len(post)
    BY <2>1, ThreeTogether
  <2>4. \A i \in 1..Len(w) : ((w \o a) \o post)[i] = w[i]
    BY <2>1, ThreeTogether
  <2>5. \A i \in 1..Len(a) : ((w \o a) \o post)[Len(w) + i] = a[i]
    BY <2>1, ThreeTogether
  <2>6. \A i \in 1..Len(post) :
          ((w \o a) \o post)[Len(w) + Len(a) + i] = post[i]
    BY <2>1, ThreeTogether
  <2> QED BY <1>2, <2>2, <2>3, <2>4, <2>5, <2>6, Zenon
<1>4. /\ Len(q) = 4 + Len(v) + Len(post)
      /\ q[1] \in {"/host", "/HOST"} /\ q[2] = "="
      /\ q[3] = Quote /\ q[Len(v) + 4] = Quote
      /\ post # <<>> => q[Len(v) + 5] = Space
  <2>1. 1 \in 1..Len(a) /\ Len(v) + 2 \in 1..Len(a) BY <1>0, <1>b
  <2>2. Len(w) + 1 = 3 /\ Len(w) + (Len(v) + 2) = Len(v) + 4
    BY <1>0, <1>1
  <2>3. q[3] = a[1] /\ q[Len(v) + 4] = a[Len(v) + 2] BY <1>3, <2>1, <2>2
  <2>4. Len(w) + Len(a) + 1 = Len(v) + 5 BY <1>0, <1>1, <1>b
  <2>5. post # <<>> => q[Len(v) + 5] = post[1]
    <3>1. post # <<>> => 1 \in 1..Len(post) BY <1>0
    <3> QED BY <1>3, <2>4, <3>1
  <2>6. 1 \in 1..Len(w) /\ 2 \in 1..Len(w) BY <1>1
  <2>7. q[1] = w[1] /\ q[2] = w[2] BY <1>3, <2>6
  <2>8. Len(q) = 4 + Len(v) + Len(post) BY <1>0, <1>1, <1>3, <1>b
  <2> QED BY <1>1, <1>b, <2>3, <2>5, <2>7, <2>8
<1>5. ASSUME NEW i \in 1..Len(v)
      PROVE  q[i + 3] = v[i] /\ v[i] # "\t" /\ v[i] # Quote
  <2>1. i + 1 \in 1..Len(a) /\ Len(w) + (i + 1) = i + 3 BY <1>0, <1>1, <1>b
  <2>2. q[i + 3] = a[i + 1] BY <1>3, <2>1
  <2> QED BY <1>b, <2>2 DEF Positions
<1>6. "/host" # Quote /\ "/HOST" # Quote /\ "=" # Quote /\ Space # Quote
  BY DEF Quote, Space
<1>7. ASSUME NEW i \in 1..Len(v) + 5, post # <<>> \/ i # Len(v) + 5
      PROVE  q[i] = Quote <=> i = 3 \/ i = Len(v) + 4
  <2>1. \/ i \in {1, 2, 3} \/ i \in {Len(v) + 4, Len(v) + 5}
        \/ i - 3 \in 1..Len(v)
    BY <1>0
  <2>2. CASE i \in {1, 2, 3} BY <1>0, <1>4, <1>6, <2>2
  <2>3. CASE i \in {Len(v) + 4, Len(v) + 5}
    <3>1. Len(v) + 5 # 3 /\ Len(v) + 5 # Len(v) + 4 BY <1>0
    <3> QED BY <1>4, <1>6, <1>7, <2>3, <3>1
  <2>4. CASE i - 3 \in 1..Len(v)
    <3>1. i = (i - 3) + 3 /\ i # 3 /\ i # Len(v) + 4 BY <1>0, <2>4
    <3> QED BY <1>5, <2>4, <3>1
  <2> QED BY <2>1, <2>2, <2>3, <2>4
<1>8. ASSUME NEW j \in 1..Len(a) PROVE ~Ends(pre \o q, Len(pre) + (2 + j))
  <2>1. PICK n : n = 2 + j OBVIOUS
  <2>2. /\ n \in 1..Len(q) /\ n \in Nat /\ n <= Len(q)
        /\ n >= 3 /\ n <= Len(v) + 4
    BY <1>0, <1>b, <1>4, <2>1
  <2>3. CASE n = 3 \/ n = Len(v) + 4
    <3>1. q[n] = Quote BY <1>4, <2>3
    <3>2. Quote \notin White \ {Space} BY DEF White, Quote, Space
    <3> QED BY <1>3, <1>6, <2>1, <2>2, <3>1, <3>2, EndsIs
  <2>4. CASE ~(n = 3 \/ n = Len(v) + 4)
    <3>1. n - 3 \in 1..Len(v) /\ n = (n - 3) + 3 BY <1>0, <2>2, <2>4
    <3>2. q[n] # "\t" BY <1>5, <3>1
    <3>3. q[n] \notin White \ {Space} BY <3>2 DEF White
    <3>4. Positions(Left(q, n), {Quote}) = {i \in 1..n : q[i] = Quote}
      BY <1>3, <2>2, QuotesAre
    <3>5. \A i \in 1..n : q[i] = Quote <=> i = 3
      <4> TAKE i \in 1..n
      <4>1. i \in 1..Len(v) + 5 /\ i # Len(v) + 5 /\ i # Len(v) + 4
        BY <1>0, <2>2, <2>4
      <4> QED BY <1>7, <4>1
    <3>6. 3 \in 1..n BY <2>2
    <3>7. Positions(Left(q, n), {Quote}) = {3} BY <3>4, <3>5, <3>6
    <3>8. Left(q, n) \in Text BY <1>3, <2>2, BeginningIs
    <3>9. ~Even(pre \o Left(q, n)) BY <3>7, <3>8, QuotesBehind
    <3> QED BY <1>3, <2>1, <2>2, <3>3, <3>9, EndsIs
  <2> QED BY <2>3, <2>4
<1>9. ASSUME post # <<>>
      PROVE  Ends(pre \o q, Len(pre) + (2 + Len(a) + 1))
  <2>1. PICK n : n = 2 + Len(a) + 1 OBVIOUS
  <2>2. n \in 1..Len(q) /\ n \in Nat /\ n <= Len(q) /\ n = Len(v) + 5
    BY <1>0, <1>4, <1>9, <1>b, <2>1
  <2>3. Positions(Left(q, n), {Quote}) = {i \in 1..n : q[i] = Quote}
    BY <1>3, <2>2, QuotesAre
  <2>4. \A i \in 1..n : q[i] = Quote <=> i = 3 \/ i = Len(v) + 4
    BY <1>7, <1>9, <2>2
  <2>5. 3 \in 1..n /\ Len(v) + 4 \in 1..n /\ 3 # Len(v) + 4 BY <1>0, <2>2
  <2>6. Positions(Left(q, n), {Quote}) = {3, Len(v) + 4}
    BY <2>3, <2>4, <2>5
  <2>7. Left(q, n) \in Text BY <1>3, <2>2, BeginningIs
  <2>8. Even(pre \o Left(q, n)) BY <2>5, <2>6, <2>7, QuotesBehind
  <2>9. q[n] = Space BY <1>4, <1>9, <2>2
  <2> QED BY <1>3, <2>1, <2>2, <2>8, <2>9, EndsIs
<1>10. strArgGiven(HostKey, pre \o q) = [given |-> TRUE, text |-> Cleaned(a)]
  <2>1. a \in Text BY <1>b
  <2>2. \A j \in 1..Len(a) :
          ~Ends(pre \o ((w \o a) \o post), Len(pre) + (2 + j))
    BY <1>2, <1>8
  <2>3. post # <<>> =>
          Ends(pre \o ((w \o a) \o post), Len(pre) + (2 + Len(a) + 1))
    BY <1>2, <1>9
  <2>4. strArgGiven(HostKey, pre \o ((w \o a) \o post))
          = [given |-> TRUE, text |-> Cleaned(a)]
    BY <2>1, <2>2, <2>3, TextIsTaken
  <2> QED BY <1>2, <2>4
<1> QED BY <1>2, <1>10, <1>a DEF HostIs

(* What is read from a line is not the value.                              *)
ReadWrong(line, v) == \E t : HostIs(line, t) /\ t # v

(* A host in quotes with a tab in it is not read as it is. *)
LEMMA TabbedHostIsNotRead ==
  ASSUME NEW pre \in Text, Whole(pre), Even(pre), NoMatch(HostKey, pre),
         NEW w, IsHostKey(w),
         NEW v \in Text, Positions(v, {Quote}) = {},
         Positions(v, {"\t"}) # {}, NEW post \in Text
  PROVE  ReadWrong(pre \o ((w \o InQuotes(v)) \o post), v)
<1>0. Len(v) \in Nat BY DEF Text
<1>1. PICK m \in 1..Len(v) : v[m] = "\t" /\ \A i \in 1..m - 1 : v[i] # "\t"
  <2> DEFINE T == {i \in 1..Len(v) : v[i] = "\t"}
  <2>1. T # {} /\ T \in SUBSET Nat BY DEF Positions
  <2>2. PICK m \in T : \A i \in T : m <= i
    <3> HIDE DEF T
    <3> QED BY <2>1, LeastNat
  <2>3. m \in 1..Len(v) /\ v[m] = "\t" BY <2>2
  <2>4. \A i \in 1..m - 1 : v[i] # "\t"
    <3> TAKE i \in 1..m - 1
    <3>1. i \in 1..Len(v) /\ ~(m <= i) BY <1>0, <2>3
    <3> QED BY <2>2, <3>1
  <2> QED BY <2>3, <2>4
<1>2. \A i \in 1..Len(v) : v[i] # Quote BY DEF Positions
<1>3. PICK x : x = InQuotes(v) OBVIOUS
<1>4. /\ x \in Text /\ Len(x) = Len(v) + 2 /\ x[1] = Quote
      /\ \A i \in 1..Len(v) : x[i + 1] = v[i]
  BY <1>3, InQuotesIs
<1>5. PICK a : a = Left(x, m) OBVIOUS
<1>6. a \in Text /\ Len(a) = m /\ \A i \in 1..m : a[i] = x[i]
  <2>1. m \in Nat /\ m <= Len(x) BY <1>0, <1>4
  <2> QED BY <1>4, <1>5, <2>1, BeginningIs
<1>7. PICK b : b = After(x, m) OBVIOUS
<1>8. /\ b \in Text /\ Len(b) = Len(v) + 2 - m
      /\ \A i \in 1..Len(v) + 2 - m : b[i] = x[m + i]
  <2>1. m \in Nat /\ m <= Len(x) BY <1>0, <1>4
  <2>2. /\ b \in Text /\ Len(b) = Len(x) - m
        /\ \A i \in 1..Len(x) - m : b[i] = x[m + i]
    BY <1>4, <1>7, <2>1, RestIs
  <2> QED BY <1>4, <2>2
<1>9. a[1] = Quote /\ \A j \in 2..m : a[j] = v[j - 1]
  <2>1. a[1] = Quote BY <1>4, <1>6
  <2>2. ASSUME NEW j \in 2..m PROVE a[j] = v[j - 1]
    <3>1. j - 1 \in 1..Len(v) /\ j = (j - 1) + 1 /\ j \in 1..m BY <1>0
    <3> QED BY <1>4, <1>6, <3>1
  <2> QED BY <2>1, <2>2
<1>10. b # <<>> /\ b[1] = "\t"
  <2>1. 1 \in 1..Len(v) + 2 - m BY <1>0
  <2>2. b[1] = x[m + 1] BY <1>8, <2>1
  <2>3. Len(b) # 0 BY <1>0, <1>8
  <2> QED BY <1>1, <1>4, <2>2, <2>3
<1>11. x = a \o b
  <2>1. PICK y : y = a \o b OBVIOUS
  <2>2. /\ y \in Text /\ Len(y) = Len(a) + Len(b)
        /\ \A i \in 1..Len(a) : y[i] = a[i]
        /\ \A i \in 1..Len(b) : y[Len(a) + i] = b[i]
    <3>1. a \in Text /\ b \in Text BY <1>6, <1>8
    <3>2. /\ a \o b \in Text /\ Len(a \o b) = Len(a) + Len(b)
          /\ \A i \in 1..Len(a) : (a \o b)[i] = a[i]
          /\ \A i \in 1..Len(b) : (a \o b)[Len(a) + i] = b[i]
      BY <3>1, TogetherIs
    <3> QED BY <2>1, <3>2, Zenon
  <2>3. Len(y) = Len(x) BY <1>0, <1>4, <1>6, <1>8, <2>2
  <2>4. ASSUME NEW i \in 1..Len(x) PROVE x[i] = y[i]
    <3>1. CASE i <= m BY <1>6, <2>2, <3>1
    <3>2. CASE ~(i <= m)
      <4>1. PICK k : k = i - m OBVIOUS
      <4>2. k \in 1..Len(v) + 2 - m /\ i = m + k
        BY <1>0, <1>4, <3>2, <4>1
      <4>3. b[k] = x[i] BY <1>8, <4>2
      <4>4. k \in 1..Len(b) /\ i = Len(a) + k BY <1>6, <1>8, <4>2
      <4>5. y[i] = b[k] BY <2>2, <4>4
      <4> QED BY <4>3, <4>5
    <3> QED BY <3>1, <3>2
  <2> QED BY <1>4, <2>1, <2>2, <2>3, <2>4, SameText
<1>12. PICK rest : rest = b \o post OBVIOUS
<1>13. rest \in Text /\ rest # <<>> /\ rest[1] = "\t"
  <2>1. /\ rest \in Text /\ Len(rest) = Len(b) + Len(post)
        /\ \A i \in 1..Len(b) : rest[i] = b[i]
    <3>1. b \in Text /\ post \in Text BY <1>8
    <3>2. /\ b \o post \in Text /\ Len(b \o post) = Len(b) + Len(post)
          /\ \A i \in 1..Len(b) : (b \o post)[i] = b[i]
      BY <3>1, TogetherIs
    <3> QED BY <1>12, <3>2, Zenon
  <2>2. 1 \in 1..Len(b) /\ Len(post) \in Nat BY <1>0, <1>8 DEF Text
  <2>3. Len(rest) # 0 BY <2>1, <2>2
  <2> QED BY <1>10, <2>1, <2>2, <2>3
<1>14. w \in Text /\ Len(w) = 2 /\ w[1] \in {"/host", "/HOST"} /\ w[2] = "="
  BY DEF IsHostKey
<1>15. (w \o x) \o post = (w \o a) \o rest
  <2>1. PICK c : c = w \o a OBVIOUS
  <2>2. c \in Text BY <1>6, <1>14, <2>1, TogetherIs
  <2>3. w \o x = c \o b BY <1>6, <1>8, <1>11, <1>14, <2>1, TogetherAssoc
  <2>4. (c \o b) \o post = c \o rest BY <1>8, <1>12, <2>2, TogetherAssoc
  <2> QED BY <2>1, <2>3, <2>4
<1>16. PICK q : q = (w \o a) \o rest OBVIOUS
<1>17. /\ q \in Text /\ Len(q) = 2 + m + Len(rest)
       /\ q[1] = w[1] /\ q[2] = w[2]
       /\ \A i \in 1..m : q[2 + i] = a[i]
       /\ q[2 + m + 1] = rest[1]
  <2>1. /\ q \in Text /\ Len(q) = Len(w) + Len(a) + Len(rest)
        /\ \A i \in 1..Len(w) : q[i] = w[i]
        /\ \A i \in 1..Len(a) : q[Len(w) + i] = a[i]
        /\ \A i \in 1..Len(rest) : q[Len(w) + Len(a) + i] = rest[i]
    <3>1. w \in Text /\ a \in Text /\ rest \in Text BY <1>6, <1>13, <1>14
    <3>2. (w \o a) \o rest \in Text BY <3>1, ThreeTogether
    <3>3. Len((w \o a) \o rest) = Len(w) + Len(a) + Len(rest)
      BY <3>1, ThreeTogether
    <3>4. \A i \in 1..Len(w) : ((w \o a) \o rest)[i] = w[i]
      BY <3>1, ThreeTogether
    <3>5. \A i \in 1..Len(a) : ((w \o a) \o rest)[Len(w) + i] = a[i]
      BY <3>1, ThreeTogether
    <3>6. \A i \in 1..Len(rest) :
            ((w \o a) \o rest)[Len(w) + Len(a) + i] = rest[i]
      BY <3>1, ThreeTogether
    <3> QED BY <1>16, <3>2, <3>3, <3>4, <3>5, <3>6, Zenon
  <2>2. 1 \in 1..Len(w) /\ 2 \in 1..Len(w) BY <1>14
  <2>3. 1 \in 1..Len(rest) BY <1>13 DEF Text
  <2> QED BY <1>6, <1>14, <2>1, <2>2, <2>3
<1>18. Len(rest) \in Nat \ {0} BY <1>13 DEF Text
<1>19. "/host" # Quote /\ "/HOST" # Quote /\ "=" # Quote /\ Quote # "\t"
       /\ Quote # Space /\ "\t" # Space
  BY DEF Quote, Space
<1>20. ASSUME NEW j \in 1..Len(a)
       PROVE  ~Ends(pre \o q, Len(pre) + (2 + j))
  <2>1. PICK n : n = 2 + j OBVIOUS
  <2>2. /\ j \in 1..m /\ n \in Nat /\ n >= 3 /\ n <= 2 + m
        /\ n \in 1..Len(q) /\ n <= Len(q)
    BY <1>6, <1>17, <1>18, <2>1
  <2>3. q[n] # "\t"
    <3>1. q[n] = a[j] BY <1>17, <2>1, <2>2
    <3>2. j = 1 \/ (j \in 2..m /\ j - 1 \in 1..m - 1) BY <2>2
    <3> QED BY <1>1, <1>9, <1>19, <3>1, <3>2
  <2>4. q[n] \notin White \ {Space} BY <2>3 DEF White
  <2>5. Positions(Left(q, n), {Quote}) = {i \in 1..n : q[i] = Quote}
    BY <1>17, <2>2, QuotesAre
  <2>6. ASSUME NEW i \in 1..n PROVE q[i] = Quote <=> i = 3
    <3>1. i \in {1, 2} \/ i = 3 \/ i - 2 \in 2..m BY <2>2
    <3>2. CASE i \in {1, 2} BY <1>14, <1>17, <1>19, <3>2
    <3>3. CASE i = 3
      <4>1. 1 \in 1..m /\ 2 + 1 = 3 OBVIOUS
      <4> QED BY <1>9, <1>17, <3>3, <4>1
    <3>4. CASE i - 2 \in 2..m
      <4>1. i = 2 + (i - 2) /\ i - 2 \in 1..m /\ (i - 2) - 1 \in 1..Len(v)
        BY <1>0, <3>4
      <4>2. q[i] = v[(i - 2) - 1] BY <1>9, <1>17, <3>4, <4>1
      <4>3. i # 3 BY <3>4
      <4> QED BY <1>2, <4>1, <4>2, <4>3
    <3> QED BY <3>1, <3>2, <3>3, <3>4
  <2>7. Positions(Left(q, n), {Quote}) = {3}
    <3>1. 3 \in 1..n BY <2>2
    <3> QED BY <2>5, <2>6, <3>1
  <2>8. Left(q, n) \in Text BY <1>17, <2>2, BeginningIs
  <2>9. ~Even(pre \o Left(q, n)) BY <2>7, <2>8, QuotesBehind
  <2> QED BY <1>17, <2>1, <2>2, <2>4, <2>9, EndsIs
<1>21. Ends(pre \o q, Len(pre) + (2 + Len(a) + 1))
  <2>1. PICK n : n = 2 + Len(a) + 1 OBVIOUS
  <2>2. n \in 1..Len(q) /\ n = 2 + m + 1 BY <1>6, <1>17, <1>18, <2>1
  <2>3. q[n] = "\t" BY <1>13, <1>17, <2>2
  <2>4. q[n] \in White \ {Space} BY <1>19, <2>3 DEF White
  <2> QED BY <1>17, <2>1, <2>2, <2>4, EndsIs
<1>22. HostIs(pre \o ((w \o a) \o rest), Cleaned(a))
  <2>1. a \in Text /\ rest \in Text BY <1>6, <1>13
  <2>2. \A j \in 1..Len(a) :
          ~Ends(pre \o ((w \o a) \o rest), Len(pre) + (2 + j))
    BY <1>16, <1>20
  <2>3. Ends(pre \o ((w \o a) \o rest), Len(pre) + (2 + Len(a) + 1))
    BY <1>16, <1>21
  <2>4. strArgGiven(HostKey, pre \o ((w \o a) \o rest))
          = [given |-> TRUE, text |-> Cleaned(a)]
    BY <2>1, <2>2, <2>3, TextIsTaken
  <2> QED BY <2>4, Zenon DEF HostIs
<1>23. Cleaned(a) # v
  <2>1. a # <<>> BY <1>6
  <2>2. Len(Cleaned(a)) < Len(a) BY <1>6, <1>9, <2>1, CleanedIsShorter
  <2>3. Len(Cleaned(a)) # Len(v) BY <1>0, <1>6, <2>2
  <2> QED BY <2>3
<1>24. ReadWrong(pre \o ((w \o a) \o rest), v)
  BY <1>22, <1>23 DEF ReadWrong
<1> QED BY <1>3, <1>15, <1>24

-----------------------------------------------------------------------------
(* The number behind a keyword *)

Digits == {"0", "1"}

(* f has the numbers of the beginnings of q. *)
NumbersOf(f, q) ==
  f = [n \in 0..Len(q) |->
         IF n = 0 THEN 0
         ELSE 10 * f[n - 1] + IF q[n] = "1" THEN 1 ELSE 0]

(* There is such a function, so that the recursive one in Atoi is it. *)
LEMMA NumbersExist ==
  ASSUME NEW q \in Text
  PROVE  \E f : NumbersOf(f, q)
<1> DEFINE bit(n) == IF q[n] = "1" THEN 1 ELSE 0
           G == [x \in Nat \X Nat |-> 10 * x[2] + bit(x[1])]
<1>1. Len(q) \in Nat BY DEF Text
<1>2. G \in [Nat \X Nat -> Nat] OBVIOUS
<1>3. 0 \in Nat OBVIOUS
<1> HIDE DEF G
<1>4. PICK f \in [0..Len(q) -> Nat] :
        f[0] = 0 /\ \A n \in 1..Len(q) : f[n] = G[<<n, f[n - 1]>>]
  <2>1. PICK V : V = Nat OBVIOUS
  <2>2. PICK H \in [Nat \X V -> V] : H = G BY <1>2, <2>1
  <2>3. PICK z \in V : z = 0 BY <2>1
  <2>4. PICK l \in Nat : l = Len(q) BY <1>1
  <2>5. HasCourse(V, z, H, l) BY RecursionExists
  <2> QED BY <2>1, <2>2, <2>3, <2>4, <2>5 DEF HasCourse, Follows
<1>5. ASSUME NEW n \in 1..Len(q)
      PROVE  G[<<n, f[n - 1]>>] = 10 * f[n - 1] + bit(n)
  <2>1. n \in Nat /\ n - 1 \in 0..Len(q) BY <1>1
  <2>2. <<n, f[n - 1]>> \in Nat \X Nat BY <2>1
  <2> QED BY <2>2 DEF G
<1>6. \A n \in 0..Len(q) :
        f[n] = IF n = 0 THEN 0 ELSE 10 * f[n - 1] + bit(n)
  <2> TAKE n \in 0..Len(q)
  <2>1. n # 0 => n \in 1..Len(q) BY <1>1
  <2> HIDE DEF bit
  <2> QED BY <1>4, <1>5, <2>1
<1>7. f = [n \in 0..Len(q) |-> f[n]] OBVIOUS
<1>8. NumbersOf(f, q)
  <2> HIDE DEF bit
  <2>1. f = [n \in 0..Len(q) |->
               IF n = 0 THEN 0 ELSE 10 * f[n - 1] + bit(n)]
    BY <1>6, <1>7
  <2> QED BY <2>1 DEF NumbersOf, bit
<1> QED BY <1>8

(* How far the digits of q go. *)
DigitsGo(m, q) ==
  /\ m \in 0..Len(q) /\ \A i \in 1..m : q[i] \in Digits
  /\ m = Len(q) \/ q[m + 1] \notin Digits

(* Atoi behind the white space. *)
NumberOf(q) ==
  LET digits == {n \in 0..Len(q) : \A i \in 1..n : q[i] \in {"0", "1"}}
  IN (CHOOSE f : NumbersOf(f, q))
       [CHOOSE n \in digits : \A m \in digits : m <= n]

(* Atoi of a text that begins with its digits is the number of those. *)
LEMMA AtoiIs ==
  ASSUME NEW p \in Text, p = <<>> \/ p[1] \notin White,
         NEW m, DigitsGo(m, p)
  PROVE  \E f : NumbersOf(f, p) /\ Atoi(p) = f[m]
<1>1. TrimLeft(p, White) = p BY NotTrimmed
<1> DEFINE f == CHOOSE g : NumbersOf(g, p)
           digits == {n \in 0..Len(p) : \A i \in 1..n : p[i] \in {"0", "1"}}
<1>2. NumbersOf(f, p) BY NumbersExist
<1>3. Atoi(p) = f[CHOOSE n \in digits : \A k \in digits : k <= n]
  <2>1. Atoi(p) = NumberOf(TrimLeft(p, White))
    BY Zenon DEF Atoi, NumberOf, NumbersOf
  <2>2. Atoi(p) = NumberOf(p) BY <1>1, <2>1
  <2> QED BY <2>2, Zenon DEF NumberOf
<1>4. (CHOOSE n \in digits : \A k \in digits : k <= n) = m
  <2>0. Len(p) \in Nat BY DEF Text
  <2>1. m \in digits BY DEF DigitsGo, Digits
  <2>2. \A k \in digits : k <= m
    <3> TAKE k \in digits
    <3>1. SUFFICES ASSUME ~(k <= m) PROVE FALSE OBVIOUS
    <3>2. m + 1 \in 1..k /\ m # Len(p) BY <2>0, <3>1 DEF DigitsGo
    <3>3. p[m + 1] \in {"0", "1"} BY <3>2
    <3> QED BY <3>2, <3>3 DEF DigitsGo, Digits
  <2>3. digits \subseteq Int OBVIOUS
  <2> HIDE DEF digits
  <2>4. \A n \in digits : (\A k \in digits : k <= n) => n = m
    <3> TAKE n \in digits
    <3> HAVE \A k \in digits : k <= n
    <3>1. m <= n /\ n <= m /\ n \in Int /\ m \in Int BY <2>1, <2>2, <2>3
    <3> QED BY <3>1
  <2> QED BY <2>1, <2>2, <2>4
<1> HIDE DEF f, digits
<1> QED BY <1>2, <1>3, <1>4

(* What is no digit ends the number. *)
LEMMA AtoiTogether ==
  ASSUME NEW v \in Text, v # <<>>, \A i \in 1..Len(v) : v[i] \in Digits,
         NEW r \in Text, r = <<>> \/ r[1] = Space
  PROVE  Atoi(v \o r) = Atoi(v)
<1>0. Len(v) \in Nat \ {0} /\ Len(r) \in Nat /\ (Len(r) = 0 <=> r = <<>>)
  BY DEF Text
<1>1. PICK q : q = v \o r OBVIOUS
<1>2. /\ q \in Text /\ Len(q) = Len(v) + Len(r)
      /\ \A i \in 1..Len(v) : q[i] = v[i]
      /\ \A i \in 1..Len(r) : q[Len(v) + i] = r[i]
  BY <1>1, TogetherIs
<1>3. v[1] \in Digits /\ q[1] = v[1] BY <1>0, <1>2
<1>4. Space \notin Digits /\ \A c \in Digits : c \notin White
  BY DEF Digits, White, Space
<1>5. DigitsGo(Len(v), v) BY <1>0 DEF DigitsGo
<1>6. DigitsGo(Len(v), q)
  <2>1. Len(v) # Len(q) => q[Len(v) + 1] = Space
    <3> HAVE Len(v) # Len(q)
    <3>1. 1 \in 1..Len(r) /\ r # <<>> BY <1>0, <1>2
    <3> QED BY <1>2, <3>1
  <2>2. Len(v) \in 0..Len(q) BY <1>0, <1>2
  <2> QED BY <1>2, <1>4, <2>1, <2>2 DEF DigitsGo
<1>7. PICK f : NumbersOf(f, v) /\ Atoi(v) = f[Len(v)]
  BY <1>3, <1>4, <1>5, AtoiIs
<1>8. PICK g : NumbersOf(g, q) /\ Atoi(q) = g[Len(v)]
  BY <1>2, <1>3, <1>4, <1>6, AtoiIs
<1> DEFINE T == {n \in Nat : n <= Len(v) => f[n] = g[n]}
<1>9. 0 \in T
  <2>1. 0 \in 0..Len(v) /\ 0 \in 0..Len(q) BY <1>0, <1>2
  <2>2. f[0] = 0 BY <1>7, <2>1 DEF NumbersOf
  <2>3. g[0] = 0 BY <1>8, <2>1 DEF NumbersOf
  <2> QED BY <2>2, <2>3
<1>10. ASSUME NEW n \in T PROVE n + 1 \in T
  <2>1. SUFFICES ASSUME n + 1 <= Len(v) PROVE f[n + 1] = g[n + 1] OBVIOUS
  <2>2. PICK k : k = n + 1 OBVIOUS
  <2>3. /\ k \in 0..Len(v) /\ k \in 0..Len(q) /\ k # 0 /\ k - 1 = n
        /\ k \in 1..Len(v) /\ n <= Len(v)
    BY <1>0, <1>2, <2>1, <2>2
  <2>4. f[k] = 10 * f[k - 1] + IF v[k] = "1" THEN 1 ELSE 0
    BY <1>7, <2>3 DEF NumbersOf
  <2>5. g[k] = 10 * g[k - 1] + IF q[k] = "1" THEN 1 ELSE 0
    BY <1>8, <2>3 DEF NumbersOf
  <2>6. q[k] = v[k] BY <1>2, <2>3
  <2>7. f[n] = g[n] BY <2>3
  <2> QED BY <2>2, <2>3, <2>4, <2>5, <2>6, <2>7
<1>11. T = Nat
  <2> HIDE DEF T
  <2>1. T \subseteq Nat BY DEF T
  <2> QED BY <1>9, <1>10, <2>1, NatSteps
<1>12. f[Len(v)] = g[Len(v)] BY <1>0, <1>11
<1> QED BY <1>1, <1>7, <1>8, <1>12

(* The number that is read of a line behind a keyword. *)
PortIs(w, line, n) == iArgGiven(w, line) = n

(* The port of an argument, with a "=" behind the keyword or without: w is *)
(* what is looked for in pre, and u stands between it and the digits.      *)
LEMMA PortIsRead ==
  ASSUME NEW pre \in Text, Whole(pre),
         NEW w \in Text, AKey(w), \A j \in 1..Len(w) : Lower(w[j]) = w[j],
         NoMatch(w, pre), NEW u \in {<<>>, <<"=">>},
         NEW v \in Text, v # <<>>, \A i \in 1..Len(v) : v[i] \in Digits,
         NEW post \in Text, post = <<>> \/ post[1] = Space
  PROVE  PortIs(w, pre \o (((w \o u) \o v) \o post), Atoi(v))
<1>0. /\ Len(pre) \in Nat /\ Len(v) \in Nat \ {0} /\ Len(w) \in Nat \ {0}
      /\ Len(post) \in Nat
  BY DEF Text, AKey
<1>1. u \in Text /\ <<"=">> \in Text
  <2>1. <<>> \in Text /\ <<"=">> \in Text BY DEF Text, Symbols
  <2> QED BY <2>1
<1>2. PICK a : a = v \o post OBVIOUS
<1>3. /\ a \in Text /\ Len(a) = Len(v) + Len(post)
      /\ \A i \in 1..Len(v) : a[i] = v[i]
  BY <1>2, TogetherIs
<1>4. PICK r : r = u \o a OBVIOUS
<1>5. r \in Text BY <1>1, <1>3, <1>4, TogetherIs
<1>6. ((w \o u) \o v) \o post = w \o r
  <2>1. PICK x : x = w \o u OBVIOUS
  <2>2. x \in Text BY <1>1, <2>1, TogetherIs
  <2>3. (x \o v) \o post = x \o a BY <1>2, <2>2, TogetherAssoc
  <2>4. (w \o u) \o a = w \o (u \o a) BY <1>1, <1>3, TogetherAssoc, ZenonT(60)
  <2> QED BY <1>4, <2>1, <2>3, <2>4
<1>7. PICK q : q = w \o r OBVIOUS
<1>8. q \in Text /\ Len(q) = Len(w) + Len(r)
      /\ \A i \in 1..Len(r) : q[Len(w) + i] = r[i]
  BY <1>5, <1>7, TogetherIs
<1>9. PICK cmd : cmd = pre \o q OBVIOUS
<1>10. cmd \in Text /\ Len(cmd) = Len(pre) + Len(q)
       /\ \A i \in 1..Len(q) : cmd[Len(pre) + i] = q[i]
  BY <1>8, <1>9, TogetherIs, ZenonT(60)
<1>11. Find(w, cmd) = Len(pre) + 1
  <2>1. MatchAt(w, q, 1) BY <1>5, <1>7, MatchAtFront
  <2>2. FirstMatch(w, cmd, Len(pre) + 1)
    BY <1>8, <1>9, <2>1, FirstTogether
  <2>3. w # <<>> BY DEF AKey
  <2> QED BY <1>10, <2>2, <2>3, FindIs
<1>12. PICK n : n = Find(w, cmd) + Len(w) - 1 OBVIOUS
<1>13. n = Len(pre) + Len(w) /\ n \in Nat /\ n <= Len(cmd)
       /\ Len(cmd) - n = Len(r)
  <2>1. Len(r) \in Nat BY <1>5 DEF Text
  <2> QED BY <1>0, <1>8, <1>10, <1>11, <1>12, <2>1
<1>14. After(cmd, n) = r
  <2>1. PICK s : s = After(cmd, n) OBVIOUS
  <2>2. /\ s \in Text /\ Len(s) = Len(cmd) - n
        /\ \A i \in 1..Len(cmd) - n : s[i] = cmd[n + i]
    BY <1>10, <1>13, <2>1, RestIs
  <2>3. \A i \in 1..Len(r) : s[i] = r[i]
    <3> TAKE i \in 1..Len(r)
    <3>1. n + i = Len(pre) + (Len(w) + i) /\ Len(w) + i \in 1..Len(q)
      <4>1. Len(r) \in Nat BY <1>5 DEF Text
      <4> QED BY <1>0, <1>8, <1>13, <4>1
    <3>2. cmd[n + i] = q[Len(w) + i] BY <1>10, <3>1
    <3> QED BY <1>8, <1>13, <2>2, <3>2
  <2>4. s = r BY <1>5, <1>13, <2>2, <2>3, SameText
  <2> QED BY <2>1, <2>4
<1>15. Find(w, cmd) # 0 BY <1>0, <1>11
<1>16. iArgGiven(w, cmd) =
         Atoi(IF r # <<>> /\ r[1] = "=" THEN Tail(r) ELSE r)
  BY <1>12, <1>14, <1>15, Zenon DEF iArgGiven
<1>17. (IF r # <<>> /\ r[1] = "=" THEN Tail(r) ELSE r) = a
  <2>1. a[1] # "=" /\ Len(a) # 0
    <3>1. a[1] = v[1] /\ v[1] \in Digits BY <1>0, <1>3
    <3> QED BY <1>0, <1>3, <3>1 DEF Digits
  <2>2. CASE u = <<>>
    <3>1. r = a BY <1>3, <1>4, <2>2 DEF Text
    <3> QED BY <2>1, <3>1
  <2>3. CASE u = <<"=">>
    <3>1. PICK o : o = <<"=">> OBVIOUS
    <3>2. o \in Text /\ Len(o) = 1 /\ o[1] = "=" BY <1>1, <3>1
    <3>3. /\ Len(r) = Len(o) + Len(a) /\ \A i \in 1..Len(o) : r[i] = o[i]
          /\ \A i \in 1..Len(a) : r[Len(o) + i] = a[i]
      BY <1>3, <1>4, <2>3, <3>1, <3>2, TogetherIs, ZenonT(60)
    <3>4. r # <<>> /\ r[1] = "=" /\ Len(a) \in Nat
      BY <1>3, <1>5, <3>2, <3>3 DEF Text
    <3>5. PICK t : t = Tail(r) OBVIOUS
    <3>6. /\ t \in Text /\ Len(t) = Len(r) - 1
          /\ \A i \in 1..Len(t) : t[i] = r[i + 1]
      BY <1>5, <3>4, <3>5 DEF Text
    <3>7. Len(t) = Len(a) BY <3>2, <3>3, <3>4, <3>6
    <3>8. \A i \in 1..Len(t) : t[i] = a[i]
      <4> TAKE i \in 1..Len(t)
      <4>1. Len(o) + i = i + 1 /\ i \in 1..Len(a) BY <3>2, <3>4, <3>7
      <4> QED BY <3>3, <3>6, <4>1
    <3>9. t = a BY <1>3, <3>6, <3>7, <3>8, SameText
    <3> QED BY <3>4, <3>5, <3>9
  <2> QED BY <2>2, <2>3
<1>18. Atoi(a) = Atoi(v) BY <1>2, AtoiTogether
<1> QED BY <1>6, <1>7, <1>9, <1>16, <1>17, <1>18 DEF PortIs

-----------------------------------------------------------------------------
(* Command lines *)

Argument == [text : Text, key : Text, value : Text]

(* f has the lines of the first arguments. *)
LinesOf(f, args) ==
  f = [n \in 0..Len(args) |->
         IF n = 0 THEN <<>>
         ELSE (IF n = 1 THEN <<>> ELSE Append(f[n - 1], Space))
                \o args[n].text]

IsLine(f, args) ==
  args \in Seq(Argument) /\ f \in [0..Len(args) -> Text] /\ LinesOf(f, args)

(* There are such lines, and LineOf is the last. *)
LEMMA LineIs ==
  ASSUME NEW args \in Seq(Argument)
  PROVE  \E f : IsLine(f, args) /\ LineOf(args) = f[Len(args)]
<1>0. Len(args) \in Nat /\ \A i \in 1..Len(args) : args[i].text \in Text
  <2>1. \A i \in 1..Len(args) : args[i] \in Argument OBVIOUS
  <2> QED BY <2>1 DEF Argument
<1> DEFINE front(n, p) == IF n = 1 THEN <<>> ELSE Append(p, Space)
           line(n, p) == front(n, p) \o args[n].text
           G == [x \in Nat \X Text |->
                   IF x[1] \in 1..Len(args) THEN line(x[1], x[2]) ELSE <<>>]
<1>1. <<>> \in Text BY DEF Text
<1>2. \A n \in 1..Len(args), p \in Text : line(n, p) \in Text
  <2> TAKE n \in 1..Len(args), p \in Text
  <2>1. Append(p, Space) \in Text BY SpacedIs DEF Spaced
  <2>2. PICK r : r = front(n, p) OBVIOUS
  <2>3. r \in Text BY <1>1, <2>1, <2>2
  <2>4. PICK t : t = args[n].text OBVIOUS
  <2>5. t \in Text BY <1>0, <2>4
  <2>6. r \o t \in Text BY <2>3, <2>5, TogetherIs
  <2> QED BY <2>2, <2>4, <2>6
<1> HIDE DEF line
<1>3. G \in [Nat \X Text -> Text] BY <1>1, <1>2
<1>4. PICK H \in [Nat \X Text -> Text] : H = G BY <1>3
<1> HIDE DEF G
<1>5. PICK e \in Text : e = <<>> BY <1>1
<1>6. PICK l \in Nat : l = Len(args) BY <1>0
<1>7. HasCourse(Text, e, H, l) BY RecursionExists
<1>8. PICK f \in [0..l -> Text] : Follows(f, e, H, l) BY <1>7 DEF HasCourse
<1>9. \A n \in 0..l : f[n] = IF n = 0 THEN <<>> ELSE line(n, f[n - 1])
  <2> TAKE n \in 0..l
  <2>1. CASE n = 0 BY <1>5, <1>8, <2>1 DEF Follows
  <2>2. CASE n # 0
    <3>1. n \in 1..l /\ n \in Nat /\ n - 1 \in 0..l BY <2>2
    <3>2. f[n - 1] \in Text BY <3>1
    <3>3. f[n] = G[<<n, f[n - 1]>>] BY <1>4, <1>8, <3>1 DEF Follows
    <3>4. G[<<n, f[n - 1]>>] = line(n, f[n - 1])
      BY <1>6, <3>1, <3>2 DEF G
    <3> QED BY <2>2, <3>3, <3>4
  <2> QED BY <2>1, <2>2
<1>10. f = [n \in 0..l |-> f[n]] OBVIOUS
<1>11. f = [n \in 0..l |-> IF n = 0 THEN <<>> ELSE line(n, f[n - 1])]
  BY <1>9, <1>10
<1>12. LinesOf(f, args) BY <1>6, <1>11 DEF LinesOf, line
<1> DEFINE g == CHOOSE h : LinesOf(h, args)
<1>13. LinesOf(g, args) BY <1>12
<1>14. LineOf(args) = g[Len(args)] BY Zenon DEF LineOf, LinesOf
<1> HIDE DEF g
<1>15. g = [n \in 0..l |-> IF n = 0 THEN <<>> ELSE line(n, g[n - 1])]
  BY <1>6, <1>13 DEF LinesOf, line
<1> DEFINE T == {n \in Nat : n <= l => g[n] \in Text}
<1>16. 0 \in T BY <1>1, <1>15
<1>17. ASSUME NEW n \in T PROVE n + 1 \in T
  <2>1. SUFFICES ASSUME n + 1 <= l PROVE g[n + 1] \in Text OBVIOUS
  <2>2. n + 1 \in 0..l /\ n + 1 # 0 /\ (n + 1) - 1 = n /\ n <= l
        /\ n + 1 \in 1..l
    BY <2>1
  <2>3. g[n + 1] = line(n + 1, g[n]) BY <1>15, <2>2
  <2>4. g[n] \in Text BY <2>2
  <2> QED BY <1>2, <1>6, <2>2, <2>3, <2>4
<1>18. T = Nat
  <2> HIDE DEF T
  <2>1. T \subseteq Nat BY DEF T
  <2> QED BY <1>16, <1>17, <2>1, NatSteps
<1>19. \A n \in 0..l : g[n] \in Text BY <1>18
<1>20. g = [n \in 0..l |-> g[n]]
  <2> DEFINE val(n) == IF n = 0 THEN <<>> ELSE line(n, g[n - 1])
  <2>1. g = [n \in 0..l |-> val(n)] BY <1>15
  <2> HIDE DEF val
  <2>2. \A n \in 0..l : g[n] = val(n) BY <2>1
  <2> QED BY <2>1, <2>2
<1>21. g \in [0..l -> Text] BY <1>19, <1>20
<1>22. IsLine(g, args) BY <1>6, <1>13, <1>21 DEF IsLine
<1> QED BY <1>14, <1>22

(* What stands before the argument behind the first n. *)
Front(f, n) == IF n = 0 THEN <<>> ELSE Spaced(f[n])

(* What the nth argument adds to the line. *)
Grows(f, args, n) ==
  /\ args[n].text \in Text /\ f[n] \in Text /\ Front(f, n - 1) \in Text
  /\ f[n] = Front(f, n - 1) \o args[n].text
  /\ Front(f, n) = Front(f, n - 1) \o Spaced(args[n].text)

(* The line grows by an argument at a time. *)
LEMMA FrontIs ==
  ASSUME NEW f, NEW args, IsLine(f, args), NEW n \in Nat, n <= Len(args)
  PROVE  /\ Front(f, n) \in Text /\ Whole(Front(f, n))
         /\ n # 0 => Grows(f, args, n)
<1>0. /\ Len(args) \in Nat /\ \A i \in 1..Len(args) : args[i].text \in Text
      /\ f \in [0..Len(args) -> Text]
  <2>1. args \in Seq(Argument) /\ f \in [0..Len(args) -> Text]
    BY DEF IsLine
  <2>2. \A i \in 1..Len(args) : args[i] \in Argument BY <2>1
  <2> QED BY <2>1, <2>2 DEF Argument
<1>1. \A k \in 0..Len(args) : Front(f, k) \in Text /\ Whole(Front(f, k))
  <2> TAKE k \in 0..Len(args)
  <2>1. CASE k = 0 BY <2>1 DEF Front, Whole, Text
  <2>2. CASE k # 0
    <3>1. PICK p \in Text : p = f[k] BY <1>0
    <3>2. PICK s : s = Spaced(p) OBVIOUS
    <3>3. s \in Text /\ Len(s) = Len(p) + 1 /\ s[Len(p) + 1] = Space
      BY <3>2, SpacedIs
    <3>4. Front(f, k) = s BY <2>2, <3>1, <3>2 DEF Front
    <3> QED BY <3>3, <3>4 DEF Whole
  <2> QED BY <2>1, <2>2
<1>2. ASSUME n # 0
      PROVE  /\ args[n].text \in Text /\ f[n] \in Text
             /\ Front(f, n - 1) \in Text
             /\ f[n] = Front(f, n - 1) \o args[n].text
             /\ Front(f, n) = Front(f, n - 1) \o Spaced(args[n].text)
  <2>1. n \in 1..Len(args) /\ n - 1 \in 0..Len(args) /\ n \in 0..Len(args)
    BY <1>0, <1>2
  <2>2. f[n] = (IF n = 1 THEN <<>> ELSE Append(f[n - 1], Space))
                 \o args[n].text
    BY <1>2, <2>1 DEF IsLine, LinesOf
  <2>3. Front(f, n - 1) = IF n = 1 THEN <<>> ELSE Append(f[n - 1], Space)
    <3>1. n = 1 <=> n - 1 = 0 OBVIOUS
    <3> QED BY <3>1 DEF Front, Spaced
  <2>4. PICK p \in Text : p = Front(f, n - 1) BY <1>1, <2>1
  <2>5. PICK t \in Text : t = args[n].text BY <1>0, <2>1
  <2>6. f[n] = p \o t BY <2>2, <2>3, <2>4, <2>5
  <2>7. f[n] \in Text BY <1>0, <2>1
  <2>8. PICK o \in Text : o = <<Space>> BY <2>4, SpacedIs
  <2>9. Front(f, n) = (p \o t) \o o
    <3>1. PICK x \in Text : x = f[n] BY <2>7
    <3>2. Spaced(x) = x \o <<Space>> BY SpacedIs
    <3> QED BY <1>2, <2>6, <2>8, <3>1, <3>2 DEF Front
  <2>10. (p \o t) \o o = p \o (t \o o) BY TogetherAssoc
  <2>11. t \o o = Spaced(t) BY <2>8, SpacedIs
  <2>12. Front(f, n) = p \o Spaced(t) BY <2>9, <2>10, <2>11
  <2> QED BY <2>4, <2>5, <2>6, <2>7, <2>12
<1>3. n \in 0..Len(args) BY <1>0
<1>4. n # 0 => Grows(f, args, n) BY <1>2 DEF Grows
<1> QED BY <1>1, <1>3, <1>4

(* The quotes in front of an argument are closed if those of each argument *)
(* are.                                                                    *)
LEMMA FrontEven ==
  ASSUME NEW f, NEW args, IsLine(f, args), NEW m \in Nat, m <= Len(args),
         \A i \in 1..m : Even(args[i].text)
  PROVE  Even(Front(f, m))
<1>0. Len(args) \in Nat BY DEF IsLine
<1> DEFINE T == {n \in Nat : n <= m => Even(Front(f, n))}
<1>1. 0 \in T
  <2>1. Positions(<<>>, {Quote}) = {} BY DEF Positions
  <2>2. Count(<<>>, {Quote}) = 0 BY <2>1, FS_EmptySet DEF Count
  <2>3. Front(f, 0) = <<>> BY DEF Front
  <2> QED BY <2>2, <2>3 DEF Even
<1>2. ASSUME NEW n \in T PROVE n + 1 \in T
  <2>1. SUFFICES ASSUME n + 1 <= m PROVE Even(Front(f, n + 1)) OBVIOUS
  <2>2. PICK k \in Nat : k = n + 1 OBVIOUS
  <2>3. k # 0 /\ k <= Len(args) /\ k - 1 = n /\ k \in 1..m
        /\ n \in Nat /\ n <= Len(args)
    BY <1>0, <2>1, <2>2
  <2>4. /\ args[k].text \in Text /\ Front(f, n) \in Text
        /\ Front(f, k) = Front(f, n) \o Spaced(args[k].text)
    <3>1. Grows(f, args, k) BY <2>3, FrontIs
    <3> QED BY <2>3, <3>1 DEF Grows
  <2>5. Even(Front(f, n)) BY <2>1
  <2>6. Even(args[k].text) BY <2>3
  <2>7. PICK t \in Text : t = args[k].text BY <2>4
  <2>8. PICK o \in Text : o = <<Space>> BY <2>4, SpacedIs
  <2>9. Positions(o, {Quote}) = {}
    <3>1. Len(o) = 1 /\ o[1] = Space BY <2>8
    <3>2. \A i \in 1..1 : i = 1 OBVIOUS
    <3>3. Space # Quote BY DEF Space, Quote
    <3> QED BY <3>1, <3>2, <3>3 DEF Positions
  <2>10. Even(t \o o) BY <2>6, <2>7, <2>9, QuotesBehind
  <2>11. t \o o = Spaced(t) BY <2>8, SpacedIs
  <2>12. PICK x \in Text : x = Spaced(t) BY SpacedIs
  <2>13. Even(Front(f, n) \o x)
    BY <2>4, <2>5, <2>10, <2>11, <2>12, EvenTogether
  <2> QED BY <2>2, <2>4, <2>7, <2>12, <2>13
<1>3. T = Nat
  <2> HIDE DEF T
  <2>1. T \subseteq Nat BY DEF T
  <2> QED BY <1>1, <1>2, <2>1, NatSteps
<1> QED BY <1>3

(* There is no match in front of an argument if no argument has one. *)
LEMMA FrontNoMatch ==
  ASSUME NEW K, AKey(K),
         NEW f, NEW args, IsLine(f, args), NEW m \in Nat, m <= Len(args),
         \A i \in 1..m : NoMatch(K, Spaced(args[i].text))
  PROVE  NoMatch(K, Front(f, m))
<1>0. Len(args) \in Nat BY DEF IsLine
<1> DEFINE T == {n \in Nat : n <= m => NoMatch(K, Front(f, n))}
<1>1. 0 \in T
  <2>1. Front(f, 0) = <<>> BY DEF Front
  <2>2. Len(K) \in Nat \ {0} BY DEF AKey, Text
  <2>3. ASSUME NEW k \in Nat PROVE ~MatchAt(K, <<>>, k)
    <3>1. Len(<<>>) = 0 OBVIOUS
    <3>2. k # 0 => ~(k + Len(K) <= 0 + 1) BY <2>2
    <3> QED BY <3>1, <3>2 DEF MatchAt
  <2>4. NoMatch(K, <<>>) BY <2>3 DEF NoMatch
  <2> QED BY <2>1, <2>4
<1>2. ASSUME NEW n \in T PROVE n + 1 \in T
  <2>1. SUFFICES ASSUME n + 1 <= m PROVE NoMatch(K, Front(f, n + 1)) OBVIOUS
  <2>2. PICK k \in Nat : k = n + 1 OBVIOUS
  <2>3. k # 0 /\ k <= Len(args) /\ k - 1 = n /\ k \in 1..m
        /\ n \in Nat /\ n <= Len(args)
    BY <1>0, <2>1, <2>2
  <2>4. /\ args[k].text \in Text /\ Front(f, n) \in Text
        /\ Front(f, k) = Front(f, n) \o Spaced(args[k].text)
    <3>1. Grows(f, args, k) BY <2>3, FrontIs
    <3> QED BY <2>3, <3>1 DEF Grows
  <2>5. Whole(Front(f, n)) BY <2>3, FrontIs
  <2>6. NoMatch(K, Front(f, n)) /\ NoMatch(K, Spaced(args[k].text))
    BY <2>1, <2>3
  <2>7. Spaced(args[k].text) \in Text BY <2>4, SpacedIs
  <2>8. NoMatch(K, Front(f, n) \o Spaced(args[k].text))
    BY <2>4, <2>5, <2>6, <2>7, NoMatchTogether
  <2> QED BY <2>2, <2>4, <2>8
<1>3. T = Nat
  <2> HIDE DEF T
  <2>1. T \subseteq Nat BY DEF T
  <2> QED BY <1>1, <1>2, <2>1, NatSteps
<1> QED BY <1>3

(* A match in front of an argument stays, whatever follows. *)
LEMMA MatchStays ==
  ASSUME NEW K, AKey(K),
         NEW f, NEW args, IsLine(f, args), NEW m \in Nat, m <= Len(args),
         ~NoMatch(K, Front(f, m))
  PROVE  ~NoMatch(K, Front(f, Len(args)))
<1>0. Len(args) \in Nat BY DEF IsLine
<1> DEFINE T == {n \in Nat : m <= n /\ n <= Len(args) =>
                              ~NoMatch(K, Front(f, n))}
<1>1. 0 \in T
  <2>1. m <= 0 => m = 0 OBVIOUS
  <2> QED BY <2>1
<1>2. ASSUME NEW n \in T PROVE n + 1 \in T
  <2>1. SUFFICES ASSUME m <= n + 1, n + 1 <= Len(args), m # n + 1
                 PROVE  ~NoMatch(K, Front(f, n + 1))
    OBVIOUS
  <2>2. PICK k \in Nat : k = n + 1 OBVIOUS
  <2>3. k # 0 /\ k <= Len(args) /\ k - 1 = n /\ m <= n /\ n <= Len(args)
        /\ n \in Nat
    BY <1>0, <2>1, <2>2
  <2>4. /\ args[k].text \in Text /\ Front(f, n) \in Text
        /\ Front(f, k) = Front(f, n) \o Spaced(args[k].text)
    <3>1. Grows(f, args, k) BY <2>3, FrontIs
    <3> QED BY <2>3, <3>1 DEF Grows
  <2>5. Whole(Front(f, n)) BY <2>3, FrontIs
  <2>6. PICK j \in Nat : MatchAt(K, Front(f, n), j) BY <2>3 DEF NoMatch
  <2>7. Spaced(args[k].text) \in Text BY <2>4, SpacedIs
  <2>8. MatchAt(K, Front(f, n) \o Spaced(args[k].text), j)
    BY <2>4, <2>5, <2>6, <2>7, MatchTogether
  <2> QED BY <2>2, <2>4, <2>8 DEF NoMatch
<1>3. T = Nat
  <2> HIDE DEF T
  <2>1. T \subseteq Nat BY DEF T
  <2> QED BY <1>1, <1>2, <2>1, NatSteps
<1>4. m <= Len(args) /\ Len(args) <= Len(args) BY <1>0
<1> QED BY <1>0, <1>3, <1>4

Regroups(p, q, r, x, y) ==
  ((p \o (q \o r)) \o x) \o y = p \o (q \o (r \o (x \o y)))

(* What is put behind the line is put behind its last part. *)
LEMMA Regrouped ==
  ASSUME NEW p, NEW q, NEW r, NEW x, NEW y,
         p \in Text /\ q \in Text /\ r \in Text /\ x \in Text /\ y \in Text
  PROVE  Regroups(p, q, r, x, y)
<1>1. PICK s : s = q \o r OBVIOUS
<1>2. PICK z : z = x \o y OBVIOUS
<1>3. s \in Text /\ z \in Text BY <1>1, <1>2, TogetherIs
<1>4. PICK l : l = p \o s OBVIOUS
<1>5. l \in Text BY <1>3, <1>4, TogetherIs
<1>6. (l \o x) \o y = l \o z BY <1>2, <1>5, TogetherAssoc
<1>7. (p \o s) \o z = p \o (s \o z) BY <1>3, TogetherAssoc, ZenonT(60)
<1>8. (q \o r) \o z = q \o (r \o z) BY <1>3, TogetherAssoc, ZenonT(60)
<1> QED BY <1>1, <1>2, <1>4, <1>6, <1>7, <1>8 DEF Regroups

IsBehind(line, pre, t) ==
  \E post \in Text : /\ post = <<>> \/ post[1] = Space
                     /\ line = pre \o (t \o post)

(* Behind an argument the line ends, or a space follows. *)
LEMMA LineHas ==
  ASSUME NEW f, NEW args, IsLine(f, args), NEW m \in 1..Len(args)
  PROVE  IsBehind(f[Len(args)], Front(f, m - 1), args[m].text)
<1>0. Len(args) \in Nat /\ m \in Nat /\ m # 0 /\ m <= Len(args)
  BY DEF IsLine
<1>a. Grows(f, args, m) BY <1>0, FrontIs
<1>1. PICK pre \in Text : pre = Front(f, m - 1) BY <1>a DEF Grows
<1>2. PICK t \in Text : t = args[m].text BY <1>a DEF Grows
<1> DEFINE Behind(n, post) ==
             /\ post = <<>> \/ post[1] = Space
             /\ f[n] = pre \o (t \o post)
           T == {n \in Nat : m <= n /\ n <= Len(args) =>
                              \E post \in Text : Behind(n, post)}
<1>3. f[m] = pre \o t BY <1>a, <1>1, <1>2 DEF Grows
<1>4. Behind(m, <<>>) /\ <<>> \in Text
  <2>1. t \o <<>> = t BY DEF Text
  <2>2. <<>> \in Text BY DEF Text
  <2> QED BY <1>3, <2>1, <2>2
<1>5. 0 \in T BY <1>0
<1>6. ASSUME NEW n \in T PROVE n + 1 \in T
  <2>1. SUFFICES ASSUME m <= n + 1, n + 1 <= Len(args)
                 PROVE  \E post \in Text : Behind(n + 1, post)
    OBVIOUS
  <2>2. CASE m = n + 1 BY <1>4, <2>2
  <2>3. CASE m # n + 1
    <3>1. PICK k \in Nat : k = n + 1 OBVIOUS
    <3>2. k # 0 /\ k <= Len(args) /\ k - 1 = n /\ m <= n /\ n <= Len(args)
          /\ n # 0
      BY <1>0, <2>1, <2>3, <3>1
    <3>3. PICK post \in Text : Behind(n, post) BY <3>2
    <3>a. Grows(f, args, k) /\ Grows(f, args, n) BY <1>0, <3>2, FrontIs
    <3>4. PICK u \in Text : u = args[k].text BY <3>a DEF Grows
    <3>5. f[k] = Spaced(f[n]) \o u
      <4>1. f[k] = Front(f, k - 1) \o args[k].text BY <3>a DEF Grows
      <4>2. Front(f, k - 1) = Spaced(f[n]) BY <3>2 DEF Front
      <4> QED BY <3>4, <4>1, <4>2
    <3>6. f[n] \in Text BY <3>a DEF Grows
    <3>7. <<Space>> \in Text /\ Spaced(f[n]) = f[n] \o <<Space>>
      BY <3>6, SpacedIs
    <3>8. PICK o : o = <<Space>> OBVIOUS
    <3>9. PICK b : b = o \o u OBVIOUS
    <3>10. o \in Text /\ b \in Text BY <3>7, <3>8, <3>9, TogetherIs
    <3>14. PICK d : d = post \o b OBVIOUS
    <3>15. d \in Text BY <3>10, <3>14, TogetherIs
    <3>16. f[k] = pre \o (t \o d)
      <4>1. f[k] = ((pre \o (t \o post)) \o o) \o u
        BY <3>3, <3>5, <3>7, <3>8
      <4>2. Regroups(pre, t, post, o, u) BY <3>10, Regrouped
      <4> QED BY <3>9, <3>14, <4>1, <4>2 DEF Regroups
    <3>17. b[1] = Space
      <4>1. Len(o) = 1 /\ o[1] = Space BY <3>8
      <4>2. \A i \in 1..Len(o) : b[i] = o[i] BY <3>9, <3>10, TogetherIs
      <4> QED BY <4>1, <4>2
    <3>18. d[1] = Space
      <4>1. CASE post = <<>>
        <5>1. d = b BY <3>10, <3>14, <4>1 DEF Text
        <5> QED BY <3>17, <5>1
      <4>2. CASE post # <<>>
        <5>1. 1 \in 1..Len(post) BY <4>2 DEF Text
        <5>2. \A i \in 1..Len(post) : d[i] = post[i]
          BY <3>10, <3>14, TogetherIs
        <5> QED BY <3>3, <4>2, <5>1, <5>2
      <4> QED BY <4>1, <4>2
    <3>19. Behind(k, d) BY <3>16, <3>18
    <3> QED BY <3>1, <3>15, <3>19
  <2> QED BY <2>2, <2>3
<1>7. T = Nat
  <2> HIDE DEF T
  <2>1. T \subseteq Nat BY DEF T
  <2> QED BY <1>5, <1>6, <2>1, NatSteps
<1>8. Len(args) \in T /\ m <= Len(args) /\ Len(args) <= Len(args)
  BY <1>0, <1>7, SMTT(30)
<1>9. PICK post \in Text : Behind(Len(args), post) BY <1>8
<1> QED BY <1>1, <1>2, <1>9 DEF IsBehind

-----------------------------------------------------------------------------
(* The arguments that VibCtlPorts.cpp looks for *)

Flags   == {<<"/localhost">>, <<"/host", "name">>, <<"/hawk">>}
ArgKeys == {HostKey, PortKey} \cup Flags

(* What is looked for: of a flag, with the space behind it. *)
Mark(key) == IF key \in Flags THEN Spaced(key) ELSE key

(* A flag is one word or two, in lower case and without spaces. *)
LEMMA FlagIs ==
  ASSUME NEW key \in Flags
  PROVE  /\ key \in Text /\ Len(key) \in {1, 2}
         /\ \A j \in 1..Len(key) : key[j] # Space /\ Lower(key[j]) = key[j]
<1>1. "/localhost" # Space /\ "/host" # Space /\ "name" # Space
      /\ "/hawk" # Space
  BY DEF Space
<1>2. /\ Lower("/localhost") = "/localhost" /\ Lower("/host") = "/host"
      /\ Lower("name") = "name" /\ Lower("/hawk") = "/hawk"
  BY DEF Lower
<1>3. \A j \in 1..1 : j = 1 OBVIOUS
<1>4. \A j \in 1..2 : j = 1 \/ j = 2 OBVIOUS
<1>5. <<"/localhost">> \in Text /\ <<"/host", "name">> \in Text
      /\ <<"/hawk">> \in Text
  BY DEF Text, Symbols
<1>6. CASE key = <<"/localhost">> BY <1>1, <1>2, <1>3, <1>5, <1>6
<1>7. CASE key = <<"/host", "name">> BY <1>1, <1>2, <1>4, <1>5, <1>7
<1>8. CASE key = <<"/hawk">> BY <1>1, <1>2, <1>3, <1>5, <1>8
<1> QED BY <1>6, <1>7, <1>8 DEF Flags

(* PortKey is a keyword, in lower case and with the separator in it. *)
LEMMA PortKeyIs ==
  /\ AKey(PortKey) /\ PortKey[Len(PortKey)] # Space /\ Len(PortKey) = 2
  /\ \A j \in 1..Len(PortKey) : Lower(PortKey[j]) = PortKey[j]
  /\ Positions(PortKey, {"="}) # {}
<1>1. PortKey \in Text BY DEF Text, Symbols, PortKey
<1>2. /\ PortKey # <<>> /\ Len(PortKey) = 2
      /\ PortKey[1] = "/port" /\ PortKey[2] = "="
  BY DEF PortKey
<1>3. "/port" # Space /\ "=" # Space BY DEF Space
<1>4. Lower("/port") = "/port" /\ Lower("=") = "=" BY DEF Lower
<1>5. (\A j \in 1..2 : j = 1 \/ j = 2) /\ (\A j \in 1..2 - 1 : j = 1) OBVIOUS
<1>6. AKey(PortKey) BY <1>1, <1>2, <1>3, <1>5 DEF AKey
<1>7. 2 \in Positions(PortKey, {"="}) BY <1>2 DEF Positions
<1> QED BY <1>2, <1>3, <1>4, <1>5, <1>6, <1>7

(* What is looked for is a keyword in lower case. *)
LEMMA MarkIs ==
  ASSUME NEW key \in ArgKeys
  PROVE  AKey(Mark(key)) /\ \A j \in 1..Len(Mark(key)) :
                               Lower(Mark(key)[j]) = Mark(key)[j]
<1>1. CASE key \in Flags
  <2>1. PICK s : s = Spaced(key) OBVIOUS
  <2>2. /\ key \in Text /\ Len(key) \in {1, 2}
        /\ \A j \in 1..Len(key) : key[j] # Space /\ Lower(key[j]) = key[j]
    BY <1>1, FlagIs
  <2>3. /\ s \in Text /\ Len(s) = Len(key) + 1
        /\ \A i \in 1..Len(key) : s[i] = key[i]
        /\ s[Len(key) + 1] = Space
    BY <2>1, <2>2, SpacedIs
  <2>4. Lower(Space) = Space BY DEF Lower, Space
  <2>5. \A j \in 1..Len(s) : j \in 1..Len(key) \/ j = Len(key) + 1
    BY <2>2, <2>3
  <2>6. \A j \in 1..Len(s) - 1 : j \in 1..Len(key) BY <2>2, <2>3
  <2>7. s # <<>> BY <2>2, <2>3
  <2>8. AKey(s) BY <2>2, <2>3, <2>6, <2>7 DEF AKey
  <2>9. \A j \in 1..Len(s) : Lower(s[j]) = s[j] BY <2>2, <2>3, <2>4, <2>5
  <2> QED BY <1>1, <2>1, <2>8, <2>9 DEF Mark
<1>2. CASE key \notin Flags
  <2>1. Mark(key) = key /\ key \in {HostKey, PortKey}
    BY <1>2 DEF Mark, ArgKeys
  <2>2. \A j \in 1..Len(HostKey) : Lower(HostKey[j]) = HostKey[j]
    <3>1. Lower("/host") = "/host" /\ Lower("=") = "=" BY DEF Lower
    <3>2. \A j \in 1..2 : j = 1 \/ j = 2 OBVIOUS
    <3> QED BY <3>1, <3>2, HostKeyIs
  <2> QED BY <2>1, <2>2, HostKeyIs, PortKeyIs
<1> QED BY <1>1, <1>2

(* The arguments that the theorem is about: no tabs, no open quotes, no    *)
(* keyword but its own; a host that is not empty, bare or in quotes, and   *)
(* that survives; and a port in digits that is not 0.                      *)
IsBareHost(a, v) ==
  /\ a = Bare(HostKey, v) /\ Positions(v, White \cup {Quote}) = {}
  /\ Survives(v)

IsQuotedHost(a, v) ==
  a = Quoted(HostKey, v) /\ Positions(v, {Quote}) = {} /\ Survives(v)

IsPort(a, v) ==
  /\ a = Bare(PortKey, v) /\ \A i \in 1..Len(v) : v[i] \in Digits
  /\ Atoi(v) # 0

IsArg(a) ==
  /\ a \in Argument /\ Positions(a.text, {"\t"}) = {} /\ Even(a.text)
  /\ \A k \in ArgKeys : k # a.key => NoMatch(Mark(k), Spaced(a.text))
  /\ a.key = HostKey => \E v \in Text :
       v # <<>> /\ (IsBareHost(a, v) \/ IsQuotedHost(a, v))
  /\ a.key = PortKey => \E v \in Text : v # <<>> /\ IsPort(a, v)
  /\ a.key \in Flags => a.text = a.key

AllArgs(args) == \A i \in 1..Len(args) : IsArg(args[i])

(* Where the first argument with that key is. *)
FirstAt(args, key, m) ==
  /\ m \in 1..Len(args) /\ args[m].key = key
  /\ \A j \in 1..m - 1 : args[j].key # key

(* The first argument with a key is there if any is; its value is the    *)
(* one that counts.                                                        *)
LEMMA FirstIs ==
  ASSUME NEW args \in Seq(Argument), NEW key
  PROVE  /\ Has(args, key) <=> \E m : FirstAt(args, key, m)
         /\ \A m : FirstAt(args, key, m) =>
                     FirstValue(args, key) = args[m].value
<1>0. Len(args) \in Nat OBVIOUS
<1>1. ASSUME Has(args, key) PROVE \E m : FirstAt(args, key, m)
  <2> DEFINE T == {i \in 1..Len(args) : args[i].key = key}
  <2>1. T # {} /\ T \in SUBSET Nat BY <1>0, <1>1 DEF Has
  <2>2. PICK m \in T : \A i \in T : m <= i
    <3> HIDE DEF T
    <3> QED BY <2>1, LeastNat
  <2>3. \A j \in 1..m - 1 : args[j].key # key
    <3> TAKE j \in 1..m - 1
    <3>1. j \in 1..Len(args) /\ ~(m <= j) BY <1>0, <2>2
    <3> QED BY <2>2, <3>1
  <2> QED BY <2>2, <2>3 DEF FirstAt
<1>2. ASSUME NEW m, FirstAt(args, key, m) PROVE Has(args, key)
  BY <1>2 DEF FirstAt, Has
<1>3. ASSUME NEW m, FirstAt(args, key, m)
      PROVE  FirstValue(args, key) = args[m].value
  <2> DEFINE S == {args[i] : i \in 1..Len(args)}
             First(a) == \E i \in 1..Len(args) :
                           /\ args[i] = a /\ a.key = key
                           /\ \A j \in 1..i - 1 : args[j].key # key
  <2>1. args[m] \in S /\ First(args[m]) BY <1>3 DEF FirstAt
  <2>2. ASSUME NEW a \in S, First(a) PROVE a = args[m]
    <3>1. PICK i \in 1..Len(args) :
            /\ args[i] = a /\ a.key = key
            /\ \A j \in 1..i - 1 : args[j].key # key
      BY <2>2
    <3>2. ~(i < m)
      <4>1. i < m => i \in 1..m - 1 BY <1>0, <1>3 DEF FirstAt
      <4> QED BY <1>3, <3>1, <4>1 DEF FirstAt
    <3>3. ~(m < i)
      <4>1. m < i => m \in 1..i - 1 BY <1>0, <1>3 DEF FirstAt
      <4> QED BY <1>3, <3>1, <4>1 DEF FirstAt
    <3>4. i = m BY <1>0, <1>3, <3>2, <3>3 DEF FirstAt
    <3> QED BY <3>1, <3>4
  <2>3. FirstValue(args, key) = (CHOOSE a \in S : First(a)).value
    BY Zenon DEF FirstValue
  <2> HIDE DEF S, First
  <2>4. (CHOOSE a \in S : First(a)) = args[m] BY <2>1, <2>2
  <2> QED BY <2>3, <2>4
<1> QED BY <1>1, <1>2, <1>3

(* No argument before the first with a key has the mark of that key.       *)
LEMMA NotBeforeFirst ==
  ASSUME NEW f, NEW args, IsLine(f, args), AllArgs(args),
         NEW key \in ArgKeys, NEW m \in Nat, m <= Len(args),
         \A i \in 1..m : args[i].key # key
  PROVE  /\ NoMatch(Mark(key), Front(f, m)) /\ Even(Front(f, m))
         /\ Front(f, m) \in Text /\ Whole(Front(f, m))
<1>0. Len(args) \in Nat BY DEF IsLine
<1>1. \A i \in 1..m : IsArg(args[i]) BY <1>0 DEF AllArgs
<1>2. \A i \in 1..m : NoMatch(Mark(key), Spaced(args[i].text))
  BY <1>1 DEF IsArg
<1>3. \A i \in 1..m : Even(args[i].text) BY <1>1 DEF IsArg
<1>4. AKey(Mark(key)) BY MarkIs
<1>5. NoMatch(Mark(key), Front(f, m)) BY <1>2, <1>4, FrontNoMatch
<1>6. Even(Front(f, m)) BY <1>3, FrontEven
<1>7. Front(f, m) \in Text /\ Whole(Front(f, m)) BY FrontIs
<1> QED BY <1>5, <1>6, <1>7

(* Find finds something just when there is a match. *)
LEMMA FindFinds ==
  ASSUME NEW K \in Text, K # <<>>, NEW p \in Text, ~NoMatch(K, p)
  PROVE  Find(K, p) # 0
<1> DEFINE T == {k \in Nat : MatchAt(K, p, k)}
<1>1. T # {} /\ T \in SUBSET Nat BY DEF NoMatch
<1>2. PICK k \in T : \A j \in T : k <= j
  <2> HIDE DEF T
  <2> QED BY <1>1, LeastNat
<1>3. \A j \in Nat : j < k => ~MatchAt(K, p, j)
  <2> TAKE j \in Nat
  <2>1. MatchAt(K, p, j) => k <= j BY <1>2
  <2> QED BY <2>1
<1>4. FirstMatch(K, p, k) BY <1>3 DEF FirstMatch
<1>5. k # 0 BY DEF MatchAt
<1> QED BY <1>4, <1>5, FindIs

(* The line ends in no tab. *)
LEMMA NoTabEnds ==
  ASSUME NEW f, NEW args, IsLine(f, args), AllArgs(args)
  PROVE  /\ f[Len(args)] \in Text
         /\ TrimRight(f[Len(args)], {"\t"}) = f[Len(args)]
<1>0. Len(args) \in Nat BY DEF IsLine
<1>1. CASE Len(args) = 0
  <2>1. f[Len(args)] = <<>> /\ <<>> \in Text
    BY <1>1 DEF IsLine, LinesOf, Text
  <2> QED BY <2>1, NotTrimmed
<1>2. CASE Len(args) # 0
  <2>1. PICK n : n = Len(args) OBVIOUS
  <2>2. n \in 1..Len(args) /\ n \in Nat /\ n # 0 /\ n <= Len(args)
        /\ n - 1 \in Nat /\ n - 1 <= Len(args)
    BY <1>0, <1>2, <2>1
  <2>3. Grows(f, args, n) BY <2>2, FrontIs
  <2>4. PICK p \in Text : p = Front(f, n - 1) BY <2>3 DEF Grows
  <2>5. Whole(p) BY <2>2, <2>4, FrontIs
  <2>6. PICK t \in Text : t = args[n].text BY <2>3 DEF Grows
  <2>7. f[n] = p \o t BY <2>3, <2>4, <2>6 DEF Grows
  <2>8. Positions(t, {"\t"}) = {} BY <2>2, <2>6 DEF AllArgs, IsArg
  <2>9. PICK x : x = p \o t OBVIOUS
  <2>10. /\ x \in Text /\ Len(x) = Len(p) + Len(t)
         /\ \A i \in 1..Len(p) : x[i] = p[i]
         /\ \A i \in 1..Len(t) : x[Len(p) + i] = t[i]
    BY <2>9, TogetherIs
  <2>11. Len(p) \in Nat /\ Len(t) \in Nat BY DEF Text
  <2>12. x = <<>> \/ x[Len(x)] \notin {"\t"}
    <3>1. CASE Len(t) = 0
      <4>1. CASE Len(p) = 0 BY <2>10, <3>1, <4>1 DEF Text
      <4>2. CASE Len(p) # 0
        <5>1. Len(x) = Len(p) /\ Len(p) \in 1..Len(p) /\ p # <<>>
          BY <2>10, <2>11, <3>1, <4>2
        <5>2. x[Len(x)] = Space BY <2>5, <2>10, <5>1 DEF Whole
        <5>3. Space # "\t" BY DEF Space
        <5> QED BY <5>2, <5>3
      <4> QED BY <4>1, <4>2
    <3>2. CASE Len(t) # 0
      <4>1. Len(t) \in 1..Len(t) BY <2>11, <3>2
      <4>2. x[Len(x)] = t[Len(t)] BY <2>10, <4>1
      <4> QED BY <2>8, <4>1, <4>2 DEF Positions
    <3> QED BY <3>1, <3>2
  <2>13. TrimRight(x, {"\t"}) = x BY <2>10, <2>12, NotTrimmed
  <2> QED BY <2>1, <2>7, <2>9, <2>10, <2>13
<1> QED BY <1>1, <1>2

(* A flag is found just when it is given: whole, and nowhere else. *)
LEMMA FlagIsFound ==
  ASSUME NEW f, NEW args, IsLine(f, args), AllArgs(args), NEW key \in Flags
  PROVE  ArgGiven(key, f[Len(args)]) <=> Has(args, key)
<1>0. Len(args) \in Nat /\ args \in Seq(Argument) BY DEF IsLine
<1>1. key \in ArgKeys /\ Mark(key) = Spaced(key) BY DEF ArgKeys, Mark
<1>2. PICK K : K = Mark(key) OBVIOUS
<1>3. AKey(K) /\ \A j \in 1..Len(K) : Lower(K[j]) = K[j]
  BY <1>1, <1>2, MarkIs
<1>4. PICK x \in Text : x = f[Len(args)] BY NoTabEnds
<1>5. PICK y \in Text : y = Spaced(x) BY SpacedIs
<1>6. ArgGiven(key, x) <=> Find(K, y) # 0
  <2>1. TrimRight(x, {"\t"}) = x BY <1>4, NoTabEnds
  <2> QED BY <1>1, <1>2, <1>5, <2>1 DEF ArgGiven, Spaced
<1>7. ArgGiven(key, x) <=> ~NoMatch(K, y)
  <2>1. K \in Text /\ K # <<>> BY <1>3 DEF AKey
  <2> QED BY <1>6, <2>1, FindIs, FindFinds
<1>8. Len(args) # 0 => y = Front(f, Len(args)) BY <1>4, <1>5 DEF Front
<1>9. ASSUME ~Has(args, key) PROVE NoMatch(K, y)
  <2>1. \A i \in 1..Len(args) : args[i].key # key BY <1>9 DEF Has
  <2>2. NoMatch(K, Front(f, Len(args)))
    BY <1>0, <1>1, <1>2, <2>1, NotBeforeFirst
  <2>3. CASE Len(args) = 0
    <3>1. x = <<>> BY <1>4, <2>3 DEF IsLine, LinesOf
    <3>2. Len(y) = 1 BY <1>5, <3>1, SpacedIs
    <3>3. Len(K) \in Nat /\ Len(K) >= 2
      <4>1. key \in Text /\ Len(key) \in {1, 2} BY FlagIs
      <4>2. Len(K) = Len(key) + 1 BY <1>1, <1>2, <4>1, SpacedIs
      <4> QED BY <4>1, <4>2, SMTT(30)
    <3>4. ASSUME NEW k \in Nat PROVE ~MatchAt(K, y, k)
      <4>1. ~(k + Len(K) <= Len(y) + 1) \/ k = 0 BY <3>2, <3>3
      <4> QED BY <4>1 DEF MatchAt
    <3> QED BY <3>4 DEF NoMatch
  <2> QED BY <1>8, <2>2, <2>3
<1>10. ASSUME Has(args, key) PROVE ~NoMatch(K, y)
  <2>1. PICK m \in 1..Len(args) : args[m].key = key BY <1>10 DEF Has
  <2>2. IsArg(args[m]) BY DEF AllArgs
  <2>3. args[m].text = key BY <2>1, <2>2 DEF IsArg
  <2>4. m \in Nat /\ m # 0 /\ m <= Len(args) /\ m - 1 \in Nat
        /\ m - 1 <= Len(args)
    BY <1>0
  <2>5. Grows(f, args, m) BY <2>4, FrontIs
  <2>6. PICK p \in Text : p = Front(f, m - 1) BY <2>5 DEF Grows
  <2>7. Front(f, m) = p \o K
    BY <1>1, <1>2, <2>3, <2>5, <2>6 DEF Grows
  <2>8. Whole(p) BY <2>4, <2>6, FrontIs
  <2>9. PICK e \in Text : e = <<>>
    <3>1. <<>> \in Text BY DEF Text
    <3> QED BY <3>1
  <2>10. K \in Text BY <1>3 DEF AKey
  <2>11. K \o e = K BY <2>9, <2>10 DEF Text
  <2>12. MatchAt(K, K \o e, 1) BY <1>3, <2>10, MatchAtFront
  <2>13. PICK k : k = Len(p) + 1 OBVIOUS
  <2>14. k \in Nat /\ k > Len(p) /\ k - Len(p) = 1 BY <2>13 DEF Text
  <2>15. MatchAt(K, p \o K, k)
    BY <1>3, <2>8, <2>10, <2>11, <2>12, <2>14, MatchTogether
  <2>16. ~NoMatch(K, Front(f, m)) BY <2>7, <2>14, <2>15 DEF NoMatch
  <2>17. ~NoMatch(K, Front(f, Len(args))) BY <1>3, <2>4, <2>16, MatchStays
  <2>18. Len(args) # 0 BY <1>0
  <2> QED BY <1>8, <2>17, <2>18
<1> QED BY <1>4, <1>7, <1>9, <1>10

(* A keyword for a value that no argument has is not in the line. *)
LEMMA KeyNotThere ==
  ASSUME NEW f, NEW args, IsLine(f, args), AllArgs(args),
         NEW key \in {HostKey, PortKey}, ~Has(args, key)
  PROVE  Find(key, f[Len(args)]) = 0
<1>0. Len(args) \in Nat BY DEF IsLine
<1>1. key \in ArgKeys /\ Mark(key) = key
  <2>1. key \notin Flags
    <3>1. key[2] = "=" /\ Len(key) = 2 BY HostKeyIs, PortKeyIs DEF PortKey
    <3> QED BY <3>1 DEF Flags
  <2> QED BY <2>1 DEF ArgKeys, Mark
<1>2. AKey(key) /\ key[Len(key)] # Space BY HostKeyIs, PortKeyIs
<1>3. \A i \in 1..Len(args) : args[i].key # key BY DEF Has
<1>4. NoMatch(key, Front(f, Len(args)))
  BY <1>0, <1>1, <1>3, NotBeforeFirst
<1>5. PICK x \in Text : x = f[Len(args)] BY NoTabEnds
<1>6. NoMatch(key, x)
  <2>1. CASE Len(args) = 0
    <3>1. x = <<>> BY <1>5, <2>1 DEF IsLine, LinesOf
    <3>2. Front(f, Len(args)) = <<>> BY <2>1 DEF Front
    <3> QED BY <1>4, <3>1, <3>2
  <2>2. CASE Len(args) # 0
    <3>1. Front(f, Len(args)) = Spaced(x) BY <1>5, <2>2 DEF Front
    <3> QED BY <1>2, <1>4, <3>1, SpaceNoMatch
  <2> QED BY <2>1, <2>2
<1>7. key \in Text /\ key # <<>> BY <1>2 DEF AKey
<1> QED BY <1>5, <1>6, <1>7, FindIs

(* What stands before an argument and behind it, without the keyword in     *)
(* front of it.                                                            *)
Around(pre, K, post) ==
  /\ pre \in Text /\ Whole(pre) /\ Even(pre) /\ NoMatch(K, pre)
  /\ post \in Text
  /\ post = <<>> \/ post[1] = Space

(* A word that iArgGiven looks for. *)
IsWord(w) == w \in Text /\ AKey(w) /\ \A j \in 1..Len(w) : Lower(w[j]) = w[j]

IsNumber(v) == v \in Text /\ v # <<>> /\ \A i \in 1..Len(v) : v[i] \in Digits

(* BareHostIsRead, with what is around the argument in one. *)
LEMMA BareHostAround ==
  ASSUME NEW pre, NEW post, Around(pre, HostKey, post),
         NEW w, IsHostKey(w),
         NEW v, v \in Text, Positions(v, White \cup {Quote}) = {}
  PROVE  HostIs(pre \o ((w \o v) \o post), Cleaned(v))
BY BareHostIsRead DEF Around

(* QuotedHostIsRead, with what is around the argument in one. *)
LEMMA QuotedHostAround ==
  ASSUME NEW pre, NEW post, Around(pre, HostKey, post),
         NEW w, IsHostKey(w),
         NEW v, v \in Text, Positions(v, {"\t", Quote}) = {}
  PROVE  HostIs(pre \o ((w \o InQuotes(v)) \o post), Cleaned(InQuotes(v)))
BY QuotedHostIsRead DEF Around

(* TabbedHostIsNotRead, with what is around the argument in one. *)
LEMMA TabbedHostAround ==
  ASSUME NEW pre, NEW post, Around(pre, HostKey, post),
         NEW w, IsHostKey(w),
         NEW v, v \in Text, Positions(v, {Quote}) = {},
         Positions(v, {"\t"}) # {}
  PROVE  ReadWrong(pre \o ((w \o InQuotes(v)) \o post), v)
BY TabbedHostIsNotRead DEF Around

(* PortIsRead, with what is around the argument in one. *)
LEMMA PortAround ==
  ASSUME NEW w, IsWord(w), NEW pre, NEW post, Around(pre, w, post),
         NEW u, u \in {<<>>, <<"=">>}, NEW v, IsNumber(v)
  PROVE  PortIs(w, pre \o (((w \o u) \o v) \o post), Atoi(v))
BY PortIsRead DEF Around, IsWord, IsNumber

(* What stands before the first argument with a key, and behind it. *)
Stands(line, t, key, pre, post) ==
  line = pre \o (t \o post) /\ Around(pre, key, post)

(* The first argument with the key of a value stands like that. *)
LEMMA KeyStands ==
  ASSUME NEW f, NEW args, IsLine(f, args), AllArgs(args),
         NEW key \in {HostKey, PortKey}, NEW m, FirstAt(args, key, m)
  PROVE  \E pre, post :
           Stands(f[Len(args)], args[m].text, key, pre, post)
<1>0. Len(args) \in Nat BY DEF IsLine
<1>1. key \in ArgKeys /\ Mark(key) = key
  <2>1. key \notin Flags
    <3>1. key[2] = "=" /\ Len(key) = 2 BY HostKeyIs, PortKeyIs DEF PortKey
    <3> QED BY <3>1 DEF Flags
  <2> QED BY <2>1 DEF ArgKeys, Mark
<1>2. m \in 1..Len(args) /\ \A j \in 1..m - 1 : args[j].key # key
  BY DEF FirstAt
<1>3. PICK n : n = m - 1 OBVIOUS
<1>4. n \in Nat /\ n <= Len(args) BY <1>0, <1>2, <1>3
<1>5. /\ NoMatch(key, Front(f, n)) /\ Even(Front(f, n))
      /\ Front(f, n) \in Text /\ Whole(Front(f, n))
  BY <1>1, <1>2, <1>3, <1>4, NotBeforeFirst
<1>6. PICK post \in Text :
        /\ post = <<>> \/ post[1] = Space
        /\ f[Len(args)] = Front(f, n) \o (args[m].text \o post)
  <2>1. IsBehind(f[Len(args)], Front(f, m - 1), args[m].text)
    BY <1>2, LineHas
  <2> QED BY <1>3, <2>1 DEF IsBehind
<1>7. Stands(f[Len(args)], args[m].text, key, Front(f, n), post)
  BY <1>5, <1>6, <1>1 DEF Stands, Around
<1> QED BY <1>7

(* How an argument in quotes is written. *)
LEMMA QuotedIs ==
  ASSUME NEW w \in Text, NEW v \in Text
  PROVE  Quoted(w, v).text = w \o InQuotes(v)
<1>1. PICK o : o = <<Quote>> OBVIOUS
<1>2. o \in Text BY <1>1, InQuotesIs
<1>3. PICK x : x = o \o v OBVIOUS
<1>4. x \in Text BY <1>2, <1>3, TogetherIs
<1>5. (w \o o) \o v = w \o x BY <1>2, <1>3, TogetherAssoc
<1>6. (w \o x) \o o = w \o (x \o o) BY <1>2, <1>4, TogetherAssoc
<1>7. x \o o = InQuotes(v) BY <1>1, <1>3 DEF InQuotes
<1>8. Quoted(w, v).text = ((w \o o) \o v) \o o BY <1>1 DEF Quoted
<1> QED BY <1>5, <1>6, <1>7, <1>8

(* The host of the first argument for it is the one that is read. *)
LEMMA HostIsFound ==
  ASSUME NEW f, NEW args, IsLine(f, args), AllArgs(args),
         Has(args, HostKey)
  PROVE  /\ strArgGiven(HostKey, f[Len(args)])
              = [given |-> TRUE, text |-> FirstValue(args, HostKey)]
         /\ FirstValue(args, HostKey) # <<>>
<1>0. args \in Seq(Argument) BY DEF IsLine
<1>1. PICK m : FirstAt(args, HostKey, m) BY <1>0, FirstIs
<1>2. PICK pre, post :
        Stands(f[Len(args)], args[m].text, HostKey, pre, post)
  BY <1>1, KeyStands
<1>3. FirstValue(args, HostKey) = args[m].value BY <1>0, <1>1, FirstIs
<1>4. PICK a : a = args[m] OBVIOUS
<1>5. IsArg(a) /\ a.key = HostKey BY <1>1, <1>4 DEF FirstAt, AllArgs
<1>6. PICK v \in Text : v # <<>> /\ (IsBareHost(a, v) \/ IsQuotedHost(a, v))
  BY <1>5 DEF IsArg
<1>7. Around(pre, HostKey, post) /\ f[Len(args)] = pre \o (a.text \o post)
  BY <1>2, <1>4 DEF Stands
<1>8. CASE IsBareHost(a, v)
  <2>1. a.text = HostKey \o v /\ a.value = v
        /\ Positions(v, White \cup {Quote}) = {} /\ Survives(v)
    BY <1>8 DEF IsBareHost, Bare
  <2>2. HostIs(pre \o ((HostKey \o v) \o post), Cleaned(v))
    BY <1>7, <2>1, HostKeyIs, BareHostAround
  <2>3. Cleaned(v) = v BY <2>1, CleanedBare
  <2> QED BY <1>3, <1>4, <1>6, <1>7, <2>1, <2>2, <2>3 DEF HostIs
<1>9. CASE IsQuotedHost(a, v)
  <2>1. a = Quoted(HostKey, v) /\ Positions(v, {Quote}) = {} /\ Survives(v)
    BY <1>9 DEF IsQuotedHost
  <2>2. Positions(v, {"\t", Quote}) = {} BY <2>1 DEF Survives, Positions
  <2>3. HostKey \in Text BY HostKeyIs DEF AKey
  <2>4. a.text = HostKey \o InQuotes(v) BY <2>1, <2>3, QuotedIs
  <2>5. a.value = v BY <2>1 DEF Quoted
  <2>6. HostIs(pre \o ((HostKey \o InQuotes(v)) \o post),
               Cleaned(InQuotes(v)))
    BY <1>7, <2>2, HostKeyIs, QuotedHostAround
  <2>7. Cleaned(InQuotes(v)) = v BY <2>1, <2>2, CleanedQuoted
  <2> QED BY <1>3, <1>4, <1>6, <1>7, <2>4, <2>5, <2>6, <2>7 DEF HostIs
<1> QED BY <1>6, <1>8, <1>9

(* The port of the first argument for it is the one that is read, and none *)
(* is read without one.                                                    *)
LEMMA PortIsFound ==
  ASSUME NEW f, NEW args, IsLine(f, args), AllArgs(args)
  PROVE  /\ Has(args, PortKey) =>
              /\ iArgGiven(PortKey, f[Len(args)])
                   = Atoi(FirstValue(args, PortKey))
              /\ iArgGiven(PortKey, f[Len(args)]) # 0
         /\ ~Has(args, PortKey) => iArgGiven(PortKey, f[Len(args)]) = 0
<1>0. args \in Seq(Argument) BY DEF IsLine
<1>1. ASSUME Has(args, PortKey)
      PROVE  /\ iArgGiven(PortKey, f[Len(args)])
                  = Atoi(FirstValue(args, PortKey))
             /\ iArgGiven(PortKey, f[Len(args)]) # 0
  <2>1. PICK m : FirstAt(args, PortKey, m) BY <1>0, <1>1, FirstIs
  <2>2. PICK pre, post :
          Stands(f[Len(args)], args[m].text, PortKey, pre, post)
    BY <2>1, KeyStands
  <2>3. FirstValue(args, PortKey) = args[m].value BY <1>0, <2>1, FirstIs
  <2>4. PICK a : a = args[m] OBVIOUS
  <2>5. IsArg(a) /\ a.key = PortKey BY <2>1, <2>4 DEF FirstAt, AllArgs
  <2>6. PICK v \in Text : v # <<>> /\ IsPort(a, v) BY <2>5 DEF IsArg
  <2>7. Around(pre, PortKey, post) /\ f[Len(args)] = pre \o (a.text \o post)
    BY <2>2, <2>4 DEF Stands
  <2>8. a.text = PortKey \o v /\ a.value = v BY <2>6 DEF IsPort, Bare
  <2>9. IsNumber(v) /\ Atoi(v) # 0 BY <2>6 DEF IsPort, IsNumber
  <2>10. PICK u : u = <<>> /\ u \in {<<>>, <<"=">>} OBVIOUS
  <2>11. IsWord(PortKey) BY PortKeyIs DEF IsWord, AKey
  <2>12. PortKey \o u = PortKey BY <2>10, <2>11 DEF IsWord, Text
  <2>13. PortIs(PortKey, pre \o (((PortKey \o u) \o v) \o post), Atoi(v))
    BY <2>7, <2>9, <2>10, <2>11, PortAround
  <2>14. iArgGiven(PortKey, f[Len(args)]) = Atoi(v)
    BY <2>7, <2>8, <2>12, <2>13 DEF PortIs
  <2> QED BY <2>3, <2>4, <2>8, <2>9, <2>14
<1>2. ASSUME ~Has(args, PortKey)
      PROVE  iArgGiven(PortKey, f[Len(args)]) = 0
  <2>1. Find(PortKey, f[Len(args)]) = 0 BY <1>2, KeyNotThere
  <2>2. Positions(PortKey, {"="}) # {} BY PortKeyIs
  <2> QED BY <2>1, <2>2, Zenon DEF iArgGiven
<1> QED BY <1>1, <1>2

(* The command line has precedence over the file, for every number and     *)
(* order of arguments, and whatever the values are.                        *)
THEOREM PrecedenceIsKept ==
  ASSUME NEW args \in Seq(Argument), AllArgs(args), NEW me, me # <<>>,
         NEW host, NEW base
  PROVE  ArgsHavePrecedence(args, me, host, base)
<1>1. PICK f : IsLine(f, args) /\ LineOf(args) = f[Len(args)] BY LineIs
<1>2. PICK line : line = LineOf(args) OBVIOUS
<1>3. /\ <<"/localhost">> \in Flags /\ <<"/host", "name">> \in Flags
      /\ <<"/hawk">> \in Flags
  BY DEF Flags
<1>4. \A key \in Flags : ArgGiven(key, line) <=> Has(args, key)
  BY <1>1, <1>2, FlagIsFound
<1>5. Has(args, HostKey) =>
        /\ strArgGiven(HostKey, line)
             = [given |-> TRUE, text |-> FirstValue(args, HostKey)]
        /\ FirstValue(args, HostKey) # <<>>
  BY <1>1, <1>2, HostIsFound
<1>6. ~Has(args, HostKey) => ~strArgGiven(HostKey, line).given
  <2>1. ~Has(args, HostKey) => Find(HostKey, line) = 0
    BY <1>1, <1>2, KeyNotThere
  <2>2. Find(HostKey, line) = 0 =>
          strArgGiven(HostKey, line) = [given |-> FALSE, text |-> <<>>]
    BY Zenon DEF strArgGiven
  <2> QED BY <2>1, <2>2
<1> DEFINE loc  == <<"localhost">>
           H(x) == x \in HostsGiven(args, me)
<1>7. /\ Has(args, HostKey) => H(FirstValue(args, HostKey))
      /\ Has(args, <<"/localhost">>) => H(loc)
      /\ Has(args, <<"/hawk">>) => H(loc)
      /\ Has(args, <<"/host", "name">>) => H(me)
  BY DEF HostsGiven
<1>8. ~Has(args, HostKey) /\ ~Has(args, <<"/localhost">>)
      /\ ~Has(args, <<"/hawk">>) /\ ~Has(args, <<"/host", "name">>)
      => HostsGiven(args, me) = {}
  BY DEF HostsGiven
<1>9. getVibCtlHostEx(line, me, host) \in
        IF HostsGiven(args, me) = {} THEN {host} ELSE HostsGiven(args, me)
  <2>1. loc # <<>> OBVIOUS
  <2>2. PICK cmd : cmd = getVibCtlHostFromCmdLine(line, me) OBVIOUS
  <2>3. getVibCtlHostEx(line, me, host) =
          IF Has(args, <<"/hawk">>) THEN loc
          ELSE IF cmd # <<>> THEN cmd ELSE host
    BY <1>3, <1>4, <2>2 DEF getVibCtlHostEx
  <2>4. CASE Has(args, <<"/hawk">>)
    <3>1. getVibCtlHostEx(line, me, host) = loc BY <2>3, <2>4
    <3> HIDE DEF H, loc
    <3> QED BY <1>7, <2>4, <3>1 DEF H
  <2>5. CASE ~Has(args, <<"/hawk">>) /\ Has(args, HostKey)
    <3>1. cmd = FirstValue(args, HostKey)
      BY <1>5, <2>2, <2>5 DEF getVibCtlHostFromCmdLine
    <3>2. getVibCtlHostEx(line, me, host) = FirstValue(args, HostKey)
      BY <1>5, <2>3, <2>5, <3>1
    <3> QED BY <1>7, <2>5, <3>2
  <2>6. CASE /\ ~Has(args, <<"/hawk">>) /\ ~Has(args, HostKey)
             /\ Has(args, <<"/localhost">>)
    <3>1. cmd = loc
      BY <1>3, <1>4, <1>6, <2>2, <2>6 DEF getVibCtlHostFromCmdLine
    <3>2. getVibCtlHostEx(line, me, host) = loc BY <2>1, <2>3, <2>6, <3>1
    <3> HIDE DEF H, loc
    <3> QED BY <1>7, <2>6, <3>2 DEF H
  <2>7. CASE /\ ~Has(args, <<"/hawk">>) /\ ~Has(args, HostKey)
             /\ ~Has(args, <<"/localhost">>) /\ Has(args, <<"/host", "name">>)
    <3>1. cmd = me
      BY <1>3, <1>4, <1>6, <2>2, <2>7 DEF getVibCtlHostFromCmdLine
    <3>2. getVibCtlHostEx(line, me, host) = me BY <2>3, <2>7, <3>1
    <3> QED BY <1>7, <2>7, <3>2
  <2>8. CASE /\ ~Has(args, <<"/hawk">>) /\ ~Has(args, HostKey)
             /\ ~Has(args, <<"/localhost">>)
             /\ ~Has(args, <<"/host", "name">>)
    <3>1. cmd = <<>>
      BY <1>3, <1>4, <1>6, <2>2, <2>8 DEF getVibCtlHostFromCmdLine
    <3>2. getVibCtlHostEx(line, me, host) = host BY <2>3, <2>8, <3>1
    <3> QED BY <1>8, <2>8, <3>2
  <2> QED BY <2>4, <2>5, <2>6, <2>7, <2>8
<1>10. getVibControllerPortEx(line, 1, base) =
         IF Has(args, PortKey) THEN Atoi(FirstValue(args, PortKey))
         ELSE base + 1
  BY <1>1, <1>2, PortIsFound DEF getVibControllerPortEx
<1> QED BY <1>2, <1>9, <1>10 DEF ArgsHavePrecedence

-----------------------------------------------------------------------------
(* One argument between two others *)

(* What stands before and behind the argument: closed quotes, and neither  *)
(* the host nor the port.                                                  *)
IsOther(a) ==
  /\ a \in Argument /\ Even(a.text)
  /\ NoMatch(HostKey, a.text) /\ NoMatch(<<"/port">>, a.text)

(* Between two others, the argument stands as if it were the first.        *)
LEMMA StandsBetween ==
  ASSUME NEW before, IsOther(before), NEW behind, IsOther(behind),
         NEW a, a \in Argument,
         NEW K, AKey(K), K[Len(K)] # Space, NoMatch(K, before.text)
  PROVE  \E pre, post :
           Stands(LineOf(<<before, a, behind>>), a.text, K, pre, post)
<1>1. PICK args : args = <<before, a, behind>> OBVIOUS
<1>2. before \in Argument /\ behind \in Argument BY DEF IsOther
<1>3. /\ args \in Seq(Argument) /\ Len(args) = 3
      /\ args[1] = before /\ args[2] = a
  BY <1>1, <1>2
<1>4. PICK f : IsLine(f, args) /\ LineOf(args) = f[Len(args)]
  BY <1>3, LineIs
<1>5. PICK m : m = 1 OBVIOUS
<1>6. m \in Nat /\ m <= Len(args) /\ \A i \in 1..m : args[i] = before
  BY <1>3, <1>5
<1>7. \A i \in 1..m : Even(args[i].text) BY <1>6 DEF IsOther
<1>8. \A i \in 1..m : NoMatch(K, Spaced(args[i].text))
  <2>1. before.text \in Text BY <1>2 DEF Argument
  <2>2. NoMatch(K, Spaced(before.text)) BY <2>1, SpaceNoMatch
  <2> QED BY <1>6, <2>2
<1>9. Even(Front(f, m)) BY <1>4, <1>6, <1>7, FrontEven
<1>10. NoMatch(K, Front(f, m)) BY <1>4, <1>6, <1>8, FrontNoMatch
<1>11. Front(f, m) \in Text /\ Whole(Front(f, m)) BY <1>4, <1>6, FrontIs
<1>12. PICK post \in Text :
         /\ post = <<>> \/ post[1] = Space
         /\ f[Len(args)] = Front(f, m) \o (a.text \o post)
  <2>1. PICK n : n = 2 OBVIOUS
  <2>2. n \in 1..Len(args) /\ n - 1 = m /\ args[n] = a
    BY <1>3, <1>5, <2>1
  <2>3. IsBehind(f[Len(args)], Front(f, n - 1), args[n].text)
    BY <1>4, <2>2, LineHas
  <2> QED BY <2>2, <2>3 DEF IsBehind
<1>13. Around(Front(f, m), K, post) BY <1>9, <1>10, <1>11, <1>12 DEF Around
<1> QED BY <1>1, <1>4, <1>12, <1>13 DEF Stands

(* A bare argument is an argument. *)
LEMMA BareIs ==
  ASSUME NEW k, k \in Text, NEW v, v \in Text
  PROVE  Bare(k, v) \in Argument /\ Bare(k, v).text = k \o v
<1>1. k \o v \in Text BY TogetherIs
<1> QED BY <1>1 DEF Bare, Argument

(* The port's keyword with the "=" or without. *)
LEMMA PortWordIs ==
  /\ IsWord(<<"/port">>) /\ Len(<<"/port">>) = 1 /\ <<"/port">>[1] # Space
  /\ PortKey = <<"/port">> \o <<"=">> /\ <<"/port">> = <<"/port">> \o <<>>
<1>1. <<"/port">> \in Text BY DEF Text, Symbols
<1>2. Lower("/port") = "/port" BY DEF Lower
<1>3. "/port" # Space BY DEF Space
<1>4. (\A j \in 1..1 : j = 1) /\ (\A j \in 1..1 - 1 : FALSE) OBVIOUS
<1>5. IsWord(<<"/port">>) BY <1>1, <1>2, <1>4 DEF IsWord, AKey
<1>6. PortKey = <<"/port">> \o <<"=">> BY DEF PortKey
<1> QED BY <1>3, <1>5, <1>6

(* The value of a host is read just as it was written if it survives, and  *)
(* otherwise not, and a port is read, for every value and whatever other   *)
(* arguments stand before and behind.                                      *)
THEOREM ValueIsAlwaysRead ==
  ASSUME NEW v, v \in Text,
         NEW before, IsOther(before), NEW behind, IsOther(behind)
  PROVE  ValueIsRead(v, before, behind)
<1> DEFINE Line(arg) == LineOf(<<before, arg, behind>>)
<1>1. ASSUME Positions(v, White \cup {Quote}) = {}
      PROVE  strArgGiven(HostKey, Line(Bare(<<"/HOST", "=">>, v))).text = v
               <=> Survives(v)
  <2>1. PICK w : w = <<"/HOST", "=">> OBVIOUS
  <2>2. IsHostKey(w) /\ w \in Text BY <2>1, HostKeyIs DEF IsHostKey
  <2>3. PICK a : a = Bare(w, v) OBVIOUS
  <2>4. a \in Argument /\ a.text = w \o v BY <2>2, <2>3, BareIs
  <2>5. NoMatch(HostKey, before.text) BY DEF IsOther
  <2>6. PICK pre, post : Stands(Line(a), a.text, HostKey, pre, post)
    BY <2>4, <2>5, HostKeyIs, StandsBetween
  <2>7. Line(a) = pre \o (a.text \o post) /\ Around(pre, HostKey, post)
    BY <2>6 DEF Stands
  <2>8. HostIs(pre \o ((w \o v) \o post), Cleaned(v))
    BY <1>1, <2>2, <2>7, BareHostAround
  <2> HIDE DEF Line
  <2>9. HostIs(Line(a), Cleaned(v)) BY <2>4, <2>7, <2>8
  <2>10. Cleaned(v) = v <=> Survives(v) BY <1>1, CleanedBare
  <2> QED BY <2>1, <2>3, <2>9, <2>10 DEF HostIs
<1>2. ASSUME Positions(v, {Quote}) = {}
      PROVE  strArgGiven(HostKey, Line(Quoted(HostKey, v))).text = v
               <=> Survives(v)
  <2>1. IsHostKey(HostKey) /\ HostKey \in Text
    BY HostKeyIs DEF IsHostKey
  <2>2. PICK a : a = Quoted(HostKey, v) OBVIOUS
  <2>3. a.text = HostKey \o InQuotes(v) BY <2>1, <2>2, QuotedIs
  <2>4. a \in Argument
    <3>1. InQuotes(v) \in Text BY InQuotesIs
    <3>2. HostKey \o InQuotes(v) \in Text BY <2>1, <3>1, TogetherIs
    <3>3. PICK t \in Text : t = a.text BY <2>3, <3>2
    <3>4. a = [text |-> a.text, key |-> HostKey, value |-> v]
      BY <2>2 DEF Quoted
    <3>5. a = [text |-> t, key |-> HostKey, value |-> v] BY <3>3, <3>4
    <3>6. [text |-> t, key |-> HostKey, value |-> v] \in Argument
      BY <2>1 DEF Argument
    <3> QED BY <3>5, <3>6
  <2>5. NoMatch(HostKey, before.text) BY DEF IsOther
  <2>6. PICK pre, post : Stands(Line(a), a.text, HostKey, pre, post)
    BY <2>4, <2>5, HostKeyIs, StandsBetween
  <2>7. Line(a) = pre \o (a.text \o post) /\ Around(pre, HostKey, post)
    BY <2>6 DEF Stands
  <2> HIDE DEF Line
  <2>8. Line(a) = pre \o ((HostKey \o InQuotes(v)) \o post) BY <2>3, <2>7
  <2>9. CASE Positions(v, {"\t"}) = {}
    <3>1. Positions(v, {"\t", Quote}) = {} BY <1>2, <2>9 DEF Positions
    <3>2. HostIs(Line(a), Cleaned(InQuotes(v)))
      BY <2>1, <2>7, <2>8, <3>1, QuotedHostAround
    <3>3. Cleaned(InQuotes(v)) = v <=> Survives(v) BY <3>1, CleanedQuoted
    <3> QED BY <2>2, <3>2, <3>3 DEF HostIs
  <2>10. CASE Positions(v, {"\t"}) # {}
    <3>1. ReadWrong(pre \o ((HostKey \o InQuotes(v)) \o post), v)
      BY <1>2, <2>1, <2>7, <2>10, TabbedHostAround
    <3>2. ReadWrong(Line(a), v) BY <2>8, <3>1
    <3>3. PICK t : HostIs(Line(a), t) /\ t # v BY <3>2 DEF ReadWrong
    <3>4. ~Survives(v) BY <2>10 DEF Survives
    <3> QED BY <2>2, <3>3, <3>4 DEF HostIs
  <2> QED BY <2>9, <2>10
<1>3. ASSUME NEW key \in {PortKey, <<"/port">>}, v # <<>>,
             Positions(v, {"0", "1"}) = 1..Len(v)
      PROVE  iArgGiven(<<"/port">>, Line(Bare(key, v))) = Atoi(v)
  <2>1. PICK w : w = <<"/port">> OBVIOUS
  <2>2. IsWord(w) /\ AKey(w) /\ w[Len(w)] # Space
    BY <2>1, PortWordIs DEF IsWord
  <2>3. PICK u : u \in {<<>>, <<"=">>} /\ key = w \o u
    <3>1. key = PortKey => key = w \o <<"=">> BY <2>1, PortWordIs
    <3>2. key = <<"/port">> => key = w \o <<>> BY <2>1, PortWordIs
    <3> QED BY <3>1, <3>2
  <2>4. key \in Text BY PortKeyIs, PortWordIs DEF AKey, IsWord
  <2>5. PICK a : a = Bare(key, v) OBVIOUS
  <2>6. a \in Argument /\ a.text = key \o v BY <2>4, <2>5, BareIs
  <2>7. NoMatch(w, before.text) BY <2>1 DEF IsOther
  <2>8. PICK pre, post : Stands(Line(a), a.text, w, pre, post)
    BY <2>2, <2>6, <2>7, StandsBetween
  <2>9. Line(a) = pre \o (a.text \o post) /\ Around(pre, w, post)
    BY <2>8 DEF Stands
  <2>10. IsNumber(v)
    <3>1. \A i \in 1..Len(v) : v[i] \in Digits
      BY <1>3 DEF Positions, Digits
    <3> QED BY <1>3, <3>1 DEF IsNumber
  <2>11. PortIs(w, pre \o (((w \o u) \o v) \o post), Atoi(v))
    BY <2>2, <2>3, <2>9, <2>10, PortAround
  <2> HIDE DEF Line
  <2>12. PortIs(w, Line(a), Atoi(v)) BY <2>3, <2>6, <2>9, <2>11
  <2> QED BY <2>1, <2>5, <2>12 DEF PortIs
<1> QED BY <1>1, <1>2, <1>3, Zenon DEF ValueIsRead
=============================================================================
