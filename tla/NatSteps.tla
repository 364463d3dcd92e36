------------------------------ MODULE NatSteps ------------------------------
(***************************************************************************)
(* Induction over the naturals stated about a set, so that the provers can *)
(* apply it: the theorems of NaturalsInduction take an operator.           *)
(***************************************************************************)
EXTENDS Integers, WellFoundedInduction, TLAPS

(* A set of naturals that is not empty has a least element. *)
LEMMA LeastNat ==
  ASSUME NEW T \in SUBSET Nat, T # {}
  PROVE  \E x \in T : \A y \in T : x <= y
<1>1. PICK R : R = OpToRel(<, Nat) OBVIOUS
<1>2. \A x, y \in Nat : y < x => <<y, x>> \in R BY <1>1 DEF OpToRel
<1>3. IsWellFoundedOn(R, Nat) BY <1>1, NatLessThanWellFounded
<1>4. PICK x \in T : \A y \in T : ~(<<y, x>> \in R) BY <1>3, WFMin
<1>5. \A y \in T : x <= y
  <2> TAKE y \in T
  <2>1. x \in Nat /\ y \in Nat OBVIOUS
  <2>2. ~(y < x) BY <1>2, <1>4, <2>1
  <2> QED BY <2>1, <2>2
<1> QED BY <1>5

(* A set of naturals that has 0 and every successor has all naturals. *)
LEMMA NatSteps ==
  ASSUME NEW T \in SUBSET Nat, 0 \in T, \A n \in T : n + 1 \in T
  PROVE  T = Nat
<1>1. SUFFICES ASSUME Nat \ T # {} PROVE FALSE OBVIOUS
<1>2. PICK x \in Nat \ T : \A y \in Nat \ T : x <= y BY <1>1, LeastNat
<1>3. x # 0 /\ x - 1 \in Nat /\ ~(x <= x - 1) OBVIOUS
<1>4. x - 1 \in T BY <1>2, <1>3
<1>5. (x - 1) + 1 \in T BY <1>4
<1> QED BY <1>5

(* f has a at 0, and at n what G gives of n and its value at n - 1. *)
Follows(f, a, G, N) == f[0] = a /\ \A n \in 1..N : f[n] = G[<<n, f[n - 1]>>]

HasCourse(V, a, G, N) == \E f \in [0..N -> V] : Follows(f, a, G, N)

(* The function that a recursive definition over 0..N speaks of exists. *)
LEMMA RecursionExists ==
  ASSUME NEW V, NEW a \in V, NEW G \in [Nat \X V -> V], NEW N \in Nat
  PROVE  HasCourse(V, a, G, N)
<1> DEFINE Is(f, k) ==
             /\ f \in [0..k -> V]
             /\ f = [n \in 0..k |-> IF n = 0 THEN a ELSE G[<<n, f[n - 1]>>]]
           T == {k \in Nat : \E f : Is(f, k)}
<1>1. 0 \in T
  <2>1. Is([n \in 0..0 |-> a], 0) OBVIOUS
  <2> QED BY <2>1
<1>2. ASSUME NEW k \in T PROVE k + 1 \in T
  <2>1. PICK f : Is(f, k) BY <1>2
  <2> DEFINE g == [n \in 0..k + 1 |-> IF n = k + 1 THEN G[<<k + 1, f[k]>>]
                                      ELSE f[n]]
  <2>2. f \in [0..k -> V] /\ k \in Nat BY <2>1, <1>2
  <2>3. G[<<k + 1, f[k]>>] \in V
    <3>1. f[k] \in V BY <2>2
    <3>2. <<k + 1, f[k]>> \in Nat \X V BY <2>2, <3>1
    <3> QED BY <3>2
  <2>4. g \in [0..k + 1 -> V] BY <2>2, <2>3
  <2>5. ASSUME NEW n \in 0..k + 1
        PROVE  g[n] = IF n = 0 THEN a ELSE G[<<n, g[n - 1]>>]
    <3>1. CASE n = k + 1
      <4>1. n # 0 /\ n - 1 = k /\ n - 1 \in 0..k + 1 /\ n - 1 # k + 1
        BY <2>2, <3>1
      <4>2. g[n - 1] = f[k] BY <4>1
      <4>3. g[n] = G[<<k + 1, f[k]>>] BY <3>1
      <4> QED BY <3>1, <4>1, <4>2, <4>3
    <3>2. CASE n # k + 1
      <4>1. n \in 0..k BY <2>2, <3>2
      <4>2. g[n] = f[n] BY <3>2
      <4>3. f[n] = IF n = 0 THEN a ELSE G[<<n, f[n - 1]>>] BY <2>1, <4>1
      <4>4. n # 0 => g[n - 1] = f[n - 1] BY <2>2, <4>1
      <4> QED BY <4>2, <4>3, <4>4
    <3> QED BY <3>1, <3>2
  <2> HIDE DEF g
  <2>6. g = [n \in 0..k + 1 |-> g[n]] BY <2>4
  <2>7. g = [n \in 0..k + 1 |-> IF n = 0 THEN a ELSE G[<<n, g[n - 1]>>]]
    BY <2>5, <2>6
  <2>8. Is(g, k + 1) BY <2>4, <2>7
  <2>9. k + 1 \in Nat BY <2>2
  <2> HIDE DEF Is
  <2> QED BY <2>8, <2>9
<1>3. T = Nat
  <2> HIDE DEF T
  <2>1. T \subseteq Nat BY DEF T
  <2> QED BY <1>1, <1>2, <2>1, NatSteps
<1>4. PICK f : Is(f, N) BY <1>3
<1>5. f[0] = a
  <2>1. 0 \in 0..N OBVIOUS
  <2> QED BY <1>4, <2>1
<1>6. ASSUME NEW n \in 1..N PROVE f[n] = G[<<n, f[n - 1]>>]
  <2>1. n \in 0..N /\ n # 0 OBVIOUS
  <2> QED BY <1>4, <2>1
<1> QED BY <1>4, <1>5, <1>6 DEF HasCourse, Follows
=============================================================================
