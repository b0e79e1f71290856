----------------------------- MODULE SumsProofs -----------------------------
EXTENDS Sums, NaturalsInduction, WellFoundedInduction, TLAPS

(* s holds the partial sums of f[1], ..., f[n]. *)
IsUpTo(s, f, n) == s = [i \in 0..n |-> IF i = 0 THEN 0 ELSE s[i - 1] + f[i]]

(* A nonempty set of natural numbers has a least element: the induction that *)
(* the proofs below use, as the absence of a least counterexample.             *)
LEMMA Least ==
  ASSUME NEW T, T \subseteq Nat, T # {}
  PROVE  \E x \in T : \A y \in T : ~ (y < x)
<1>1. PICK x \in T : \A y \in T : ~ (<<y, x>> \in OpToRel(<, Nat))
  BY NatLessThanWellFounded, WFMin
<1>2. \A y \in T : <<y, x>> \in OpToRel(<, Nat) <=> y < x
  BY DEF OpToRel
<1> QED BY <1>1, <1>2

(* Every function on 1..n has partial sums up to n. *)
LEMMA UpToExists ==
  ASSUME NEW n \in Nat, NEW f \in [1..n -> Int]
  PROVE  \A m \in 0..n : \E s \in [0..m -> Int] : IsUpTo(s, f, m)
<1> DEFINE Bad == {m \in 0..n : ~ \E s \in [0..m -> Int] : IsUpTo(s, f, m)}
<1> SUFFICES ASSUME Bad # {} PROVE FALSE
  OBVIOUS
<1>1. PICK m \in Bad : \A y \in Bad : ~ (y < m)
  <2>1. Bad \subseteq Nat
    OBVIOUS
  <2> HIDE DEF Bad
  <2> QED BY <2>1, Least
<1>2. CASE m = 0
  <2> DEFINE z == [i \in 0..0 |-> 0]
  <2>1. z \in [0..m -> Int] /\ IsUpTo(z, f, m)
    BY <1>2 DEF IsUpTo
  <2> QED BY <2>1, <1>1
<1>3. CASE m # 0
  <2>1. m - 1 \in 0..n /\ m - 1 \notin Bad
    BY <1>1, <1>3
  <2>2. PICK s \in [0..(m - 1) -> Int] : IsUpTo(s, f, m - 1)
    BY <2>1
  <2> DEFINE g == [i \in 0..m |-> IF i = m THEN s[m - 1] + f[m] ELSE s[i]]
  <2>3. g \in [0..m -> Int]
    BY <1>1, <1>3
  <2>4. \A i \in 0..m : g[i] = IF i = 0 THEN 0 ELSE g[i - 1] + f[i]
    <3> SUFFICES ASSUME NEW i \in 0..m PROVE g[i] = IF i = 0 THEN 0 ELSE g[i - 1] + f[i]
      OBVIOUS
    <3>1. \A j \in 0..(m - 1) : s[j] = IF j = 0 THEN 0 ELSE s[j - 1] + f[j]
      BY <2>2 DEF IsUpTo
    <3>2. CASE i = m
      <4>1. g[i] = s[m - 1] + f[m] /\ g[i - 1] = s[m - 1]
        BY <3>2, <1>3, <1>1
      <4> QED BY <4>1, <3>2, <1>3
    <3>3. CASE i # m
      <4>1. i \in 0..(m - 1) /\ (i # 0 => i - 1 \in 0..(m - 1))
        BY <3>3, <1>1
      <4>2. g[i] = s[i] /\ (i # 0 => g[i - 1] = s[i - 1])
        BY <4>1, <3>3, <1>1
      <4> QED BY <4>1, <4>2, <3>1
    <3> QED BY <3>2, <3>3
  <2>5. IsUpTo(g, f, m)
    BY <2>4 DEF IsUpTo
  <2> QED BY <2>3, <2>5, <1>1
<1> QED BY <1>2, <1>3

(* Partial sums are determined by the function. *)
LEMMA UpToUnique ==
  ASSUME NEW n \in Nat, NEW f \in [1..n -> Int], NEW s, NEW t,
         IsUpTo(s, f, n), IsUpTo(t, f, n)
  PROVE  s = t
<1> DEFINE Bad == {i \in 0..n : s[i] # t[i]}
<1>1. /\ s = [i \in 0..n |-> IF i = 0 THEN 0 ELSE s[i - 1] + f[i]]
      /\ t = [i \in 0..n |-> IF i = 0 THEN 0 ELSE t[i - 1] + f[i]]
  BY DEF IsUpTo
<1>2. SUFFICES ASSUME Bad # {} PROVE FALSE
  <2>1. Bad = {} => \A i \in 0..n : s[i] = t[i]
    OBVIOUS
  <2> QED BY <2>1, <1>1
<1>3. PICK i \in Bad : \A j \in Bad : ~ (j < i)
  <2>1. Bad \subseteq Nat
    OBVIOUS
  <2> HIDE DEF Bad
  <2> QED BY <2>1, <1>2, Least
<1>4. i # 0
  BY <1>1, <1>3
<1>5. i - 1 \in 0..n /\ i - 1 \notin Bad
  BY <1>3, <1>4
<1>6. s[i] = s[i - 1] + f[i] /\ t[i] = t[i - 1] + f[i]
  BY <1>1, <1>3, <1>4
<1> QED BY <1>3, <1>5, <1>6

(* A total is the last of its partial sums. *)
LEMMA TotalUnfolds ==
  ASSUME NEW n \in Nat, NEW f \in [1..n -> Int]
  PROVE  \E s \in [0..n -> Int] :
           /\ s[0] = 0
           /\ \A i \in 1..n : s[i] = s[i - 1] + f[i]
           /\ Total(f, n) = s[n]
<1> DEFINE u == CHOOSE s : s = [i \in 0..n |-> IF i = 0 THEN 0 ELSE s[i - 1] + f[i]]
<1>1. PICK s \in [0..n -> Int] : IsUpTo(s, f, n)
  BY UpToExists
<1>2. IsUpTo(u, f, n)
  BY <1>1 DEF IsUpTo
<1>3. Total(f, n) = u[n]
  BY DEF Total
<1>4. u = s
  BY <1>1, <1>2, UpToUnique
<1>5. s = [i \in 0..n |-> IF i = 0 THEN 0 ELSE s[i - 1] + f[i]]
  BY <1>1 DEF IsUpTo
<1>6. s[0] = 0
  BY <1>5
<1>7. \A i \in 1..n : s[i] = s[i - 1] + f[i]
  BY <1>5
<1> QED BY <1>3, <1>4, <1>6, <1>7

(* A total of integers is an integer. *)
THEOREM TotalInt ==
  ASSUME NEW n \in Nat, NEW f \in [1..n -> Int]
  PROVE  Total(f, n) \in Int
BY TotalUnfolds

(* A total of natural numbers is a natural number. *)
THEOREM TotalNat ==
  ASSUME NEW n \in Nat, NEW f \in [1..n -> Nat]
  PROVE  Total(f, n) \in Nat
<1>1. f \in [1..n -> Int]
  OBVIOUS
<1>2. PICK s \in [0..n -> Int] : /\ s[0] = 0
                                 /\ \A i \in 1..n : s[i] = s[i - 1] + f[i]
                                 /\ Total(f, n) = s[n]
  BY <1>1, TotalUnfolds
<1> DEFINE Bad == {i \in 0..n : s[i] < 0}
<1>3. SUFFICES ASSUME Bad # {} PROVE FALSE
  <2>1. ASSUME Bad = {}, NEW i \in 0..n PROVE s[i] >= 0
    <3>1. s[i] \in Int /\ i \notin Bad
      BY <2>1
    <3>2. ~ (s[i] < 0)
      BY <3>1
    <3> QED BY <3>1, <3>2
  <2>2. Bad = {} => s[n] >= 0
    BY <2>1
  <2> QED BY <2>2, <1>2
<1>4. PICK i \in Bad : \A j \in Bad : ~ (j < i)
  <2>1. Bad \subseteq Nat
    OBVIOUS
  <2> HIDE DEF Bad
  <2> QED BY <2>1, <1>3, Least
<1>5. i \in 1..n /\ i - 1 \in 0..n /\ i - 1 \notin Bad
  BY <1>2, <1>4
<1> QED BY <1>2, <1>4, <1>5

(* The total of a sum of columns is the sum of their totals. *)
THEOREM TotalAdd ==
  ASSUME NEW n \in Nat, NEW f \in [1..n -> Int], NEW g \in [1..n -> Int],
         NEW h \in [1..n -> Int], \A i \in 1..n : h[i] = f[i] + g[i]
  PROVE  Total(h, n) = Total(f, n) + Total(g, n)
<1>1. PICK s \in [0..n -> Int] : /\ s[0] = 0
                                 /\ \A i \in 1..n : s[i] = s[i - 1] + f[i]
                                 /\ Total(f, n) = s[n]
  BY TotalUnfolds
<1>2. PICK t \in [0..n -> Int] : /\ t[0] = 0
                                 /\ \A i \in 1..n : t[i] = t[i - 1] + g[i]
                                 /\ Total(g, n) = t[n]
  BY TotalUnfolds
<1>3. PICK w \in [0..n -> Int] : /\ w[0] = 0
                                 /\ \A i \in 1..n : w[i] = w[i - 1] + h[i]
                                 /\ Total(h, n) = w[n]
  BY TotalUnfolds
<1> DEFINE Bad == {i \in 0..n : w[i] # s[i] + t[i]}
<1>4. SUFFICES ASSUME Bad # {} PROVE FALSE
  <2>1. Bad = {} => \A i \in 0..n : w[i] = s[i] + t[i]
    OBVIOUS
  <2> QED BY <2>1, <1>1, <1>2, <1>3
<1>5. PICK i \in Bad : \A j \in Bad : ~ (j < i)
  <2>1. Bad \subseteq Nat
    OBVIOUS
  <2> HIDE DEF Bad
  <2> QED BY <2>1, <1>4, Least
<1>6. i \in 1..n /\ i - 1 \in 0..n /\ i - 1 \notin Bad
  BY <1>1, <1>2, <1>3, <1>5
<1>7. w[i - 1] = s[i - 1] + t[i - 1]
  BY <1>6
<1>8. w[i] = s[i] + t[i]
  BY <1>1, <1>2, <1>3, <1>6, <1>7
<1> QED BY <1>5, <1>8

(* The total of a column with one entry is that entry. *)
THEOREM TotalPoint ==
  ASSUME NEW n \in Nat, NEW f \in [1..n -> Int], NEW k \in 1..n,
         \A i \in 1..n : i # k => f[i] = 0
  PROVE  Total(f, n) = f[k]
<1>1. PICK s \in [0..n -> Int] : /\ s[0] = 0
                                 /\ \A i \in 1..n : s[i] = s[i - 1] + f[i]
                                 /\ Total(f, n) = s[n]
  BY TotalUnfolds
<1> DEFINE Bad == {i \in 0..n : s[i] # (IF i < k THEN 0 ELSE f[k])}
<1>2. SUFFICES ASSUME Bad # {} PROVE FALSE
  <2>1. Bad = {} => \A i \in 0..n : s[i] = IF i < k THEN 0 ELSE f[k]
    OBVIOUS
  <2> QED BY <2>1, <1>1
<1>3. PICK i \in Bad : \A j \in Bad : ~ (j < i)
  <2>1. Bad \subseteq Nat
    OBVIOUS
  <2> HIDE DEF Bad
  <2> QED BY <2>1, <1>2, Least
<1>4. i \in 1..n /\ i - 1 \in 0..n /\ i - 1 \notin Bad
  BY <1>1, <1>3
<1>5. s[i - 1] = (IF i - 1 < k THEN 0 ELSE f[k])
  BY <1>4
<1> QED BY <1>1, <1>3, <1>4, <1>5
=============================================================================
