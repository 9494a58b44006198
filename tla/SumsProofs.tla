----------------------------- MODULE SumsProofs -----------------------------
(***************************************************************************)
(* What the sum of a list of amounts is: it unfolds from the last element, *)
(* changing one element changes it by the difference, and no element       *)
(* exceeds it.  Each fact is proved by looking at a least counterexample,  *)
(* which exists because the naturals are well founded.                     *)
(***************************************************************************)
EXTENDS Sums, WellFoundedInduction, NaturalsInduction, TLAPS

(* A non-empty set of naturals has a least element. *)
LEMMA LeastNatural ==
  ASSUME NEW T \in SUBSET Nat, T # {}
  PROVE  \E x \in T : \A y \in T : x <= y
<1> DEFINE R == {ss \in Nat \X Nat : ss[1] < ss[2]}
<1>1. IsWellFoundedOn(R, Nat)
  BY NatLessThanWellFounded DEF OpToRel
<1>2. PICK x \in T : \A y \in T : ~ (<<y, x>> \in R)
  <2> HIDE DEF R
  <2> QED BY <1>1, WFMin
<1>3. ASSUME NEW y \in T PROVE x <= y
  <2>1. ~ (<<y, x>> \in R)
    BY <1>2
  <2>2. ~ (y < x)
    BY <2>1
  <2> QED BY <2>2
<1> QED BY <1>3

(* Induction over 0..n, stated for a set rather than for a predicate so    *)
(* that a first-order prover can use it: T is what the induction proves of. *)
LEMMA IntervalInduction ==
  ASSUME NEW n \in Nat, NEW T, 0 \in T,
         \A m \in 1..n : m - 1 \in T => m \in T
  PROVE  \A m \in 0..n : m \in T
<1> DEFINE Bad == {m \in 0..n : m \notin T}
<1>1. Bad = {}
  <2> SUFFICES ASSUME Bad # {} PROVE FALSE
    OBVIOUS
  <2>1. PICK m \in Bad : \A y \in Bad : m <= y
    <3>1. Bad \in SUBSET Nat
      OBVIOUS
    <3> QED BY <3>1, LeastNatural
  <2>2. m \in 1..n /\ m - 1 \in 0..n
    BY <2>1
  <2>3. m - 1 \notin Bad
    BY <2>1, <2>2
  <2> QED BY <2>1, <2>2, <2>3
<1> QED BY <1>1

(* Starting from a, the step G can be taken n times within V. *)
Unrolls(n, V, a, G) ==
  \E S \in [0..n -> V] : S[0] = a /\ \A k \in 1..n : S[k] = G[<<S[k - 1], k>>]

(* A recursive definition over 0..n, with the step given as a function, has *)
(* a solution.                                                             *)
LEMMA IntervalRecursion ==
  ASSUME NEW n \in Nat, NEW V, NEW a \in V, NEW G, G \in [V \X (1..n) -> V]
  PROVE  Unrolls(n, V, a, G)
<1> DEFINE Solves(S, m) ==
             S[0] = a /\ \A k \in 1..m : S[k] = G[<<S[k - 1], k>>]
           T == {m \in 0..n : \E S \in [0..m -> V] : Solves(S, m)}
<1>1. 0 \in T
  <2>1. [k \in 0..0 |-> a] \in [0..0 -> V]
    OBVIOUS
  <2>2. Solves([k \in 0..0 |-> a], 0)
    OBVIOUS
  <2> HIDE DEF Solves
  <2>3. 0 \in 0..n
    OBVIOUS
  <2> QED BY <2>1, <2>2, <2>3
<1>2. ASSUME NEW m \in 1..n, m - 1 \in T PROVE m \in T
  <2>1. PICK S \in [0..(m - 1) -> V] : Solves(S, m - 1)
    BY <1>2
  <2> DEFINE S2 == [k \in 0..m |-> IF k = m THEN G[<<S[m - 1], m>>] ELSE S[k]]
  <2>2. S2 \in [0..m -> V]
    <3>1. S[m - 1] \in V
      BY <2>1
    <3>2. G[<<S[m - 1], m>>] \in V
      BY <3>1
    <3> QED BY <3>2
  <2>3. S2[m] = G[<<S[m - 1], m>>] /\ \A k \in 0..(m - 1) : S2[k] = S[k]
    BY <2>1
  <2> HIDE DEF S2
  <2>4. ASSUME NEW k \in 1..m PROVE S2[k] = G[<<S2[k - 1], k>>]
    <3>1. CASE k = m
      <4>1. S2[m - 1] = S[m - 1]
        BY <2>3
      <4> QED BY <2>3, <3>1, <4>1
    <3>2. CASE k # m
      <4>1. k \in 1..(m - 1) /\ k \in 0..(m - 1) /\ k - 1 \in 0..(m - 1)
        BY <3>2
      <4>2. S[k] = G[<<S[k - 1], k>>]
        BY <2>1, <4>1
      <4>3. S2[k] = S[k] /\ S2[k - 1] = S[k - 1]
        BY <2>3, <4>1
      <4> QED BY <4>2, <4>3
    <3> QED BY <3>1, <3>2
  <2>5. Solves(S2, m)
    <3>1. S2[0] = a
      BY <2>1, <2>3
    <3> QED BY <2>4, <3>1
  <2> HIDE DEF Solves
  <2> QED BY <2>2, <2>5
<1>3. n \in T
  <2>1. \A m \in 1..n : m - 1 \in T => m \in T
    BY <1>2
  <2> HIDE DEF T
  <2>2. \A m \in 0..n : m \in T
    BY <1>1, <2>1, IntervalInduction
  <2> QED BY <2>2
<1> QED BY <1>3 DEF Unrolls

(* The recursive definition of PartialSums has a solution. *)
LEMMA PartialSumsExist ==
  ASSUME NEW n \in Nat, NEW f \in [1..n -> Nat]
  PROVE  \E S \in [0..n -> Nat] :
            S = [k \in 0..n |-> IF k = 0 THEN 0 ELSE S[k - 1] + f[k]]
<1> DEFINE G == [x \in Nat \X (1..n) |-> x[1] + f[x[2]]]
<1>1. G \in [Nat \X (1..n) -> Nat]
  OBVIOUS
<1>2. \A v \in Nat, k \in 1..n : G[<<v, k>>] = v + f[k]
  OBVIOUS
<1> HIDE DEF G
<1>3. PICK S \in [0..n -> Nat] : S[0] = 0 /\ \A k \in 1..n : S[k] = G[<<S[k - 1], k>>]
  <2>1. 0 \in Nat
    OBVIOUS
  <2>2. Unrolls(n, Nat, 0, G)
    BY <1>1, <2>1, IntervalRecursion
  <2> QED BY <2>2 DEF Unrolls
<1>4. ASSUME NEW k \in 1..n PROVE S[k] = S[k - 1] + f[k]
  <2>1. S[k - 1] \in Nat /\ S[k] = G[<<S[k - 1], k>>]
    BY <1>3
  <2> QED BY <1>2, <2>1
<1>5. S = [k \in 0..n |-> IF k = 0 THEN 0 ELSE S[k - 1] + f[k]]
  BY <1>3, <1>4
<1> QED BY <1>5

(* PartialSums unfolds as it is written. *)
LEMMA PartialSumsUnfold ==
  ASSUME NEW n \in Nat, NEW f \in [1..n -> Nat]
  PROVE  /\ PartialSums(f, n) \in [0..n -> Nat]
         /\ PartialSums(f, n)[0] = 0
         /\ \A k \in 1..n : PartialSums(f, n)[k] = PartialSums(f, n)[k - 1] + f[k]
<1> DEFINE P(S) == S = [k \in 0..n |-> IF k = 0 THEN 0 ELSE S[k - 1] + f[k]]
           C == CHOOSE S : P(S)
<1>1. \E S : P(S)
  BY PartialSumsExist
<1>2. P(C)
  <2> HIDE DEF P
  <2> QED BY <1>1
<1>3. PartialSums(f, n) = C
  BY DEF PartialSums
<1>4. C = [k \in 0..n |-> IF k = 0 THEN 0 ELSE C[k - 1] + f[k]]
  BY <1>2
<1> HIDE DEF C
<1> DEFINE T == {m \in 0..n : C[m] \in Nat}
<1>5. 0 \in T
  BY <1>4
<1>6. ASSUME NEW m \in 1..n, m - 1 \in T PROVE m \in T
  BY <1>4, <1>6
<1>7. \A m \in 0..n : m \in T
  <2> HIDE DEF T
  <2> QED BY <1>5, <1>6, IntervalInduction
<1>8. C \in [0..n -> Nat]
  BY <1>4, <1>7
<1> QED BY <1>3, <1>4, <1>8

(* A sum of naturals is a natural; the sum of zeroes is zero. *)
LEMMA SumToType ==
  ASSUME NEW n \in Nat, NEW f \in [1..n -> Nat]
  PROVE  SumTo(f, n) \in Nat
BY PartialSumsUnfold DEF SumTo

(* A sum of zeroes is zero.                                                *)
LEMMA SumToZero ==
  ASSUME NEW n \in Nat, NEW f \in [1..n -> Nat], \A k \in 1..n : f[k] = 0
  PROVE  SumTo(f, n) = 0
<1> DEFINE P == PartialSums(f, n)
           T == {m \in 0..n : P[m] = 0}
<1>1. /\ P \in [0..n -> Nat] /\ P[0] = 0
      /\ \A k \in 1..n : P[k] = P[k - 1] + f[k]
  BY PartialSumsUnfold
<1> HIDE DEF P
<1>2. 0 \in T
  BY <1>1
<1>3. ASSUME NEW m \in 1..n, m - 1 \in T PROVE m \in T
  BY <1>1, <1>3
<1>4. n \in T
  <2>1. \A m \in 1..n : m - 1 \in T => m \in T
    BY <1>3
  <2> HIDE DEF T
  <2>2. \A m \in 0..n : m \in T
    BY <1>2, <2>1, IntervalInduction
  <2> QED BY <2>2
<1> QED BY <1>4 DEF SumTo, P

(* A sum of equal amounts is a multiple of the amount.                     *)
LEMMA SumToConst ==
  ASSUME NEW n \in Nat, NEW f \in [1..n -> Nat], NEW c \in Nat, \A k \in 1..n : f[k] = c
  PROVE  SumTo(f, n) = c * n
<1> DEFINE P == PartialSums(f, n)
           T == {m \in 0..n : P[m] = c * m}
<1>1. /\ P \in [0..n -> Nat] /\ P[0] = 0
      /\ \A k \in 1..n : P[k] = P[k - 1] + f[k]
  BY PartialSumsUnfold
<1> HIDE DEF P
<1>2. 0 \in T
  BY <1>1
<1>3. ASSUME NEW m \in 1..n, m - 1 \in T PROVE m \in T
  <2>1. P[m] = c * (m - 1) + c /\ m \in 0..n
    BY <1>1, <1>3
  <2>2. c * (m - 1) + c = c * m
    OBVIOUS
  <2> QED BY <2>1, <2>2
<1>4. n \in T
  <2>1. \A m \in 1..n : m - 1 \in T => m \in T
    BY <1>3
  <2> HIDE DEF T
  <2>2. \A m \in 0..n : m \in T
    BY <1>2, <2>1, IntervalInduction
  <2> QED BY <2>2
<1> QED BY <1>4 DEF SumTo, P

(* Changing one entry changes the sum by the difference. *)
LEMMA SumToUpdate ==
  ASSUME NEW n \in Nat, NEW f \in [1..n -> Nat], NEW a \in 1..n, NEW v \in Nat
  PROVE  SumTo([f EXCEPT ![a] = v], n) = SumTo(f, n) - f[a] + v
<1> DEFINE g == [f EXCEPT ![a] = v]
           P == PartialSums(f, n)
           Q == PartialSums(g, n)
           T == {m \in 0..n : Q[m] = P[m] + (IF m >= a THEN v - f[a] ELSE 0)}
<1>1. g \in [1..n -> Nat]
  OBVIOUS
<1>2. /\ P \in [0..n -> Nat] /\ P[0] = 0
      /\ \A k \in 1..n : P[k] = P[k - 1] + f[k]
  BY PartialSumsUnfold
<1>3. /\ Q \in [0..n -> Nat] /\ Q[0] = 0
      /\ \A k \in 1..n : Q[k] = Q[k - 1] + g[k]
  <2> HIDE DEF g
  <2> QED BY <1>1, PartialSumsUnfold
<1>4. \A k \in 1..n : g[k] = IF k = a THEN v ELSE f[k]
  OBVIOUS
<1>5. SumTo(g, n) = Q[n] /\ SumTo(f, n) = P[n]
  BY DEF SumTo
<1> HIDE DEF P, Q, g
<1>6. 0 \in T
  BY <1>2, <1>3
<1>7. ASSUME NEW m \in 1..n, m - 1 \in T PROVE m \in T
  <2>1. Q[m - 1] = P[m - 1] + (IF m - 1 >= a THEN v - f[a] ELSE 0)
    BY <1>7
  <2>2. Q[m] = Q[m - 1] + g[m] /\ P[m] = P[m - 1] + f[m]
    BY <1>2, <1>3
  <2>3. m - 1 \in 0..n /\ P[m - 1] \in Nat /\ Q[m - 1] \in Nat
    BY <1>2, <1>3
  <2>4. CASE m = a
    BY <2>1, <2>2, <2>3, <2>4, <1>4
  <2>5. CASE m # a
    BY <2>1, <2>2, <2>3, <2>5, <1>4, SMTT(30)
  <2> QED BY <2>4, <2>5
<1>8. n \in T
  <2>1. \A m \in 1..n : m - 1 \in T => m \in T
    BY <1>7
  <2> HIDE DEF T
  <2>2. \A m \in 0..n : m \in T
    BY <1>6, <2>1, IntervalInduction
  <2> QED BY <2>2
<1>9. Q[n] = P[n] + v - f[a]
  BY <1>8, <1>2, <1>3
<1> QED BY <1>2, <1>5, <1>9 DEF g

(* No entry exceeds the sum. *)
LEMMA SumToBound ==
  ASSUME NEW n \in Nat, NEW f \in [1..n -> Nat], NEW a \in 1..n
  PROVE  f[a] <= SumTo(f, n)
<1>1. [f EXCEPT ![a] = 0] \in [1..n -> Nat]
  OBVIOUS
<1>2. SumTo([f EXCEPT ![a] = 0], n) = SumTo(f, n) - f[a] + 0
  BY SumToUpdate
<1>3. SumTo([f EXCEPT ![a] = 0], n) \in Nat
  BY <1>1, SumToType
<1> QED BY <1>2, <1>3, SumToType

(* Partial sums only grow, and the last one is the sum. *)
LEMMA PartialSumsGrow ==
  ASSUME NEW n \in Nat, NEW f \in [1..n -> Nat], NEW k \in 0..n
  PROVE  PartialSums(f, n)[k] \in Nat /\ PartialSums(f, n)[k] <= SumTo(f, n)
<1> DEFINE P == PartialSums(f, n)
           T == {m \in 0..n : P[n - m] <= P[n]}
<1>1. /\ P \in [0..n -> Nat]
      /\ \A j \in 1..n : P[j] = P[j - 1] + f[j]
  BY PartialSumsUnfold
<1> HIDE DEF P
<1>2. 0 \in T
  BY <1>1
<1>3. ASSUME NEW m \in 1..n, m - 1 \in T PROVE m \in T
  <2>1. n - m + 1 \in 1..n /\ n - m \in 0..n /\ n - (m - 1) = n - m + 1
    OBVIOUS
  <2>2. P[n - m + 1] = P[n - m] + f[n - m + 1]
    BY <1>1, <2>1
  <2>3. P[n - m + 1] <= P[n]
    BY <1>3, <2>1
  <2>4. P[n - m] \in Nat /\ f[n - m + 1] \in Nat /\ P[n] \in Nat
    BY <1>1, <2>1
  <2>5. P[n - m] <= P[n]
    BY <2>2, <2>3, <2>4
  <2> QED BY <2>5
<1>4. \A m \in 0..n : m \in T
  <2>1. \A m \in 1..n : m - 1 \in T => m \in T
    BY <1>3
  <2> HIDE DEF T
  <2> QED BY <1>2, <2>1, IntervalInduction
<1>5. n - k \in T
  BY <1>4
<1>6. P[n - (n - k)] <= P[n] /\ n - (n - k) = k
  BY <1>5
<1> QED BY <1>1, <1>6 DEF SumTo, P

(* Sums of two lists add up entry by entry. *)
LEMMA SumToPlus ==
  ASSUME NEW n \in Nat, NEW f \in [1..n -> Nat], NEW g \in [1..n -> Nat],
         NEW h \in [1..n -> Nat], \A k \in 1..n : h[k] = f[k] + g[k]
  PROVE  SumTo(h, n) = SumTo(f, n) + SumTo(g, n)
<1> DEFINE F == PartialSums(f, n)
           G == PartialSums(g, n)
           H == PartialSums(h, n)
           T == {m \in 0..n : H[m] = F[m] + G[m]}
<1>1. /\ F \in [0..n -> Nat] /\ F[0] = 0 /\ \A k \in 1..n : F[k] = F[k - 1] + f[k]
      /\ G \in [0..n -> Nat] /\ G[0] = 0 /\ \A k \in 1..n : G[k] = G[k - 1] + g[k]
      /\ H \in [0..n -> Nat] /\ H[0] = 0 /\ \A k \in 1..n : H[k] = H[k - 1] + h[k]
  BY PartialSumsUnfold
<1>2. SumTo(f, n) = F[n] /\ SumTo(g, n) = G[n] /\ SumTo(h, n) = H[n]
  BY DEF SumTo
<1> HIDE DEF F, G, H
<1>3. 0 \in T
  BY <1>1
<1>4. ASSUME NEW m \in 1..n, m - 1 \in T PROVE m \in T
  <2>1. m - 1 \in 0..n /\ H[m - 1] = F[m - 1] + G[m - 1]
    BY <1>4
  <2>2. /\ F[m] = F[m - 1] + f[m] /\ G[m] = G[m - 1] + g[m] /\ H[m] = H[m - 1] + h[m]
        /\ h[m] = f[m] + g[m]
    BY <1>1
  <2>3. F[m - 1] \in Nat /\ G[m - 1] \in Nat /\ f[m] \in Nat /\ g[m] \in Nat
    BY <1>1, <2>1
  <2> QED BY <2>1, <2>2, <2>3
<1>5. n \in T
  <2>1. \A m \in 1..n : m - 1 \in T => m \in T
    BY <1>4
  <2> HIDE DEF T
  <2>2. \A m \in 0..n : m \in T
    BY <1>3, <2>1, IntervalInduction
  <2> QED BY <2>2
<1> QED BY <1>2, <1>5

(* The entries of g are those of v, moved by m to places of their own      *)
(* among zeroes.                                                           *)
Scattered(g, N, v, n, m) ==
  /\ m \in [1..n -> 1..N] /\ g \in [1..N -> Nat] /\ v \in [1..n -> Nat]
  /\ \A i, j \in 1..n : m[i] = m[j] => i = j
  /\ \A j \in 1..n : g[m[j]] = v[j]
  /\ \A a \in 1..N : (\A j \in 1..n : m[j] # a) => g[a] = 0

(* Moving entries among zeroes keeps the sum. *)
LEMMA SumToScattered ==
  ASSUME NEW n \in Nat, NEW N \in Nat, NEW m, NEW v, NEW g, Scattered(g, N, v, n, m)
  PROVE  SumTo(g, N) = SumTo(v, n)
<1>0. m \in [1..n -> 1..N] /\ g \in [1..N -> Nat] /\ v \in [1..n -> Nat]
  BY DEF Scattered
<1> DEFINE G(k) == [a \in 1..N |-> IF \E j \in 1..k : m[j] = a THEN g[a] ELSE 0]
           P == PartialSums(v, n)
           T == {k \in 0..n : SumTo(G(k), N) = P[k]}
<1>1. P \in [0..n -> Nat] /\ P[0] = 0 /\ \A k \in 1..n : P[k] = P[k - 1] + v[k]
  BY <1>0, PartialSumsUnfold
<1>2. SumTo(v, n) = P[n]
  BY DEF SumTo
<1> HIDE DEF P
<1>3. 0 \in T
  <2>1. G(0) \in [1..N -> Nat] /\ \A a \in 1..N : G(0)[a] = 0
    BY <1>0
  <2> HIDE DEF G
  <2>2. SumTo(G(0), N) = 0
    BY <2>1, SumToZero
  <2> QED BY <1>1, <2>2
<1>4. ASSUME NEW k \in 1..n, k - 1 \in T PROVE k \in T
  <2>1. PICK e \in [1..N -> Nat] : e = G(k - 1)
    BY <1>0
  <2>2. e \in [1..N -> Nat] /\ m[k] \in 1..N /\ v[k] \in Nat
    BY <1>0, <2>1
  <2>3. e[m[k]] = 0
    <3>1. ~ \E j \in 1..(k - 1) : m[j] = m[k]
      BY DEF Scattered
    <3> QED BY <2>1, <2>2, <3>1
  <2>4. G(k) = [e EXCEPT ![m[k]] = v[k]]
    <3>1. ASSUME NEW a \in 1..N PROVE G(k)[a] = [e EXCEPT ![m[k]] = v[k]][a]
      <4>1. CASE a = m[k]
        <5>1. g[m[k]] = v[k]
          BY DEF Scattered
        <5> QED BY <1>0, <2>2, <4>1, <5>1
      <4>2. CASE a # m[k]
        <5>1. (\E j \in 1..k : m[j] = a) <=> (\E j \in 1..(k - 1) : m[j] = a)
          <6>1. \A j \in 1..k : j = k \/ j \in 1..(k - 1)
            OBVIOUS
          <6>2. \A j \in 1..(k - 1) : j \in 1..k
            OBVIOUS
          <6> QED BY <4>2, <6>1, <6>2
        <5> QED BY <2>1, <2>2, <4>2, <5>1
      <4> QED BY <4>1, <4>2
    <3> QED BY <2>2, <3>1
  <2>5. SumTo(e, N) = P[k - 1] /\ P[k - 1] \in Nat
    <3>1. SumTo(G(k - 1), N) = P[k - 1]
      BY <1>4
    <3> QED BY <1>1, <2>1, <3>1
  <2> HIDE DEF G
  <2>6. SumTo(G(k), N) = SumTo(e, N) + v[k]
    <3>1. PICK x \in 1..N : x = m[k]
      BY <2>2
    <3>2. PICK w \in Nat : w = v[k]
      BY <2>2
    <3>3. SumTo([e EXCEPT ![x] = w], N) = SumTo(e, N) - e[x] + w
      BY SumToUpdate
    <3>4. SumTo(e, N) \in Nat
      BY <2>5
    <3> QED BY <2>3, <2>4, <3>1, <3>2, <3>3, <3>4
  <2>7. SumTo(G(k), N) = P[k]
    BY <1>1, <2>2, <2>5, <2>6
  <2> QED BY <2>7
<1>5. n \in T
  <2>1. \A k \in 1..n : k - 1 \in T => k \in T
    BY <1>4
  <2> HIDE DEF T
  <2>2. \A k \in 0..n : k \in T
    BY <1>3, <2>1, IntervalInduction
  <2> QED BY <2>2
<1>6. G(n) = g
  <2>1. ASSUME NEW a \in 1..N PROVE G(n)[a] = g[a]
    BY DEF Scattered
  <2> QED BY <1>0, <2>1
<1>7. SumTo(G(n), N) = P[n]
  BY <1>5
<1> QED BY <1>2, <1>6, <1>7
=============================================================================
