--------------------------- MODULE FecMatrixProofs ---------------------------
(***************************************************************************)
(* invert_mat inverts every matrix of every order that has an inverse, in  *)
(* place, whatever pivots it takes, and fails on the others.               *)
(***************************************************************************)
EXTENDS FecFieldProofs, SequenceTheorems

-----------------------------------------------------------------------------
(* Sums *)

\* The terms of a sum are elements of the field.
Terms(f, n) == \A i \in 1..n : f[i] \in gf

PartialSums(f, n, G) ==
  /\ \A i \in 0..n : G[i] \in gf
  /\ G[0] = 0
  /\ \A i \in 1..n : G[i] = Xor(G[i - 1], f[i])

LEMMA SumsExist ==
  ASSUME NEW n \in Nat, NEW f, Terms(f, n)
  PROVE  \E G : /\ PartialSums(f, n, G)
                /\ G = [i \in 0..n |-> IF i = 0 THEN 0 ELSE Xor(G[i - 1], f[i])]
<1> DEFINE h == [p \in gf \X Nat |-> IF p[2] \in 1..n THEN Xor(p[1], f[p[2]]) ELSE 0]
<1>1. 0 \in gf
  BY FieldSizes
<1>2. h \in [gf \X Nat -> gf]
  <2> SUFFICES ASSUME NEW p \in gf \X Nat
               PROVE  (IF p[2] \in 1..n THEN Xor(p[1], f[p[2]]) ELSE 0) \in gf
    OBVIOUS
  <2>1. ASSUME p[2] \in 1..n PROVE Xor(p[1], f[p[2]]) \in gf
    BY <2>1, XorLaws DEF Terms
  <2> QED BY <1>1, <2>1
<1>3. \A v \in gf, i \in 1..n : h[<<v, i>>] = Xor(v, f[i])
  OBVIOUS
<1> HIDE DEF h
<1>4. PICK F \in [Nat -> gf] : Counts(F, 0, h)
  BY <1>1, <1>2, CountedRecursion
<1> DEFINE G == [i \in 0..n |-> F[i]]
<1>5. \A i \in 0..n : G[i] = F[i] /\ G[i] \in gf
  OBVIOUS
<1>6. F[0] = 0
  BY <1>4 DEF Counts
<1>7. ASSUME NEW i \in 1..n PROVE G[i] = Xor(G[i - 1], f[i])
  <2>1. i \in Nat /\ i # 0 /\ i - 1 \in 0..n /\ i \in 0..n
    OBVIOUS
  <2>2. F[i] = h[<<F[i - 1], i>>]
    BY <1>4, <2>1 DEF Counts
  <2>3. F[i - 1] \in gf
    BY <1>5, <2>1
  <2> QED BY <1>3, <1>5, <2>1, <2>2, <2>3
<1>8. 0 \in 0..n
  OBVIOUS
<1>9. PartialSums(f, n, G)
  <2> HIDE DEF G
  <2> QED BY <1>5, <1>6, <1>7, <1>8 DEF PartialSums
<1>10. ASSUME NEW i \in 0..n PROVE G[i] = IF i = 0 THEN 0 ELSE Xor(G[i - 1], f[i])
  <2>1. i # 0 => i \in 1..n
    OBVIOUS
  <2> HIDE DEF G
  <2> QED BY <1>5, <1>6, <1>7, <1>8, <2>1
<1>11. G = [i \in 0..n |-> IF i = 0 THEN 0 ELSE Xor(G[i - 1], f[i])]
  BY <1>10
<1> HIDE DEF G
<1> QED BY <1>9, <1>11

LEMMA SumsAgree ==
  ASSUME NEW n \in Nat, NEW f, NEW g, NEW G, NEW H, PartialSums(f, n, G), PartialSums(g, n, H),
         \A i \in 1..n : f[i] = g[i]
  PROVE  \A i \in 0..n : G[i] = H[i]
<1> DEFINE T == {i \in Nat : i \in 0..n => G[i] = H[i]}
<1>1. 0 \in T
  BY DEF PartialSums
<1>2. ASSUME NEW i \in Nat, i \in T PROVE i + 1 \in T
  <2> SUFFICES ASSUME i + 1 \in 0..n PROVE G[i + 1] = H[i + 1]
    OBVIOUS
  <2>1. i + 1 \in 1..n /\ (i + 1) - 1 = i /\ i \in 0..n
    OBVIOUS
  <2>2. G[i + 1] = Xor(G[i], f[i + 1]) /\ H[i + 1] = Xor(H[i], g[i + 1])
    BY <2>1 DEF PartialSums
  <2> QED BY <1>2, <2>1, <2>2
<1>3. Nat \subseteq T
  <2> HIDE DEF T
  <2> QED BY <1>1, <1>2, Induction
<1> QED BY <1>3

LEMMA TotalIs ==
  ASSUME NEW n \in Nat, NEW f, NEW G, Terms(f, n), PartialSums(f, n, G)
  PROVE  Total(f, n) = G[n]
<1> DEFINE Sum[i \in 0..n] == IF i = 0 THEN 0 ELSE Xor(Sum[i - 1], f[i])
<1>1. \E H : H = [i \in 0..n |-> IF i = 0 THEN 0 ELSE Xor(H[i - 1], f[i])]
  BY SumsExist
<1>2. Sum = [i \in 0..n |-> IF i = 0 THEN 0 ELSE Xor(Sum[i - 1], f[i])]
  BY <1>1
<1>3. Total(f, n) = Sum[n]
  BY DEF Total
<1> HIDE DEF Sum
<1>4. Sum[0] = 0 /\ \A i \in 1..n : Sum[i] = Xor(Sum[i - 1], f[i])
  BY <1>2
<1> DEFINE T == {i \in Nat : i \in 0..n => Sum[i] \in gf}
<1>5. 0 \in T
  BY <1>4, FieldSizes
<1>6. ASSUME NEW i \in Nat, i \in T PROVE i + 1 \in T
  <2> SUFFICES ASSUME i + 1 \in 0..n PROVE Sum[i + 1] \in gf
    OBVIOUS
  <2>1. i + 1 \in 1..n /\ (i + 1) - 1 = i /\ i \in 0..n
    OBVIOUS
  <2>2. Sum[i + 1] = Xor(Sum[i], f[i + 1]) /\ Sum[i] \in gf /\ f[i + 1] \in gf
    BY <1>4, <1>6, <2>1 DEF Terms
  <2> QED BY <2>2, XorLaws
<1>7. Nat \subseteq T
  <2> HIDE DEF T
  <2> QED BY <1>5, <1>6, Induction
<1>8. PartialSums(f, n, Sum)
  BY <1>4, <1>7 DEF PartialSums
<1>9. n \in 0..n
  OBVIOUS
<1> QED BY <1>3, <1>8, <1>9, SumsAgree

\* A sum of none, and of one more.
LEMMA TotalStep ==
  ASSUME NEW n \in Nat, NEW f
  PROVE  /\ Total(f, 0) = 0
         /\ Terms(f, n) => Total(f, n) \in gf
         /\ Terms(f, n + 1) => /\ Total(f, n + 1) = Xor(Total(f, n), f[n + 1])
                               /\ Terms(f, n)
<1>1. Total(f, 0) = 0
  <2>1. Terms(f, 0)
    BY DEF Terms
  <2>2. PICK G : PartialSums(f, 0, G)
    BY <2>1, SumsExist
  <2>3. Total(f, 0) = G[0]
    BY <2>1, <2>2, TotalIs
  <2> QED BY <2>2, <2>3 DEF PartialSums
<1>2. ASSUME Terms(f, n) PROVE Total(f, n) \in gf
  <2>1. PICK G : PartialSums(f, n, G)
    BY <1>2, SumsExist
  <2>2. n \in 0..n
    OBVIOUS
  <2> QED BY <1>2, <2>1, <2>2, TotalIs DEF PartialSums
<1>3. ASSUME Terms(f, n + 1)
      PROVE  Total(f, n + 1) = Xor(Total(f, n), f[n + 1]) /\ Terms(f, n)
  <2>1. n + 1 \in Nat /\ n + 1 \in 1..n + 1 /\ (n + 1) - 1 = n
    OBVIOUS
  <2>2. PICK G : PartialSums(f, n + 1, G)
    BY <1>3, <2>1, SumsExist
  <2>3. Terms(f, n) /\ PartialSums(f, n, G)
    BY <1>3, <2>2 DEF Terms, PartialSums
  <2>4. Total(f, n + 1) = G[n + 1] /\ Total(f, n) = G[n]
    BY <1>3, <2>1, <2>2, <2>3, TotalIs
  <2> QED BY <2>1, <2>2, <2>3, <2>4 DEF PartialSums
<1> QED BY <1>1, <1>2, <1>3

LEMMA TotalSame ==
  ASSUME NEW n \in Nat, NEW f, NEW g, Terms(f, n), \A i \in 1..n : f[i] = g[i]
  PROVE  Total(f, n) = Total(g, n) /\ Terms(g, n)
<1>1. Terms(g, n)
  BY DEF Terms
<1>2. PICK G : PartialSums(f, n, G)
  BY SumsExist
<1>3. PICK H : PartialSums(g, n, H)
  BY <1>1, SumsExist
<1>4. n \in 0..n /\ \A i \in 0..n : G[i] = H[i]
  BY <1>2, <1>3, SumsAgree
<1> QED BY <1>1, <1>2, <1>3, <1>4, TotalIs

\* A sum whose terms are sums of two, and one whose terms have a factor.
LEMMA TotalAdd ==
  ASSUME NEW n \in Nat, NEW f, NEW g, NEW h, Terms(f, n), Terms(g, n),
         \A i \in 1..n : h[i] = Xor(f[i], g[i])
  PROVE  Total(h, n) = Xor(Total(f, n), Total(g, n)) /\ Terms(h, n)
<1>1. Terms(h, n)
  BY XorLaws, ZenonT(60) DEF Terms
<1> DEFINE T == {m \in Nat : m <= n => Total(h, m) = Xor(Total(f, m), Total(g, m))}
<1>2. 0 \in T
  <2>1. Total(h, 0) = 0 /\ Total(f, 0) = 0 /\ Total(g, 0) = 0
    BY TotalStep
  <2>2. Xor(0, 0) = 0
    BY FieldSizes, XorLaws
  <2> QED BY <2>1, <2>2
<1>3. ASSUME NEW m \in Nat, m \in T PROVE m + 1 \in T
  <2> SUFFICES ASSUME m + 1 <= n PROVE Total(h, m + 1) = Xor(Total(f, m + 1), Total(g, m + 1))
    OBVIOUS
  <2>1. Terms(f, m + 1) /\ Terms(g, m + 1) /\ Terms(h, m + 1) /\ m + 1 \in 1..n /\ m <= n
    BY <1>1 DEF Terms
  <2>2. /\ Total(h, m + 1) = Xor(Total(h, m), h[m + 1])
        /\ Total(f, m + 1) = Xor(Total(f, m), f[m + 1]) /\ Terms(f, m)
        /\ Total(g, m + 1) = Xor(Total(g, m), g[m + 1]) /\ Terms(g, m)
    BY <2>1, TotalStep
  <2>3. Total(f, m) \in gf /\ Total(g, m) \in gf /\ f[m + 1] \in gf /\ g[m + 1] \in gf
    BY <2>1, <2>2, TotalStep DEF Terms
  <2>4. Total(h, m) = Xor(Total(f, m), Total(g, m)) /\ h[m + 1] = Xor(f[m + 1], g[m + 1])
    BY <1>3, <2>1
  <2> QED BY <2>2, <2>3, <2>4, XorPairs
<1>4. Nat \subseteq T
  <2> HIDE DEF T
  <2> QED BY <1>2, <1>3, Induction
<1> QED BY <1>1, <1>4

LEMMA TotalScale ==
  ASSUME NEW n \in Nat, NEW c \in gf, NEW f, NEW h, Terms(f, n),
         \A i \in 1..n : h[i] = gf_mul(c, f[i])
  PROVE  Total(h, n) = gf_mul(c, Total(f, n)) /\ Terms(h, n)
<1>1. Terms(h, n)
  BY MulLaws DEF Terms
<1> DEFINE T == {m \in Nat : m <= n => Total(h, m) = gf_mul(c, Total(f, m))}
<1>2. 0 \in T
  <2>1. Total(h, 0) = 0 /\ Total(f, 0) = 0
    BY TotalStep
  <2>2. gf_mul(c, 0) = 0
    BY MulLaws
  <2> QED BY <2>1, <2>2
<1>3. ASSUME NEW m \in Nat, m \in T PROVE m + 1 \in T
  <2> SUFFICES ASSUME m + 1 <= n PROVE Total(h, m + 1) = gf_mul(c, Total(f, m + 1))
    OBVIOUS
  <2>1. Terms(f, m + 1) /\ Terms(h, m + 1) /\ m + 1 \in 1..n /\ m <= n
    BY <1>1 DEF Terms
  <2>2. /\ Total(h, m + 1) = Xor(Total(h, m), h[m + 1])
        /\ Total(f, m + 1) = Xor(Total(f, m), f[m + 1]) /\ Terms(f, m)
    BY <2>1, TotalStep
  <2>3. Total(f, m) \in gf /\ f[m + 1] \in gf
    BY <2>1, <2>2, TotalStep DEF Terms
  <2>4. Total(h, m) = gf_mul(c, Total(f, m)) /\ h[m + 1] = gf_mul(c, f[m + 1])
    BY <1>3, <2>1
  <2> QED BY <2>2, <2>3, <2>4, Distributes
<1>4. Nat \subseteq T
  <2> HIDE DEF T
  <2> QED BY <1>2, <1>3, Induction
<1> QED BY <1>1, <1>4

LEMMA TotalZero ==
  ASSUME NEW n \in Nat, NEW f, \A i \in 1..n : f[i] = 0
  PROVE  Total(f, n) = 0 /\ Terms(f, n)
<1>1. Terms(f, n) /\ 0 \in gf
  BY FieldSizes DEF Terms
<1> DEFINE T == {m \in Nat : m <= n => Total(f, m) = 0}
<1>2. 0 \in T
  BY TotalStep
<1>3. ASSUME NEW m \in Nat, m \in T PROVE m + 1 \in T
  <2> SUFFICES ASSUME m + 1 <= n PROVE Total(f, m + 1) = 0
    OBVIOUS
  <2>1. Terms(f, m + 1) /\ m + 1 \in 1..n /\ m <= n
    BY <1>1 DEF Terms
  <2>2. Total(f, m + 1) = Xor(Total(f, m), f[m + 1])
    BY <2>1, TotalStep
  <2> QED BY <1>1, <1>3, <2>1, <2>2, XorLaws
<1>4. Nat \subseteq T
  <2> HIDE DEF T
  <2> QED BY <1>2, <1>3, Induction
<1> QED BY <1>1, <1>4

\* One term taken out of a sum.
LEMMA TotalSplit ==
  ASSUME NEW n \in Nat, NEW a \in 1..n, NEW f, NEW h, Terms(f, n),
         \A i \in 1..n : h[i] = IF i = a THEN 0 ELSE f[i]
  PROVE  Total(f, n) = Xor(f[a], Total(h, n)) /\ Terms(h, n)
<1>1. Terms(h, n) /\ 0 \in gf /\ f[a] \in gf
  BY FieldSizes DEF Terms
<1> DEFINE T == {m \in Nat : m <= n => Total(f, m) = IF a <= m THEN Xor(f[a], Total(h, m))
                                                      ELSE Total(h, m)}
<1>2. 0 \in T
  <2>1. Total(f, 0) = 0 /\ Total(h, 0) = 0 /\ ~(a <= 0)
    BY TotalStep
  <2> QED BY <2>1
<1>3. ASSUME NEW m \in Nat, m \in T PROVE m + 1 \in T
  <2> SUFFICES ASSUME m + 1 <= n
               PROVE  Total(f, m + 1) = IF a <= m + 1 THEN Xor(f[a], Total(h, m + 1))
                                        ELSE Total(h, m + 1)
    OBVIOUS
  <2>1. Terms(f, m + 1) /\ Terms(h, m + 1) /\ m + 1 \in 1..n /\ m <= n
    BY <1>1 DEF Terms
  <2>2. /\ Total(h, m + 1) = Xor(Total(h, m), h[m + 1]) /\ Terms(h, m)
        /\ Total(f, m + 1) = Xor(Total(f, m), f[m + 1]) /\ Terms(f, m)
    BY <2>1, TotalStep
  <2>3. Total(f, m) \in gf /\ Total(h, m) \in gf /\ f[m + 1] \in gf
    BY <2>1, <2>2, TotalStep DEF Terms
  <2>4. CASE a <= m
    <3>1. h[m + 1] = f[m + 1] /\ Total(f, m) = Xor(f[a], Total(h, m)) /\ a <= m + 1
      BY <1>3, <2>1, <2>4
    <3> QED BY <1>1, <2>2, <2>3, <3>1, XorAssoc
  <2>5. CASE a = m + 1
    <3>1. h[m + 1] = 0 /\ Total(f, m) = Total(h, m) /\ a <= m + 1
      BY <1>3, <2>1, <2>5
    <3>2. Total(h, m + 1) = Total(h, m) /\ Total(f, m + 1) = Xor(f[a], Total(h, m))
      <4>1. Xor(Total(h, m), 0) = Total(h, m) /\ Xor(Total(h, m), f[a]) = Xor(f[a], Total(h, m))
        BY <1>1, <2>3, XorLaws
      <4> QED BY <2>2, <2>5, <3>1, <4>1
    <3> QED BY <3>1, <3>2
  <2>6. CASE a > m + 1
    <3>1. h[m + 1] = f[m + 1] /\ Total(f, m) = Total(h, m) /\ ~(a <= m + 1)
      BY <1>3, <2>1, <2>6
    <3> QED BY <2>2, <3>1
  <2> QED BY <2>4, <2>5, <2>6
<1>4. Nat \subseteq T
  <2> HIDE DEF T
  <2> QED BY <1>2, <1>3, Induction
<1>5. n \in T /\ n <= n /\ a <= n
  <2> HIDE DEF T
  <2> QED BY <1>4
<1> QED BY <1>1, <1>5

\* k places of 1..n, in any order, and what is left of the terms f at them.
Places(e, k, n) == e \in [1..k -> 1..n] /\ \A i, j \in 1..k : e[i] = e[j] => i = j

Only(f, e, k, n) == [i \in 1..n |-> IF i \in {e[j] : j \in 1..k} THEN f[i] ELSE 0]

Chosen(f, e, k) == [i \in 1..k |-> f[e[i]]]

LEMMA TotalReorder ==
  ASSUME NEW n \in Nat, NEW k \in Nat, NEW e, Places(e, k, n), NEW f, Terms(f, n)
  PROVE  /\ Total(Only(f, e, k, n), n) = Total(Chosen(f, e, k), k)
         /\ Terms(Chosen(f, e, k), k) /\ Terms(Only(f, e, k, n), n)
<1> DEFINE h == Only(f, e, k, n)
           g == Chosen(f, e, k)
<1>0. /\ \A i \in 1..k : g[i] = f[e[i]]
      /\ e \in [1..k -> 1..n] /\ \A i, j \in 1..k : e[i] = e[j] => i = j
      /\ \A i \in 1..n : h[i] = IF i \in {e[j] : j \in 1..k} THEN f[i] ELSE 0
  BY DEF Places, Only, Chosen
<1> HIDE DEF h, g
<1>1. Terms(g, k) /\ 0 \in gf /\ Terms(h, n)
  BY <1>0, FieldSizes DEF Terms
<1> DEFINE F(m) == [i \in 1..n |-> IF i \in {e[j] : j \in 1..m} THEN f[i] ELSE 0]
           T == {m \in Nat : m <= k => Total(F(m), n) = Total(g, m)}
<1>2. \A m \in Nat : m <= k => Terms(F(m), n)
  BY <1>1 DEF Terms
<1>3. 0 \in T
  <2>1. \A i \in 1..n : F(0)[i] = 0
    OBVIOUS
  <2>2. Total(F(0), n) = 0
    <3> HIDE DEF F
    <3> QED BY <2>1, TotalZero
  <2>3. Total(g, 0) = 0
    BY TotalStep
  <2> QED BY <2>2, <2>3
<1>4. ASSUME NEW m \in Nat, m \in T PROVE m + 1 \in T
  <2> SUFFICES ASSUME m + 1 <= k PROVE Total(F(m + 1), n) = Total(g, m + 1)
    OBVIOUS
  <2>1. m + 1 \in 1..k /\ m <= k /\ m + 1 \in Nat /\ Terms(g, m + 1)
    BY <1>1 DEF Terms
  <2>2. Total(g, m + 1) = Xor(Total(g, m), g[m + 1]) /\ Terms(g, m) /\ Total(g, m) \in gf
    BY <2>1, TotalStep
  <2>3. PICK a \in 1..n : a = e[m + 1]
    BY <1>0, <2>1
  <2>4. \A i \in 1..n : F(m)[i] = IF i = a THEN 0 ELSE F(m + 1)[i]
    <3> SUFFICES ASSUME NEW i \in 1..n
                 PROVE  F(m)[i] = IF i = a THEN 0 ELSE F(m + 1)[i]
      OBVIOUS
    <3>1. i \in {e[j] : j \in 1..m} => i # a
      BY <1>0, <2>1, <2>3
    <3>2. i # a => (i \in {e[j] : j \in 1..m} <=> i \in {e[j] : j \in 1..m + 1})
      <4>1. \A j \in 1..m + 1 : j \in 1..m \/ j = m + 1
        OBVIOUS
      <4>2. \A j \in 1..m : j \in 1..m + 1
        OBVIOUS
      <4> QED BY <2>3, <4>1, <4>2
    <3> QED BY <3>1, <3>2
  <2>5. F(m + 1)[a] = f[a] /\ f[a] = g[m + 1]
    <3>1. m + 1 \in 1..m + 1
      OBVIOUS
    <3>2. a \in {e[j] : j \in 1..m + 1}
      BY <2>3, <3>1
    <3> QED BY <1>0, <2>1, <2>3, <3>2
  <2>6. Total(F(m + 1), n) = Xor(F(m + 1)[a], Total(F(m), n))
    <3>1. Terms(F(m + 1), n)
      BY <1>2, <2>1
    <3> HIDE DEF F
    <3> QED BY <2>4, <3>1, TotalSplit
  <2>7. Total(F(m), n) = Total(g, m)
    BY <1>4, <2>1
  <2>8. g[m + 1] \in gf /\ Xor(g[m + 1], Total(g, m)) = Xor(Total(g, m), g[m + 1])
    <3>1. g[m + 1] \in gf
      BY <1>1, <2>1 DEF Terms
    <3> QED BY <2>2, <3>1, XorLaws
  <2> QED BY <2>2, <2>5, <2>6, <2>7, <2>8
<1>5. Nat \subseteq T
  <2> HIDE DEF T
  <2> QED BY <1>3, <1>4, Induction
<1>6. k \in T /\ k <= k
  <2> HIDE DEF T
  <2> QED BY <1>5
<1>7. Total(F(k), n) = Total(g, k)
  BY <1>6
<1>8. \A i \in 1..n : h[i] = F(k)[i]
  BY <1>0
<1>9. Total(h, n) = Total(F(k), n)
  <2> HIDE DEF F
  <2> QED BY <1>1, <1>8, TotalSame
<1> QED BY <1>1, <1>7, <1>9 DEF h, g

\* All the terms, in an order that is its own reverse.
Rearranged(e, f, g, k) ==
  /\ e \in [1..k -> 1..k]
  /\ \A i \in 1..k : e[e[i]] = i
  /\ \A i \in 1..k : g[i] = f[e[i]]

LEMMA TotalPermuted ==
  ASSUME NEW k \in Nat, NEW e, NEW f, NEW g, Rearranged(e, f, g, k), Terms(f, k)
  PROVE  Total(f, k) = Total(g, k)
<1>0. /\ e \in [1..k -> 1..k]
      /\ \A i \in 1..k : e[e[i]] = i
      /\ \A i \in 1..k : g[i] = f[e[i]]
  BY DEF Rearranged
<1>1. \A i, j \in 1..k : e[i] = e[j] => i = j
  <2> SUFFICES ASSUME NEW i \in 1..k, NEW j \in 1..k, e[i] = e[j] PROVE i = j
    OBVIOUS
  <2>1. e[e[i]] = i /\ e[e[j]] = j
    BY <1>0
  <2> QED BY <2>1
<1>2. Places(e, k, k)
  BY <1>0, <1>1 DEF Places
<1>3. \A i \in 1..k : f[i] = Only(f, e, k, k)[i]
  <2> SUFFICES ASSUME NEW i \in 1..k PROVE i \in {e[j] : j \in 1..k}
    BY DEF Only
  <2>1. e[i] \in 1..k /\ e[e[i]] = i
    BY <1>0
  <2> QED BY <2>1
<1>4. Total(Only(f, e, k, k), k) = Total(Chosen(f, e, k), k) /\ Terms(Chosen(f, e, k), k)
  BY <1>2, TotalReorder
<1>6. Total(Chosen(f, e, k), k) = Total(g, k)
  <2> DEFINE c == Chosen(f, e, k)
  <2>1. \A i \in 1..k : c[i] = g[i]
    BY <1>0 DEF Chosen
  <2>2. Terms(c, k)
    BY <1>4
  <2> HIDE DEF c
  <2>3. Total(c, k) = Total(g, k)
    BY <2>1, <2>2, TotalSame
  <2> QED BY <2>3 DEF c
<1>5. Total(f, k) = Total(Only(f, e, k, k), k)
  BY <1>3, TotalSame
<1> QED BY <1>4, <1>5, <1>6

-----------------------------------------------------------------------------
(* Products of rows and vectors *)

Vectors(k) == [1..k -> gf]
Matrices(k) == [1..k -> Vectors(k)]

Products(u, v, k) == [i \in 1..k |-> gf_mul(u[i], v[i])]

LEMMA DotIs ==
  ASSUME NEW k \in Nat, NEW u \in Vectors(k), NEW v \in Vectors(k)
  PROVE  /\ Dot(u, v, k) = Total(Products(u, v, k), k) /\ Terms(Products(u, v, k), k)
         /\ Dot(u, v, k) \in gf
         /\ \A i \in 1..k : Products(u, v, k)[i] = gf_mul(u[i], v[i])
<1>1. \A i \in 1..k : Products(u, v, k)[i] = gf_mul(u[i], v[i])
  BY DEF Products
<1>2. \A i \in 1..k : u[i] \in gf /\ v[i] \in gf
  BY DEF Vectors
<1>3. Terms(Products(u, v, k), k)
  BY <1>1, <1>2, MulLaws DEF Terms
<1>4. Dot(u, v, k) = Total(Products(u, v, k), k)
  BY DEF Dot, Products
<1> QED BY <1>1, <1>3, <1>4, TotalStep

\* The product without the element t of the vector.
WithoutTerm(v, t, k) == [i \in 1..k |-> IF i = t THEN 0 ELSE v[i]]

LEMMA DotSplit ==
  ASSUME NEW k \in Nat, NEW u \in Vectors(k), NEW v \in Vectors(k), NEW t \in 1..k
  PROVE  /\ WithoutTerm(v, t, k) \in Vectors(k)
         /\ Dot(u, v, k) = Xor(gf_mul(u[t], v[t]), Dot(u, WithoutTerm(v, t, k), k))
<1>1. WithoutTerm(v, t, k) \in Vectors(k)
  BY FieldSizes DEF WithoutTerm, Vectors
<1>2. /\ Dot(u, v, k) = Total(Products(u, v, k), k) /\ Terms(Products(u, v, k), k)
      /\ \A i \in 1..k : Products(u, v, k)[i] = gf_mul(u[i], v[i])
  BY DotIs
<1>3. /\ Dot(u, WithoutTerm(v, t, k), k) = Total(Products(u, WithoutTerm(v, t, k), k), k)
      /\ \A i \in 1..k : Products(u, WithoutTerm(v, t, k), k)[i] = gf_mul(u[i], WithoutTerm(v, t, k)[i])
  BY <1>1, DotIs
<1>4. ASSUME NEW i \in 1..k
      PROVE  Products(u, WithoutTerm(v, t, k), k)[i] = IF i = t THEN 0 ELSE Products(u, v, k)[i]
  <2>1. WithoutTerm(v, t, k)[i] = IF i = t THEN 0 ELSE v[i]
    BY DEF WithoutTerm
  <2>2. u[i] \in gf
    BY DEF Vectors
  <2>3. gf_mul(u[i], 0) = 0
    BY <2>2, MulLaws
  <2> QED BY <1>2, <1>3, <2>1, <2>3
<1>5. Total(Products(u, v, k), k)
        = Xor(Products(u, v, k)[t], Total(Products(u, WithoutTerm(v, t, k), k), k))
  BY <1>2, <1>4, TotalSplit
<1> QED BY <1>1, <1>2, <1>3, <1>5

\* Products term by term the multiples of others, and the sums of others.
Scaled(w, q, u, v, k) == \A i \in 1..k : gf_mul(w[i], v[i]) = gf_mul(q, gf_mul(u[i], v[i]))

Added(s, y, u, v, w, x, k) ==
  \A i \in 1..k : gf_mul(s[i], y[i]) = Xor(gf_mul(u[i], v[i]), gf_mul(w[i], x[i]))

LEMMA DotScale ==
  ASSUME NEW k \in Nat, NEW u \in Vectors(k), NEW w \in Vectors(k),
         NEW v \in Vectors(k), NEW q \in gf, Scaled(w, q, u, v, k)
  PROVE  Dot(w, v, k) = gf_mul(q, Dot(u, v, k))
<1>1. /\ Dot(u, v, k) = Total(Products(u, v, k), k) /\ Terms(Products(u, v, k), k)
      /\ \A i \in 1..k : Products(u, v, k)[i] = gf_mul(u[i], v[i])
  BY DotIs
<1>2. /\ Dot(w, v, k) = Total(Products(w, v, k), k)
      /\ \A i \in 1..k : Products(w, v, k)[i] = gf_mul(w[i], v[i])
  BY DotIs
<1>3. \A i \in 1..k : Products(w, v, k)[i] = gf_mul(q, Products(u, v, k)[i])
  BY <1>1, <1>2 DEF Scaled
<1>4. Total(Products(w, v, k), k) = gf_mul(q, Total(Products(u, v, k), k))
  BY <1>1, <1>3, TotalScale
<1> QED BY <1>1, <1>2, <1>4

LEMMA DotAdd ==
  ASSUME NEW k \in Nat, NEW u \in Vectors(k), NEW w \in Vectors(k),
         NEW s \in Vectors(k), NEW v \in Vectors(k), NEW x \in Vectors(k), NEW y \in Vectors(k),
         Added(s, y, u, v, w, x, k)
  PROVE  Dot(s, y, k) = Xor(Dot(u, v, k), Dot(w, x, k))
<1>1. /\ Dot(u, v, k) = Total(Products(u, v, k), k) /\ Terms(Products(u, v, k), k)
      /\ \A i \in 1..k : Products(u, v, k)[i] = gf_mul(u[i], v[i])
  BY DotIs
<1>2. /\ Dot(w, x, k) = Total(Products(w, x, k), k) /\ Terms(Products(w, x, k), k)
      /\ \A i \in 1..k : Products(w, x, k)[i] = gf_mul(w[i], x[i])
  BY DotIs
<1>3. /\ Dot(s, y, k) = Total(Products(s, y, k), k)
      /\ \A i \in 1..k : Products(s, y, k)[i] = gf_mul(s[i], y[i])
  BY DotIs
<1>4. \A i \in 1..k : Products(s, y, k)[i] = Xor(Products(u, v, k)[i], Products(w, x, k)[i])
  BY <1>1, <1>2, <1>3 DEF Added
<1>5. Total(Products(s, y, k), k) = Xor(Total(Products(u, v, k), k), Total(Products(w, x, k), k))
  BY <1>1, <1>2, <1>4, TotalAdd
<1> QED BY <1>1, <1>2, <1>3, <1>5

\* Elements exchanged in one of the vectors are as well exchanged in the other.
LEMMA ExchangedIs ==
  ASSUME NEW k \in Nat, NEW a \in 1..k, NEW b \in 1..k
  PROVE  \A i \in 1..k : Exchanged(i, a, b) \in 1..k /\ Exchanged(Exchanged(i, a, b), a, b) = i
  BY DEF Exchanged

Swapped(v, a, b, k) == [i \in 1..k |-> v[Exchanged(i, a, b)]]

LEMMA DotSwapped ==
  ASSUME NEW k \in Nat, NEW u \in Vectors(k), NEW v \in Vectors(k),
         NEW a \in 1..k, NEW b \in 1..k
  PROVE  /\ Swapped(u, a, b, k) \in Vectors(k)
         /\ Dot(Swapped(u, a, b, k), v, k) = Dot(u, Swapped(v, a, b, k), k)
<1> DEFINE e == [i \in 1..k |-> Exchanged(i, a, b)]
<1>1. /\ e \in [1..k -> 1..k] /\ \A i \in 1..k : e[e[i]] = i /\ e[i] = Exchanged(i, a, b)
  BY ExchangedIs
<1> HIDE DEF e
<1>4. /\ \A i \in 1..k : Swapped(u, a, b, k)[i] = u[e[i]] /\ Swapped(v, a, b, k)[i] = v[e[i]]
      /\ Swapped(u, a, b, k) \in Vectors(k) /\ Swapped(v, a, b, k) \in Vectors(k)
  BY <1>1 DEF Swapped, Vectors
<1> DEFINE g == Products(Swapped(u, a, b, k), v, k)
           f == Products(u, Swapped(v, a, b, k), k)
<1>5. /\ Dot(Swapped(u, a, b, k), v, k) = Total(g, k)
      /\ \A i \in 1..k : g[i] = gf_mul(Swapped(u, a, b, k)[i], v[i])
  BY <1>4, DotIs
<1>6. /\ Dot(u, Swapped(v, a, b, k), k) = Total(f, k) /\ Terms(f, k)
      /\ \A i \in 1..k : f[i] = gf_mul(u[i], Swapped(v, a, b, k)[i])
  BY <1>4, DotIs
<1> HIDE DEF f, g
<1>7. \A i \in 1..k : g[i] = f[e[i]]
  BY <1>1, <1>4, <1>5, <1>6
<1>8. Total(f, k) = Total(g, k)
  <2>1. Rearranged(e, f, g, k)
    BY <1>1, <1>7 DEF Rearranged
  <2> QED BY <1>6, <2>1, TotalPermuted
<1> QED BY <1>4, <1>5, <1>6, <1>8

-----------------------------------------------------------------------------
(* The matrices that the steps of invert_mat make *)

LEMMA ListIs ==
  ASSUME NEW k \in Nat, NEW S, NEW s \in [1..k -> S]
  PROVE  <<>> \o s = s
<1>1. s \in Seq(S) /\ Len(s) = k
  OBVIOUS
<1> QED BY <1>1

LEMMA SwapRowsIs ==
  ASSUME NEW k \in Nat, NEW m \in Matrices(k), NEW a \in 1..k, NEW b \in 1..k
  PROVE  SwapRows(m, k, a, b) = [r \in 1..k |-> m[Exchanged(r, a, b)]]
<1>1. SwapRows(m, k, a, b)
        = <<>> \o [r \in 1..k |-> <<>> \o [c \in 1..k |-> m[Exchanged(r, a, b)][c]]]
  BY DEF SwapRows, Matrix, Listed
<1>2. ASSUME NEW r \in 1..k
      PROVE  /\ <<>> \o [c \in 1..k |-> m[Exchanged(r, a, b)][c]] = m[Exchanged(r, a, b)]
             /\ m[Exchanged(r, a, b)] \in Vectors(k)
  <2>1. m[Exchanged(r, a, b)] \in [1..k -> gf]
    BY ExchangedIs DEF Matrices, Vectors
  <2>2. [c \in 1..k |-> m[Exchanged(r, a, b)][c]] = m[Exchanged(r, a, b)]
    BY <2>1
  <2> QED BY <2>1, <2>2, ListIs DEF Vectors
<1>3. [r \in 1..k |-> <<>> \o [c \in 1..k |-> m[Exchanged(r, a, b)][c]]]
        = [r \in 1..k |-> m[Exchanged(r, a, b)]]
  BY <1>2
<1>4. [r \in 1..k |-> m[Exchanged(r, a, b)]] \in [1..k -> Vectors(k)]
  BY <1>2
<1> QED BY <1>1, <1>3, <1>4, ListIs

LEMMA SwapColumnsIs ==
  ASSUME NEW k \in Nat, NEW m \in Matrices(k), NEW a \in 1..k, NEW b \in 1..k
  PROVE  SwapColumns(m, k, a, b) = [r \in 1..k |-> Swapped(m[r], a, b, k)]
<1>1. SwapColumns(m, k, a, b)
        = <<>> \o [r \in 1..k |-> <<>> \o [c \in 1..k |-> m[r][Exchanged(c, a, b)]]]
  BY DEF SwapColumns, Matrix, Listed
<1>2. ASSUME NEW r \in 1..k
      PROVE  /\ <<>> \o [c \in 1..k |-> m[r][Exchanged(c, a, b)]] = Swapped(m[r], a, b, k)
             /\ Swapped(m[r], a, b, k) \in Vectors(k)
  <2>1. [c \in 1..k |-> m[r][Exchanged(c, a, b)]] \in [1..k -> gf]
    BY ExchangedIs DEF Matrices, Vectors
  <2> QED BY <2>1, ListIs DEF Vectors, Swapped
<1>3. [r \in 1..k |-> <<>> \o [c \in 1..k |-> m[r][Exchanged(c, a, b)]]]
        = [r \in 1..k |-> Swapped(m[r], a, b, k)]
  BY <1>2
<1>4. [r \in 1..k |-> Swapped(m[r], a, b, k)] \in [1..k -> Vectors(k)]
  BY <1>2
<1> QED BY <1>1, <1>3, <1>4, ListIs

Normalised(n, m, t, k) ==
  /\ n \in Matrices(k)
  /\ \A c \in 1..k : n[t][c] = gf_mul(inverse[m[t][t]], IF c = t THEN 1 ELSE m[t][c])
  /\ \A r \in 1..k : r # t => n[r] = m[r]

LEMMA NormaliseIs ==
  ASSUME NEW k \in Nat, NEW m \in Matrices(k), NEW t \in 1..k, m[t][t] # 0
  PROVE  Normalised(Normalise(m, k, t), m, t, k)
<1> DEFINE q == inverse[m[t][t]]
           E(r, c) == IF r # t THEN m[r][c] ELSE gf_mul(q, IF c = t THEN 1 ELSE m[r][c])
           N == [r \in 1..k |-> [c \in 1..k |-> E(r, c)]]
<1>1. \A r, c \in 1..k : m[r][c] \in gf
  BY DEF Matrices, Vectors
<1>2. q \in gf /\ 1 \in gf
  BY <1>1, InverseIs, FieldSizes
<1>3. ASSUME NEW r \in 1..k, NEW c \in 1..k PROVE E(r, c) \in gf
  <2> HIDE DEF q
  <2> QED BY <1>1, <1>2, MulLaws
<1>4. CASE m[t][t] = 1
  <2>1. Normalise(m, k, t) = m
    BY <1>4 DEF Normalise
  <2>2. q = 1
    BY <1>2, <1>4 DEF inverse
  <2>3. ASSUME NEW c \in 1..k PROVE m[t][c] = gf_mul(q, IF c = t THEN 1 ELSE m[t][c])
    <3>1. gf_mul(1, m[t][c]) = m[t][c] /\ gf_mul(1, 1) = 1
      BY <1>1, <1>2, MulLaws
    <3> QED BY <1>4, <2>2, <3>1
  <2> QED BY <2>1, <2>3 DEF Normalised
<1>5. CASE m[t][t] # 1
  <2>1. Normalise(m, k, t) = <<>> \o [r \in 1..k |-> <<>> \o [c \in 1..k |-> E(r, c)]]
    BY <1>5 DEF Normalise, Matrix, Listed
  <2> HIDE DEF E, q
  <2>2. ASSUME NEW r \in 1..k
        PROVE  <<>> \o [c \in 1..k |-> E(r, c)] = [c \in 1..k |-> E(r, c)]
    <3>1. [c \in 1..k |-> E(r, c)] \in [1..k -> gf]
      BY <1>3
    <3> QED BY <3>1, ListIs
  <2>3. [r \in 1..k |-> <<>> \o [c \in 1..k |-> E(r, c)]] = N
    BY <2>2
  <2>4. N \in [1..k -> [1..k -> gf]]
    BY <1>3
  <2>5. Normalise(m, k, t) = N
    <3> HIDE DEF N
    <3> QED BY <2>1, <2>3, <2>4, ListIs
  <2>6. Normalise(m, k, t) \in Matrices(k)
    BY <2>4, <2>5 DEF Matrices, Vectors
  <2>7. ASSUME NEW r \in 1..k, r # t PROVE N[r] = m[r]
    <3>1. m[r] = [c \in 1..k |-> m[r][c]]
      BY DEF Matrices, Vectors
    <3> QED BY <2>7, <3>1 DEF E
  <2>8. \A c \in 1..k : N[t][c] = gf_mul(inverse[m[t][t]], IF c = t THEN 1 ELSE m[t][c])
    BY DEF E, q
  <2> HIDE DEF N
  <2> QED BY <2>5, <2>6, <2>7, <2>8 DEF Normalised
<1> QED BY <1>4, <1>5

Eliminated(e, m, t, k) ==
  /\ e \in Matrices(k) /\ e[t] = m[t]
  /\ \A r, c \in 1..k :
       r # t => e[r][c] = Xor(IF c = t THEN 0 ELSE m[r][c], gf_mul(m[r][t], m[t][c]))

LEMMA EliminateIs ==
  ASSUME NEW k \in Nat, NEW m \in Matrices(k), NEW t \in 1..k
  PROVE  Eliminated(Eliminate(m, k, t), m, t, k)
<1> DEFINE E(r, c) == IF r = t THEN m[r][c]
                      ELSE addmul(IF c = t THEN 0 ELSE m[r][c], m[t][c], m[r][t])
           N == [r \in 1..k |-> [c \in 1..k |-> E(r, c)]]
<1>1. 0 \in gf /\ 1 \in gf /\ 1 # 0 /\ \A r, c \in 1..k : m[r][c] \in gf
  BY FieldSizes DEF Matrices, Vectors
<1>2. ASSUME NEW r \in 1..k, NEW c \in 1..k, r # t
      PROVE  E(r, c) = Xor(IF c = t THEN 0 ELSE m[r][c], gf_mul(m[r][t], m[t][c]))
  <2>1. gf_mul(0, m[t][c]) = 0
    BY <1>1, MulLaws
  <2>2. PICK d \in gf : d = IF c = t THEN 0 ELSE m[r][c]
    BY <1>1
  <2>3. Xor(d, 0) = d
    BY XorLaws
  <2>4. E(r, c) = IF m[r][t] = 0 THEN d ELSE Xor(d, gf_mul(m[r][t], m[t][c]))
    BY <1>2, <2>2 DEF addmul
  <2> HIDE DEF E
  <2> QED BY <2>1, <2>2, <2>3, <2>4
<1>3. ASSUME NEW r \in 1..k, NEW c \in 1..k PROVE E(r, c) \in gf
  <2>1. CASE r = t
    BY <1>1, <2>1
  <2>2. CASE r # t
    <3>1. PICK d \in gf, p \in gf :
            d = (IF c = t THEN 0 ELSE m[r][c]) /\ p = gf_mul(m[r][t], m[t][c])
      BY <1>1, MulLaws
    <3> HIDE DEF E
    <3>2. E(r, c) = Xor(d, p)
      BY <1>2, <2>2, <3>1
    <3> QED BY <3>2, XorLaws
  <2> QED BY <2>1, <2>2
<1>4. CASE \A c \in 1..k : m[t][c] = IF c = t THEN 1 ELSE 0
  <2>1. Eliminate(m, k, t) = m
    BY <1>4 DEF Eliminate
  <2>2. ASSUME NEW r \in 1..k, NEW c \in 1..k, r # t
        PROVE  m[r][c] = Xor(IF c = t THEN 0 ELSE m[r][c], gf_mul(m[r][t], m[t][c]))
    <3>1. CASE c = t
      <4>1. gf_mul(m[r][t], 1) = m[r][t] /\ Xor(0, m[r][t]) = m[r][t] /\ m[t][t] = 1
        BY <1>1, <1>4, MulLaws, XorLaws
      <4> QED BY <3>1, <4>1
    <3>2. CASE c # t
      <4>1. gf_mul(m[r][t], 0) = 0 /\ Xor(m[r][c], 0) = m[r][c] /\ m[t][c] = 0
        BY <1>1, <1>4, <3>2, MulLaws, XorLaws
      <4> QED BY <3>2, <4>1
    <3> QED BY <3>1, <3>2
  <2> QED BY <2>1, <2>2 DEF Eliminated
<1>5. CASE ~(\A c \in 1..k : m[t][c] = IF c = t THEN 1 ELSE 0)
  <2>1. Eliminate(m, k, t) = <<>> \o [r \in 1..k |-> <<>> \o [c \in 1..k |-> E(r, c)]]
    BY <1>5 DEF Eliminate, Matrix, Listed
  <2>2. \A c \in 1..k : E(t, c) = m[t][c]
    OBVIOUS
  <2> HIDE DEF E
  <2>3. ASSUME NEW r \in 1..k
        PROVE  <<>> \o [c \in 1..k |-> E(r, c)] = [c \in 1..k |-> E(r, c)]
    <3>1. [c \in 1..k |-> E(r, c)] \in [1..k -> gf]
      BY <1>3
    <3> QED BY <3>1, ListIs
  <2>4. [r \in 1..k |-> <<>> \o [c \in 1..k |-> E(r, c)]] = N
    BY <2>3
  <2>5. N \in [1..k -> [1..k -> gf]]
    BY <1>3
  <2>6. Eliminate(m, k, t) = N
    <3> HIDE DEF N
    <3> QED BY <2>1, <2>4, <2>5, ListIs
  <2>7. Eliminate(m, k, t) \in Matrices(k)
    BY <2>5, <2>6 DEF Matrices, Vectors
  <2>8. N[t] = m[t]
    <3>1. m[t] = [c \in 1..k |-> m[t][c]]
      BY DEF Matrices, Vectors
    <3> QED BY <2>2, <3>1
  <2>9. \A r, c \in 1..k : N[r][c] = E(r, c)
    OBVIOUS
  <2> HIDE DEF N
  <2> QED BY <1>2, <2>6, <2>7, <2>8, <2>9 DEF Eliminated
<1> QED BY <1>4, <1>5

-----------------------------------------------------------------------------
(* What a turn of the loop over the columns preserves.  The rows and the   *)
(* columns in U are those of the pivots taken: the matrix, made in place,  *)
(* then gives the unknowns x of those rows and the right hand sides z of   *)
(* the others from the right hand sides of the columns in U and the        *)
(* unknowns of the others.                                                 *)

Mix(U, z, x, k) == [c \in 1..k |-> IF c \in U THEN z[c] ELSE x[c]]

Holds(m, U, x, z, k) ==
  \A r \in 1..k : (IF r \in U THEN x[r] ELSE z[r]) = Dot(m[r], Mix(U, z, x, k), k)

LEMMA MulCancels ==
  ASSUME NEW p \in gf, p # 0, NEW x \in gf
  PROVE  gf_mul(inverse[p], gf_mul(p, x)) = x /\ gf_mul(p, gf_mul(inverse[p], x)) = x
<1>1. PICK q \in gf : q = inverse[p]
  BY InverseIs
<1>2. gf_mul(p, q) = 1 /\ gf_mul(q, p) = 1
  BY <1>1, InverseIs
<1>3. gf_mul(gf_mul(q, p), x) = gf_mul(q, gf_mul(p, x))
  BY MulAssoc
<1>4. gf_mul(gf_mul(p, q), x) = gf_mul(p, gf_mul(q, x))
  BY MulAssoc
<1>5. gf_mul(1, x) = x
  BY MulLaws
<1> QED BY <1>1, <1>2, <1>3, <1>4, <1>5

LEMMA PivotEquation ==
  ASSUME NEW p \in gf, p # 0, NEW q, q = inverse[p],
         NEW x \in gf, NEW z \in gf, NEW a \in gf
  PROVE  /\ q \in gf
         /\ z = Xor(gf_mul(p, x), a) <=> x = Xor(gf_mul(q, z), gf_mul(q, a))
<1>1. q \in gf /\ gf_mul(p, q) = 1 /\ gf_mul(q, p) = 1
  BY InverseIs
<1>2. gf_mul(q, gf_mul(p, x)) = x /\ gf_mul(p, gf_mul(q, z)) = z /\ gf_mul(p, gf_mul(q, a)) = a
  BY MulCancels
<1>3. gf_mul(p, x) \in gf /\ gf_mul(q, z) \in gf /\ gf_mul(q, a) \in gf
  BY <1>1, MulLaws
<1>4. ASSUME z = Xor(gf_mul(p, x), a) PROVE x = Xor(gf_mul(q, z), gf_mul(q, a))
  <2>1. gf_mul(q, z) = Xor(x, gf_mul(q, a))
    BY <1>1, <1>2, <1>3, <1>4, Distributes
  <2> QED BY <1>3, <2>1, XorSwap
<1>5. ASSUME x = Xor(gf_mul(q, z), gf_mul(q, a)) PROVE z = Xor(gf_mul(p, x), a)
  <2>1. gf_mul(p, x) = Xor(z, a)
    BY <1>1, <1>2, <1>3, <1>5, Distributes
  <2> QED BY <1>3, <2>1, XorSwap
<1> QED BY <1>1, <1>4, <1>5

\* The two sides of a pivot at t differ in the place t only.
MixedApart(U, z, x, t, k) ==
  /\ Mix(U, z, x, k) \in Vectors(k) /\ Mix(U \cup {t}, z, x, k) \in Vectors(k)
  /\ Mix(U, z, x, k)[t] = x[t] /\ Mix(U \cup {t}, z, x, k)[t] = z[t]
  /\ WithoutTerm(Mix(U, z, x, k), t, k) = WithoutTerm(Mix(U \cup {t}, z, x, k), t, k)
  /\ WithoutTerm(Mix(U, z, x, k), t, k) \in Vectors(k)
  /\ WithoutTerm(Mix(U, z, x, k), t, k)[t] = 0

LEMMA MixIs ==
  ASSUME NEW k \in Nat, NEW U, NEW z \in Vectors(k), NEW x \in Vectors(k), NEW t \in 1..k, t \notin U
  PROVE  MixedApart(U, z, x, t, k)
<1>1. Mix(U, z, x, k) \in Vectors(k) /\ Mix(U \cup {t}, z, x, k) \in Vectors(k)
  BY DEF Mix, Vectors
<1>2. \A c \in 1..k : /\ Mix(U, z, x, k)[c] = IF c \in U THEN z[c] ELSE x[c]
                      /\ Mix(U \cup {t}, z, x, k)[c] = IF c \in U \cup {t} THEN z[c] ELSE x[c]
  BY DEF Mix
<1>3. \A c \in 1..k : c # t => Mix(U, z, x, k)[c] = Mix(U \cup {t}, z, x, k)[c]
  BY <1>2
<1>4. WithoutTerm(Mix(U, z, x, k), t, k) = WithoutTerm(Mix(U \cup {t}, z, x, k), t, k)
  BY <1>3 DEF WithoutTerm
<1>5. WithoutTerm(Mix(U, z, x, k), t, k) \in Vectors(k)
  BY <1>1, FieldSizes DEF WithoutTerm, Vectors
<1>6. WithoutTerm(Mix(U, z, x, k), t, k)[t] = 0
  BY DEF WithoutTerm
<1> QED BY <1>1, <1>2, <1>4, <1>5, <1>6 DEF MixedApart

\* The matrix after the pivot at t has been used.
LEMMA PivotStep ==
  ASSUME NEW k \in Nat, NEW m \in Matrices(k), NEW U, NEW t \in 1..k, t \notin U,
         m[t][t] # 0, NEW x \in Vectors(k), NEW z \in Vectors(k),
         NEW new, new = Eliminate(Normalise(m, k, t), k, t)
  PROVE  new \in Matrices(k) /\ (Holds(m, U, x, z, k) <=> Holds(new, U \cup {t}, x, z, k))
<1> DEFINE n == Normalise(m, k, t)
           p == m[t][t]
           q == inverse[p]
           w == Mix(U, z, x, k)
           v == Mix(U \cup {t}, z, x, k)
           rest == WithoutTerm(w, t, k)
           a == Dot(m[t], rest, k)
<1>1. p \in gf /\ p # 0 /\ x[t] \in gf /\ z[t] \in gf /\ \A r, c \in 1..k : m[r][c] \in gf
  BY DEF Matrices, Vectors
<1>2. q \in gf /\ 1 \in gf /\ 0 \in gf
  <2> HIDE DEF p
  <2> QED BY <1>1, InverseIs, FieldSizes
<1>3. /\ w \in Vectors(k) /\ v \in Vectors(k) /\ rest \in Vectors(k) /\ rest = WithoutTerm(v, t, k)
      /\ w[t] = x[t] /\ v[t] = z[t] /\ rest[t] = 0
  <2>1. MixedApart(U, z, x, t, k)
    BY MixIs
  <2> QED BY <2>1 DEF MixedApart
<1>4. /\ n \in Matrices(k)
      /\ \A c \in 1..k : n[t][c] = gf_mul(q, IF c = t THEN 1 ELSE m[t][c])
      /\ \A r \in 1..k : r # t => n[r] = m[r]
  <2>1. Normalised(n, m, t, k)
    BY NormaliseIs
  <2> HIDE DEF n
  <2> QED BY <2>1 DEF Normalised
<1>5. /\ new \in Matrices(k) /\ new[t] = n[t]
      /\ \A r, c \in 1..k :
           r # t => new[r][c] = Xor(IF c = t THEN 0 ELSE n[r][c], gf_mul(n[r][t], n[t][c]))
  <2>1. new = Eliminate(n, k, t)
    OBVIOUS
  <2> HIDE DEF n
  <2>2. Eliminated(new, n, t, k)
    BY <1>4, <2>1, EliminateIs
  <2> QED BY <2>2 DEF Eliminated
<1>6. \A r \in 1..k : m[r] \in Vectors(k) /\ n[r] \in Vectors(k) /\ new[r] \in Vectors(k)
  <2> HIDE DEF n
  <2> QED BY <1>4, <1>5 DEF Matrices
<1>7. ASSUME NEW r \in 1..k
      PROVE  Dot(m[r], w, k) = Xor(gf_mul(m[r][t], x[t]), Dot(m[r], rest, k))
  <2> HIDE DEF w, v
  <2>1. Dot(m[r], w, k) = Xor(gf_mul(m[r][t], w[t]), Dot(m[r], WithoutTerm(w, t, k), k))
    BY <1>3, <1>6, DotSplit
  <2> QED BY <1>3, <2>1
<1>8. ASSUME NEW r \in 1..k
      PROVE  Dot(new[r], v, k) = Xor(gf_mul(new[r][t], z[t]), Dot(new[r], rest, k))
  <2> HIDE DEF w, v, rest
  <2>1. Dot(new[r], v, k) = Xor(gf_mul(new[r][t], v[t]), Dot(new[r], WithoutTerm(v, t, k), k))
    BY <1>3, <1>6, DotSplit
  <2> QED BY <1>3, <2>1
<1> HIDE DEF w, v, rest, q, n, p
<1>9. a \in gf /\ \A r \in 1..k : Dot(m[r], rest, k) \in gf
  BY <1>3, <1>6, DotIs
<1>10. Dot(n[t], rest, k) = gf_mul(q, a)
  <2>1. ASSUME NEW i \in 1..k
        PROVE  gf_mul(n[t][i], rest[i]) = gf_mul(q, gf_mul(m[t][i], rest[i]))
    <3>1. CASE i = t
      <4>1. gf_mul(n[t][i], 0) = 0 /\ gf_mul(m[t][i], 0) = 0 /\ gf_mul(q, 0) = 0
        <5>1. n[t][i] \in gf /\ m[t][i] \in gf
          BY <1>6 DEF Vectors
        <5> QED BY <1>2, <5>1, MulLaws
      <4> QED BY <1>3, <3>1, <4>1
    <3>2. CASE i # t
      <4>1. n[t][i] = gf_mul(q, m[t][i]) /\ m[t][i] \in gf /\ rest[i] \in gf
        BY <1>3, <1>4, <1>6, <3>2 DEF Vectors
      <4> QED BY <1>2, <4>1, MulAssoc
    <3> QED BY <3>1, <3>2
  <2>2. Scaled(n[t], q, m[t], rest, k)
    BY <2>1 DEF Scaled
  <2>3. n[t] \in Vectors(k) /\ m[t] \in Vectors(k)
    BY <1>6
  <2> QED BY <1>2, <1>3, <2>2, <2>3, DotScale
<1>11. n[t][t] = q
  BY <1>2, <1>4, MulLaws
<1>12. Dot(new[t], v, k) = Xor(gf_mul(q, z[t]), gf_mul(q, a))
  BY <1>5, <1>8, <1>10, <1>11
<1>13. z[t] = Dot(m[t], w, k) <=> x[t] = Dot(new[t], v, k)
  <2>1. z[t] = Xor(gf_mul(p, x[t]), a) <=> x[t] = Xor(gf_mul(q, z[t]), gf_mul(q, a))
    BY <1>1, <1>9, PivotEquation DEF q
  <2>2. Dot(m[t], w, k) = Xor(gf_mul(p, x[t]), a)
    BY <1>7 DEF p
  <2> QED BY <1>12, <2>1, <2>2
<1>14. ASSUME NEW r \in 1..k, r # t, x[t] = Dot(new[t], v, k)
       PROVE  Dot(new[r], v, k) = Dot(m[r], w, k)
  <2> DEFINE s == m[r][t]
             scaled == [i \in 1..k |-> gf_mul(s, n[t][i])]
             d == Dot(m[r], rest, k)
  <2>1. s \in gf /\ \A i \in 1..k : n[t][i] \in gf /\ m[r][i] \in gf /\ rest[i] \in gf
    BY <1>1, <1>3, <1>6 DEF Vectors
  <2>2. \A i \in 1..k : gf_mul(s, n[t][i]) \in gf
    BY <2>1, MulLaws
  <2>3. scaled \in Vectors(k) /\ \A i \in 1..k : scaled[i] = gf_mul(s, n[t][i])
    BY <2>2 DEF Vectors
  <2>4. /\ new[r][t] = gf_mul(s, q)
        /\ \A i \in 1..k : i # t => new[r][i] = Xor(m[r][i], scaled[i])
    <3>1. new[r][t] = Xor(0, gf_mul(s, q))
      BY <1>4, <1>5, <1>11, <1>14
    <3>2. gf_mul(s, q) \in gf
      BY <1>2, <2>1, MulLaws
    <3>3. Xor(0, gf_mul(s, q)) = gf_mul(s, q)
      BY <3>2, XorLaws
    <3>4. \A i \in 1..k : i # t => new[r][i] = Xor(m[r][i], gf_mul(s, n[t][i]))
      BY <1>4, <1>5, <1>14
    <3> QED BY <2>3, <3>1, <3>3, <3>4
  <2> HIDE DEF scaled, s
  <2>5. Dot(scaled, rest, k) = gf_mul(s, gf_mul(q, a))
    <3>1. \A i \in 1..k : gf_mul(scaled[i], rest[i]) = gf_mul(s, gf_mul(n[t][i], rest[i]))
      BY <2>1, <2>3, MulAssoc
    <3>2. Dot(scaled, rest, k) = gf_mul(s, Dot(n[t], rest, k))
      <4>1. Scaled(scaled, s, n[t], rest, k)
        BY <3>1 DEF Scaled
      <4>2. n[t] \in Vectors(k)
        BY <1>6
      <4> QED BY <1>3, <2>1, <2>3, <4>1, <4>2, DotScale
    <3> QED BY <1>10, <3>2
  <2>6. Dot(new[r], rest, k) = Xor(d, gf_mul(s, gf_mul(q, a)))
    <3>1. ASSUME NEW i \in 1..k
          PROVE  gf_mul(new[r][i], rest[i])
                   = Xor(gf_mul(m[r][i], rest[i]), gf_mul(scaled[i], rest[i]))
      <4>1. scaled[i] \in gf /\ m[r][i] \in gf /\ rest[i] \in gf /\ new[r][i] \in gf
        BY <1>6, <2>1, <2>3 DEF Vectors
      <4>2. CASE i = t
        <5>1. /\ gf_mul(new[r][i], 0) = 0 /\ gf_mul(m[r][i], 0) = 0 /\ gf_mul(scaled[i], 0) = 0
              /\ Xor(0, 0) = 0
          BY <1>2, <4>1, MulLaws, XorLaws
        <5> QED BY <1>3, <4>2, <5>1
      <4>3. CASE i # t
        <5>1. new[r][i] = Xor(m[r][i], scaled[i])
          BY <2>4, <4>3
        <5> QED BY <4>1, <5>1, Distributes
      <4> QED BY <4>2, <4>3
    <3>2. Dot(new[r], rest, k) = Xor(d, Dot(scaled, rest, k))
      <4>1. new[r] \in Vectors(k) /\ m[r] \in Vectors(k)
        BY <1>6
      <4>2. Added(new[r], rest, m[r], rest, scaled, rest, k)
        BY <3>1 DEF Added
      <4> HIDE DEF d
      <4>3. Dot(new[r], rest, k) = Xor(Dot(m[r], rest, k), Dot(scaled, rest, k))
        <5>1. PICK u1 \in Vectors(k), u2 \in Vectors(k), u3 \in Vectors(k), u4 \in Vectors(k) :
                u1 = new[r] /\ u2 = m[r] /\ u3 = scaled /\ u4 = rest
          BY <1>3, <2>3, <4>1
        <5>2. Added(u1, u4, u2, u4, u3, u4, k)
          BY <4>2, <5>1
        <5>3. Dot(u1, u4, k) = Xor(Dot(u2, u4, k), Dot(u3, u4, k))
          BY <5>2, DotAdd
        <5> QED BY <5>1, <5>3
      <4> QED BY <4>3 DEF d
    <3> QED BY <2>5, <3>2
  <2>7. PICK qz \in gf, qa \in gf, b \in gf : qz = gf_mul(q, z[t]) /\ qa = gf_mul(q, a) /\ b = d
    BY <1>1, <1>2, <1>9, MulLaws
  <2>8. gf_mul(gf_mul(s, q), z[t]) = gf_mul(s, qz)
    BY <1>1, <1>2, <2>1, <2>7, MulAssoc
  <2>9. gf_mul(s, x[t]) = Xor(gf_mul(s, qz), gf_mul(s, qa))
    <3>1. x[t] = Xor(qz, qa)
      BY <1>12, <1>14, <2>7
    <3> QED BY <2>1, <2>7, <3>1, Distributes
  <2>10. PICK A \in gf, C \in gf : A = gf_mul(s, qz) /\ C = gf_mul(s, qa)
    BY <2>1, <2>7, MulLaws
  <2>11. Dot(new[r], v, k) = Xor(A, Xor(b, C))
    BY <1>8, <2>4, <2>6, <2>7, <2>8, <2>10
  <2>12. Dot(m[r], w, k) = Xor(Xor(A, C), b)
    BY <1>7, <2>7, <2>9, <2>10 DEF s
  <2>13. Xor(A, Xor(b, C)) = Xor(Xor(A, C), b)
    <3>1. Xor(b, C) = Xor(C, b)
      BY <2>7, <2>10, XorLaws, ZenonT(60)
    <3>2. Xor(A, Xor(C, b)) = Xor(Xor(A, C), b)
      BY <2>7, <2>10, XorAssoc
    <3> QED BY <3>1, <3>2
  <2> QED BY <2>11, <2>12, <2>13
<1>15. \A r \in 1..k : r # t => (r \in U <=> r \in U \cup {t})
  OBVIOUS
<1>16. Holds(m, U, x, z, k)
         <=> \A r \in 1..k : (IF r \in U THEN x[r] ELSE z[r]) = Dot(m[r], w, k)
  BY DEF Holds, w
<1>17. Holds(new, U \cup {t}, x, z, k)
         <=> \A r \in 1..k : (IF r \in U \cup {t} THEN x[r] ELSE z[r]) = Dot(new[r], v, k)
  BY DEF Holds, v
<1> HIDE DEF a
<1>18. ASSUME Holds(m, U, x, z, k) PROVE Holds(new, U \cup {t}, x, z, k)
  <2>1. z[t] = Dot(m[t], w, k)
    BY <1>16, <1>18
  <2>2. x[t] = Dot(new[t], v, k)
    BY <1>13, <2>1
  <2> QED BY <1>14, <1>15, <1>16, <1>17, <1>18, <2>2
<1>19. ASSUME Holds(new, U \cup {t}, x, z, k) PROVE Holds(m, U, x, z, k)
  <2>1. x[t] = Dot(new[t], v, k)
    BY <1>17, <1>19
  <2>2. z[t] = Dot(m[t], w, k)
    BY <1>13, <2>1
  <2> QED BY <1>14, <1>15, <1>16, <1>17, <1>19, <2>1, <2>2
<1> QED BY <1>5, <1>18, <1>19

\* Exchanging two rows without a pivot exchanges their right hand sides.
LEMMA SwapStep ==
  ASSUME NEW k \in Nat, NEW m \in Matrices(k), NEW U,
         NEW a \in 1..k, NEW b \in 1..k, a \notin U, b \notin U,
         NEW x \in Vectors(k), NEW z \in Vectors(k), NEW new, new = SwapRows(m, k, a, b)
  PROVE  /\ new \in Matrices(k) /\ Swapped(z, a, b, k) \in Vectors(k)
         /\ Holds(m, U, x, z, k) <=> Holds(new, U, x, Swapped(z, a, b, k), k)
<1> DEFINE e(r) == Exchanged(r, a, b)
           s == Swapped(z, a, b, k)
           w == Mix(U, z, x, k)
<1>1. \A r \in 1..k : e(r) \in 1..k /\ e(e(r)) = r
  BY ExchangedIs
<1>2. \A r \in 1..k : /\ (e(r) \in U <=> r \in U)
                      /\ (r \in U => e(r) = r)
  BY DEF Exchanged
<1>3. new = [r \in 1..k |-> m[e(r)]]
  BY SwapRowsIs
<1>4. \A r \in 1..k : s[r] = z[e(r)]
  BY DEF Swapped
<1> HIDE DEF e
<1>5. new \in Matrices(k) /\ \A r \in 1..k : new[r] = m[e(r)]
  BY <1>1, <1>3 DEF Matrices
<1>6. s \in Vectors(k)
  BY <1>1 DEF Swapped, Vectors, e
<1> HIDE DEF s
<1>7. Mix(U, s, x, k) = w
  <2>1. \A c \in 1..k : c \in U => s[c] = z[c]
    BY <1>2, <1>4
  <2> QED BY <2>1 DEF Mix
<1>8. Holds(m, U, x, z, k)
        <=> \A r \in 1..k : (IF r \in U THEN x[r] ELSE z[r]) = Dot(m[r], w, k)
  BY DEF Holds
<1>9. Holds(new, U, x, s, k)
        <=> \A r \in 1..k : (IF r \in U THEN x[r] ELSE s[r]) = Dot(new[r], w, k)
  BY <1>7 DEF Holds
<1> HIDE DEF w
<1>10. ASSUME Holds(m, U, x, z, k) PROVE Holds(new, U, x, s, k)
  <2> SUFFICES ASSUME NEW r \in 1..k
               PROVE  (IF r \in U THEN x[r] ELSE s[r]) = Dot(new[r], w, k)
    BY <1>9
  <2>1. (IF e(r) \in U THEN x[e(r)] ELSE z[e(r)]) = Dot(m[e(r)], w, k)
    BY <1>1, <1>8, <1>10
  <2> QED BY <1>2, <1>4, <1>5, <2>1
<1>11. ASSUME Holds(new, U, x, s, k) PROVE Holds(m, U, x, z, k)
  <2> SUFFICES ASSUME NEW r \in 1..k
               PROVE  (IF r \in U THEN x[r] ELSE z[r]) = Dot(m[r], w, k)
    BY <1>8
  <2>1. (IF e(r) \in U THEN x[e(r)] ELSE s[e(r)]) = Dot(new[e(r)], w, k)
    BY <1>1, <1>9, <1>11
  <2>2. s[e(r)] = z[r] /\ new[e(r)] = m[r]
    BY <1>1, <1>4, <1>5
  <2> QED BY <1>2, <2>1, <2>2
<1> QED BY <1>5, <1>6, <1>10, <1>11 DEF s

\* Where a pivot is found, and what it means that none is.
IsPivot(p, m, k, used) ==
  /\ p \in (1..k) \X (1..k) /\ p[1] \notin used /\ p[2] \notin used
  /\ m[p[1]][p[2]] # 0

LEMMA PivotIs ==
  ASSUME NEW k \in Nat, NEW m \in Matrices(k), NEW used, NEW col \in 1..k,
         NEW p, p = Pivot(m, k, used, col)
  PROVE  IF p = <<>> THEN \A r, c \in (1..k) \ used : m[r][c] = 0 ELSE IsPivot(p, m, k, used)
<1> DEFINE free == {q \in (1..k) \X (1..k) : q[1] \notin used /\ q[2] \notin used
                                              /\ m[q[1]][q[2]] # 0}
           Before(s, q) == s[1] < q[1] \/ (s[1] = q[1] /\ s[2] <= q[2])
<1>1. CASE col \notin used /\ m[col][col] # 0
  <2>1. p = <<col, col>>
    BY <1>1 DEF Pivot
  <2>2. p # <<>>
    BY <2>1
  <2> QED BY <1>1, <2>1, <2>2 DEF IsPivot
<1>2. CASE ~(col \notin used /\ m[col][col] # 0) /\ free = {}
  <2>1. p = <<>>
    BY <1>2 DEF Pivot
  <2>2. ASSUME NEW r \in (1..k) \ used, NEW c \in (1..k) \ used PROVE m[r][c] = 0
    <3>1. <<r, c>> \notin free
      BY <1>2
    <3> QED BY <3>1
  <2> QED BY <2>1, <2>2
<1>3. CASE ~(col \notin used /\ m[col][col] # 0) /\ free # {}
  <2>1. p = CHOOSE s \in free : \A q \in free : Before(s, q)
    BY <1>3 DEF Pivot
  <2>2. \E s \in free : \A q \in free : Before(s, q)
    <3> DEFINE R == {q[1] : q \in free}
    <3>1. R # {} /\ R \in SUBSET Nat
      BY <1>3
    <3>2. PICK r \in R : \A y \in R : r <= y
      BY <3>1, HasLeast
    <3> DEFINE C == {q[2] : q \in {s \in free : s[1] = r}}
    <3>3. C # {} /\ C \in SUBSET Nat
      BY <3>2
    <3>4. PICK c \in C : \A y \in C : c <= y
      BY <3>3, HasLeast
    <3>5. PICK s \in free : s[1] = r /\ s[2] = c
      BY <3>4
    <3>6. ASSUME NEW q \in free PROVE Before(s, q)
      <4>1. q[1] \in R /\ r <= q[1] /\ q[1] \in Nat /\ r \in Nat
        BY <3>1, <3>2
      <4>2. q[1] = r => q[2] \in C /\ c <= q[2]
        BY <3>4
      <4> QED BY <3>5, <4>1, <4>2
    <3> QED BY <3>5, <3>6
  <2>3. p \in free
    <3> HIDE DEF free, Before
    <3> QED BY <2>1, <2>2
  <2>4. p # <<>>
    BY <2>3
  <2> QED BY <2>3, <2>4 DEF IsPivot
<1> QED BY <1>1, <1>2, <1>3

-----------------------------------------------------------------------------
(* The turns of the loop *)

Pairs(k) == (1..k) \X (1..k)

TurnStates(k) ==
  [m : Matrices(k), used : SUBSET (1..k), pivots : Seq(Pairs(k)), ok : BOOLEAN]

\* A turn that takes the pivot <<a, b>>, and one that finds none.
PivotTaken(new, st, k, a, b) ==
  /\ new.ok
  /\ a \notin st.used /\ b \notin st.used
  /\ new.used = st.used \cup {b} /\ new.pivots = Append(st.pivots, <<a, b>>)
  /\ \A x, z \in Vectors(k) :
       Holds(st.m, st.used, x, z, k) <=> Holds(new.m, new.used, x, Swapped(z, a, b, k), k)

NoneFound(st, k) == \A r, c \in (1..k) \ st.used : st.m[r][c] = 0

LEMMA TurnIs ==
  ASSUME NEW k \in Nat, NEW st \in TurnStates(k), NEW col \in 1..k,
         NEW new, new = Turn(st, k, col)
  PROVE  /\ new \in TurnStates(k)
         /\ ~st.ok => ~new.ok
         /\ st.ok => \/ \E a, b \in 1..k : PivotTaken(new, st, k, a, b)
                     \/ ~new.ok /\ NoneFound(st, k)
<1>1. /\ st.m \in Matrices(k) /\ st.used \in SUBSET (1..k) /\ st.pivots \in Seq(Pairs(k))
      /\ st.ok \in BOOLEAN
  BY DEF TurnStates
<1>2. PICK p : p = Pivot(st.m, k, st.used, col)
  OBVIOUS
<1>3. IF p = <<>> THEN NoneFound(st, k) ELSE IsPivot(p, st.m, k, st.used)
  BY <1>1, <1>2, PivotIs DEF NoneFound
<1>4. CASE ~st.ok \/ p = <<>>
  <2>1. new = [st EXCEPT !.ok = FALSE]
    BY <1>2, <1>4 DEF Turn
  <2>2. new \in TurnStates(k) /\ ~new.ok
    BY <2>1 DEF TurnStates
  <2> QED BY <1>3, <1>4, <2>2
<1>5. CASE st.ok /\ p # <<>>
  <2>1. PICK a \in 1..k, b \in 1..k : p = <<a, b>> /\ a \notin st.used /\ b \notin st.used
                                      /\ st.m[a][b] # 0
    <3>1. IsPivot(p, st.m, k, st.used)
      BY <1>3, <1>5
    <3> QED BY <3>1 DEF IsPivot
  <2>2. p[1] = a /\ p[2] = b /\ p \in Pairs(k)
    BY <2>1 DEF Pairs
  <2> DEFINE s == SwapRows(st.m, k, a, b)
             e == Eliminate(Normalise(s, k, b), k, b)
             used == st.used \cup {b}
  <2>3. new = [m |-> e, used |-> used, pivots |-> Append(st.pivots, p), ok |-> TRUE]
    BY <1>2, <1>5, <2>2 DEF Turn
  <2>4. s \in Matrices(k) /\ s[b][b] # 0
    <3>1. s = [r \in 1..k |-> st.m[Exchanged(r, a, b)]]
      BY <1>1, SwapRowsIs
    <3>2. \A r \in 1..k : Exchanged(r, a, b) \in 1..k
      BY ExchangedIs
    <3>3. Exchanged(b, a, b) = a
      BY DEF Exchanged
    <3>4. s[b] = st.m[a]
      BY <3>1, <3>3
    <3>5. s \in Matrices(k)
      BY <1>1, <3>1, <3>2 DEF Matrices
    <3> QED BY <2>1, <3>4, <3>5
  <2>5. ASSUME NEW x \in Vectors(k), NEW z \in Vectors(k)
        PROVE  /\ e \in Matrices(k)
               /\ Holds(st.m, st.used, x, z, k) <=> Holds(e, used, x, Swapped(z, a, b, k), k)
    <3>1. PICK y \in Vectors(k) : y = Swapped(z, a, b, k)
      BY <1>1, <2>1, SwapStep
    <3>2. Holds(st.m, st.used, x, z, k) <=> Holds(s, st.used, x, y, k)
      BY <1>1, <2>1, <3>1, SwapStep
    <3> HIDE DEF s
    <3>3. /\ e \in Matrices(k)
          /\ Holds(s, st.used, x, y, k) <=> Holds(e, st.used \cup {b}, x, y, k)
      BY <2>1, <2>4, PivotStep
    <3> QED BY <3>1, <3>2, <3>3
  <2>6. [i \in 1..k |-> 0] \in Vectors(k)
    BY FieldSizes DEF Vectors
  <2>7. e \in Matrices(k)
    BY <2>5, <2>6
  <2> HIDE DEF e
  <2>8. new \in TurnStates(k)
    <3>1. used \in SUBSET (1..k) /\ Append(st.pivots, p) \in Seq(Pairs(k))
      BY <1>1, <2>2
    <3> QED BY <2>3, <2>7, <3>1 DEF TurnStates
  <2>9. PivotTaken(new, st, k, a, b)
    <3>1. /\ new.m = e /\ new.used = used /\ new.ok
          /\ new.pivots = Append(st.pivots, <<a, b>>)
      BY <2>1, <2>3
    <3>2. ASSUME NEW x \in Vectors(k), NEW z \in Vectors(k)
          PROVE  Holds(st.m, st.used, x, z, k)
                   <=> Holds(new.m, new.used, x, Swapped(z, a, b, k), k)
      BY <2>5, <3>1
    <3> HIDE DEF used
    <3>3. new.used = st.used \cup {b}
      BY <3>1 DEF used
    <3> QED BY <2>1, <3>1, <3>2, <3>3 DEF PivotTaken
  <2> QED BY <1>5, <2>8, <2>9
<1> QED BY <1>4, <1>5

Start(src) == [m |-> src, used |-> {}, pivots |-> <<>>, ok |-> TRUE]

\* The states after each turn, and what is returned.
Runs(A, src, k) ==
  /\ A[0] = Start(src)
  /\ \A i \in 0..k : A[i] \in TurnStates(k)
  /\ \A i \in 1..k : A[i] = Turn(A[i - 1], k, i)
  /\ invert_mat(src, k)
       = [ok |-> A[k].ok, m |-> IF A[k].ok THEN UndoSwaps(A[k].m, k, A[k].pivots) ELSE A[k].m]

LEMMA RunsExist ==
  ASSUME NEW k \in Nat, NEW src \in Matrices(k)
  PROVE  \E A : Runs(A, src, k)
<1> DEFINE V == TurnStates(k)
           h == [p \in V \X Nat |-> IF p[2] \in 1..k THEN Turn(p[1], k, p[2]) ELSE p[1]]
<1>1. Start(src) \in V
  <2>1. <<>> \in Seq(Pairs(k))
    OBVIOUS
  <2> QED BY <2>1 DEF Start, TurnStates
<1>2. h \in [V \X Nat -> V]
  <2> SUFFICES ASSUME NEW p \in V \X Nat
               PROVE  (IF p[2] \in 1..k THEN Turn(p[1], k, p[2]) ELSE p[1]) \in V
    OBVIOUS
  <2>1. PICK st \in V, i \in Nat : p[1] = st /\ p[2] = i
    OBVIOUS
  <2>2. i \in 1..k => Turn(st, k, i) \in V
    BY <2>1, TurnIs
  <2> HIDE DEF V
  <2> QED BY <2>1, <2>2
<1>3. \A st \in V, i \in 1..k : h[<<st, i>>] = Turn(st, k, i)
  OBVIOUS
<1> HIDE DEF h, V
<1>4. PICK F \in [Nat -> V] : Counts(F, Start(src), h)
  BY <1>1, <1>2, CountedRecursion
<1>5. F[0] = Start(src)
  BY <1>4 DEF Counts
<1>6. ASSUME NEW i \in 1..k PROVE F[i] = Turn(F[i - 1], k, i)
  <2>1. i \in Nat /\ i # 0 /\ i - 1 \in Nat
    OBVIOUS
  <2>2. F[i] = h[<<F[i - 1], i>>]
    BY <1>4, <2>1 DEF Counts
  <2>3. F[i - 1] \in V
    BY <2>1
  <2> QED BY <1>3, <2>2, <2>3
<1> DEFINE After[i \in 0..k] == IF i = 0 THEN Start(src) ELSE Turn(After[i - 1], k, i)
           G == [i \in 0..k |-> F[i]]
<1>7. \E H : H = [i \in 0..k |-> IF i = 0 THEN Start(src) ELSE Turn(H[i - 1], k, i)]
  <2>1. \A i \in 0..k : G[i] = F[i] /\ (i # 0 => i - 1 \in 0..k /\ i \in 1..k)
    OBVIOUS
  <2>2. ASSUME NEW i \in 0..k
        PROVE  G[i] = IF i = 0 THEN Start(src) ELSE Turn(G[i - 1], k, i)
    <3> HIDE DEF G
    <3> QED BY <1>5, <1>6, <2>1
  <2>3. G = [i \in 0..k |-> IF i = 0 THEN Start(src) ELSE Turn(G[i - 1], k, i)]
    BY <2>2
  <2> QED BY <2>3
<1>8. After = [i \in 0..k |-> IF i = 0 THEN Start(src) ELSE Turn(After[i - 1], k, i)]
  BY <1>7
<1>9. invert_mat(src, k)
       = [ok |-> After[k].ok,
          m |-> IF After[k].ok THEN UndoSwaps(After[k].m, k, After[k].pivots) ELSE After[k].m]
  BY DEF invert_mat, Start
<1> HIDE DEF After, G
<1>10. After[0] = Start(src) /\ \A i \in 1..k : After[i] = Turn(After[i - 1], k, i)
  BY <1>8
<1> DEFINE T == {i \in Nat : i \in 0..k => After[i] = F[i]}
<1>11. 0 \in T
  BY <1>5, <1>10
<1>12. ASSUME NEW i \in Nat, i \in T PROVE i + 1 \in T
  <2> SUFFICES ASSUME i + 1 \in 0..k PROVE After[i + 1] = F[i + 1]
    OBVIOUS
  <2>1. i + 1 \in 1..k /\ (i + 1) - 1 = i /\ After[i] = F[i]
    BY <1>12
  <2>2. After[i + 1] = Turn(After[i], k, i + 1) /\ F[i + 1] = Turn(F[i], k, i + 1)
    BY <1>6, <1>10, <2>1
  <2> QED BY <2>1, <2>2
<1>13. Nat \subseteq T
  <2> HIDE DEF T
  <2> QED BY <1>11, <1>12, Induction
<1>14. \A i \in 0..k : After[i] \in TurnStates(k)
  BY <1>13 DEF V
<1> QED BY <1>9, <1>10, <1>14 DEF Runs

-----------------------------------------------------------------------------
(* The right hand sides, exchanged as the rows were *)

Chain(Y, y, pivots, n, k) ==
  /\ Y[0] = y
  /\ \A i \in 0..n : Y[i] \in Vectors(k)
  /\ \A i \in 1..n : Y[i] = Swapped(Y[i - 1], pivots[i][1], pivots[i][2], k)

LEMMA SwappedIn ==
  ASSUME NEW k \in Nat, NEW v \in Vectors(k), NEW a \in 1..k, NEW b \in 1..k
  PROVE  Swapped(v, a, b, k) \in Vectors(k)
BY ExchangedIs DEF Swapped, Vectors

LEMMA ChainExists ==
  ASSUME NEW k \in Nat, NEW n \in Nat, NEW pivots \in Seq(Pairs(k)), Len(pivots) = n,
         NEW y \in Vectors(k)
  PROVE  \E Y : Chain(Y, y, pivots, n, k)
<1> DEFINE V == Vectors(k)
           h == [p \in V \X Nat |->
                   IF p[2] \in 1..n THEN Swapped(p[1], pivots[p[2]][1], pivots[p[2]][2], k)
                   ELSE p[1]]
<1>1. \A i \in 1..n : pivots[i] \in Pairs(k)
  OBVIOUS
<1>2. \A i \in 1..n : pivots[i][1] \in 1..k /\ pivots[i][2] \in 1..k
  BY <1>1 DEF Pairs
<1>3. h \in [V \X Nat -> V]
  <2> SUFFICES ASSUME NEW p \in V \X Nat
               PROVE  (IF p[2] \in 1..n THEN Swapped(p[1], pivots[p[2]][1], pivots[p[2]][2], k)
                       ELSE p[1]) \in V
    OBVIOUS
  <2>1. PICK v \in V, i \in Nat : p[1] = v /\ p[2] = i
    OBVIOUS
  <2>2. i \in 1..n => Swapped(v, pivots[i][1], pivots[i][2], k) \in V
    BY <1>2, SwappedIn
  <2> HIDE DEF V
  <2> QED BY <2>1, <2>2
<1>4. \A v \in V, i \in 1..n : h[<<v, i>>] = Swapped(v, pivots[i][1], pivots[i][2], k)
  OBVIOUS
<1> HIDE DEF h
<1>5. PICK F \in [Nat -> V] : Counts(F, y, h)
  BY <1>3, CountedRecursion
<1>6. F[0] = y
  BY <1>5 DEF Counts
<1>7. ASSUME NEW i \in 1..n PROVE F[i] = Swapped(F[i - 1], pivots[i][1], pivots[i][2], k)
  <2>1. i \in Nat /\ i # 0 /\ i - 1 \in Nat
    OBVIOUS
  <2>2. F[i] = h[<<F[i - 1], i>>]
    BY <1>5, <2>1 DEF Counts
  <2>3. F[i - 1] \in V
    BY <2>1
  <2> QED BY <1>4, <2>2, <2>3
<1>8. \A i \in 0..n : F[i] \in Vectors(k)
  OBVIOUS
<1> QED BY <1>6, <1>7, <1>8 DEF Chain

Zeros(k) == [i \in 1..k |-> 0]
Unit(t, k) == [i \in 1..k |-> IF i = t THEN 1 ELSE 0]

LEMMA UnitsIn ==
  ASSUME NEW k \in Nat
  PROVE  Zeros(k) \in Vectors(k) /\ \A t \in 1..k : Unit(t, k) \in Vectors(k)
<1>1. 0 \in gf /\ 1 \in gf
  BY FieldSizes
<1> QED BY <1>1 DEF Zeros, Unit, Vectors

LEMMA DotZero ==
  ASSUME NEW k \in Nat, NEW u \in Vectors(k)
  PROVE  Dot(u, Zeros(k), k) = 0
<1>1. /\ Dot(u, Zeros(k), k) = Total(Products(u, Zeros(k), k), k)
      /\ \A i \in 1..k : Products(u, Zeros(k), k)[i] = gf_mul(u[i], Zeros(k)[i])
  BY UnitsIn, DotIs
<1>2. \A i \in 1..k : Products(u, Zeros(k), k)[i] = 0
  <2> SUFFICES ASSUME NEW i \in 1..k PROVE Products(u, Zeros(k), k)[i] = 0
    OBVIOUS
  <2>1. u[i] \in gf /\ Zeros(k)[i] = 0
    BY DEF Vectors, Zeros
  <2>2. gf_mul(u[i], 0) = 0
    BY <2>1, MulLaws
  <2> QED BY <1>1, <2>1, <2>2
<1> QED BY <1>1, <1>2, TotalZero

LEMMA DotUnit ==
  ASSUME NEW k \in Nat, NEW u \in Vectors(k), NEW t \in 1..k
  PROVE  Dot(u, Unit(t, k), k) = u[t]
<1>1. Unit(t, k) \in Vectors(k) /\ u[t] \in gf /\ 0 \in gf
  BY UnitsIn, FieldSizes DEF Vectors
<1>2. Dot(u, Unit(t, k), k) = Xor(gf_mul(u[t], Unit(t, k)[t]), Dot(u, WithoutTerm(Unit(t, k), t, k), k))
  BY <1>1, DotSplit
<1>3. WithoutTerm(Unit(t, k), t, k) = Zeros(k)
  BY DEF WithoutTerm, Unit, Zeros
<1>4. Unit(t, k)[t] = 1 /\ gf_mul(u[t], 1) = u[t] /\ Xor(u[t], 0) = u[t]
  <2>1. Unit(t, k)[t] = 1
    BY DEF Unit
  <2> QED BY <1>1, <2>1, MulLaws, XorLaws
<1>5. Dot(u, Zeros(k), k) = 0
  BY DotZero
<1> QED BY <1>2, <1>3, <1>4, <1>5

LEMMA ZeroChain ==
  ASSUME NEW k \in Nat, NEW n \in Nat, NEW pivots \in Seq(Pairs(k)), Len(pivots) = n,
         NEW Y, Chain(Y, Zeros(k), pivots, n, k)
  PROVE  Y[n] = Zeros(k)
<1>1. \A i \in 1..n : pivots[i][1] \in 1..k /\ pivots[i][2] \in 1..k
  <2>1. \A i \in 1..n : pivots[i] \in Pairs(k)
    OBVIOUS
  <2> QED BY <2>1 DEF Pairs
<1>2. ASSUME NEW a \in 1..k, NEW b \in 1..k PROVE Swapped(Zeros(k), a, b, k) = Zeros(k)
  <2>1. \A i \in 1..k : Exchanged(i, a, b) \in 1..k
    BY ExchangedIs
  <2> QED BY <2>1 DEF Swapped, Zeros
<1> DEFINE T == {i \in Nat : i \in 0..n => Y[i] = Zeros(k)}
<1>3. 0 \in T
  BY DEF Chain
<1>4. ASSUME NEW i \in Nat, i \in T PROVE i + 1 \in T
  <2> SUFFICES ASSUME i + 1 \in 0..n PROVE Y[i + 1] = Zeros(k)
    OBVIOUS
  <2>1. i + 1 \in 1..n /\ (i + 1) - 1 = i /\ Y[i] = Zeros(k)
    BY <1>4
  <2>2. Y[i + 1] = Swapped(Y[i], pivots[i + 1][1], pivots[i + 1][2], k)
    BY <2>1 DEF Chain
  <2> QED BY <1>1, <1>2, <2>1, <2>2
<1>5. Nat \subseteq T
  <2> HIDE DEF T
  <2> QED BY <1>3, <1>4, Induction
<1>6. n \in T
  <2> HIDE DEF T
  <2> QED BY <1>5
<1> QED BY <1>6

\* A matrix whose rows and columns without a pivot are all zero, and some are.
LEMMA SingularIs ==
  ASSUME NEW k \in Nat, NEW m \in Matrices(k), NEW U, NEW t \in (1..k) \ U,
         \A r, c \in (1..k) \ U : m[r][c] = 0
  PROVE  \E x \in Vectors(k) : x[t] # 0 /\ Holds(m, U, x, Zeros(k), k)
<1> DEFINE x == [c \in 1..k |-> IF c = t THEN 1 ELSE IF c \in U THEN m[c][t] ELSE 0]
<1>1. x \in Vectors(k) /\ x[t] # 0
  <2>1. 0 \in gf /\ 1 \in gf /\ \A c \in 1..k : m[c][t] \in gf
    BY FieldSizes DEF Matrices, Vectors
  <2> QED BY <2>1 DEF Vectors
<1>2. Mix(U, Zeros(k), x, k) = Unit(t, k)
  BY DEF Mix, Zeros, Unit
<1>3. ASSUME NEW r \in 1..k
      PROVE  (IF r \in U THEN x[r] ELSE Zeros(k)[r]) = Dot(m[r], Unit(t, k), k)
  <2>1. Dot(m[r], Unit(t, k), k) = m[r][t]
    BY DotUnit DEF Matrices
  <2>2. Zeros(k)[r] = 0
    BY DEF Zeros
  <2>3. r \in U => x[r] = m[r][t]
    OBVIOUS
  <2>4. r \notin U => m[r][t] = 0
    OBVIOUS
  <2> QED BY <2>1, <2>2, <2>3, <2>4
<1>4. Holds(m, U, x, Zeros(k), k)
  <2> HIDE DEF x
  <2> QED BY <1>2, <1>3 DEF Holds
<1> QED BY <1>1, <1>4

\* What is known of the state of the loop after the turn i.
Reduced(st, src, i, k) ==
  /\ st.ok => /\ Len(st.pivots) = i /\ Cardinality(st.used) = i
              /\ \A x, y \in Vectors(k) : \A Y :
                   Chain(Y, y, st.pivots, i, k)
                     => (Holds(src, {}, x, y, k) <=> Holds(st.m, st.used, x, Y[i], k))
  /\ ~st.ok => \E x \in Vectors(k) : /\ \E r \in 1..k : x[r] # 0
                                     /\ Holds(src, {}, x, Zeros(k), k)

LEMMA ReducedFirst ==
  ASSUME NEW k \in Nat, NEW src \in Matrices(k)
  PROVE  Reduced(Start(src), src, 0, k)
<1>1. Cardinality({}) = 0
  BY FS_EmptySet
<1>2. Len(<<>>) = 0
  OBVIOUS
<1> QED BY <1>1, <1>2 DEF Reduced, Start, Chain

LEMMA ReducedTurn ==
  ASSUME NEW k \in Nat, NEW src \in Matrices(k), NEW i \in Nat, i + 1 \in 1..k,
         NEW st \in TurnStates(k), Reduced(st, src, i, k), NEW new, new = Turn(st, k, i + 1)
  PROVE  Reduced(new, src, i + 1, k)
<1>1. /\ new \in TurnStates(k)
      /\ ~st.ok => ~new.ok
      /\ st.ok => \/ \E a, b \in 1..k : PivotTaken(new, st, k, a, b)
                  \/ ~new.ok /\ NoneFound(st, k)
  BY TurnIs
<1>2. /\ st.m \in Matrices(k) /\ st.used \in SUBSET (1..k) /\ st.pivots \in Seq(Pairs(k))
      /\ st.ok \in BOOLEAN /\ new.ok \in BOOLEAN
  BY <1>1 DEF TurnStates
<1>3. CASE ~st.ok
  BY <1>1, <1>3 DEF Reduced
<1>4. ASSUME NEW a \in 1..k, NEW b \in 1..k, st.ok, PivotTaken(new, st, k, a, b)
      PROVE  Reduced(new, src, i + 1, k)
  <2>1. /\ new.ok /\ b \notin st.used /\ new.used = st.used \cup {b}
        /\ new.pivots = Append(st.pivots, <<a, b>>)
        /\ \A x, z \in Vectors(k) :
             Holds(st.m, st.used, x, z, k)
               <=> Holds(new.m, new.used, x, Swapped(z, a, b, k), k)
    BY <1>4 DEF PivotTaken
  <2>2. Len(st.pivots) = i /\ Cardinality(st.used) = i
    BY <1>4 DEF Reduced
  <2>3. Len(new.pivots) = i + 1
    BY <1>2, <2>1, <2>2
  <2>4. Cardinality(new.used) = i + 1
    <3>1. IsFiniteSet(1..k)
      BY FS_Interval
    <3>2. IsFiniteSet(st.used)
      BY <1>2, <3>1, FS_Subset
    <3> QED BY <2>1, <2>2, <3>2, FS_AddElement
  <2>5. ASSUME NEW x \in Vectors(k), NEW y \in Vectors(k), NEW Y,
               Chain(Y, y, new.pivots, i + 1, k)
        PROVE  Holds(src, {}, x, y, k) <=> Holds(new.m, new.used, x, Y[i + 1], k)
    <3>1. /\ \A j \in 1..i : new.pivots[j] = st.pivots[j]
          /\ new.pivots[i + 1] = <<a, b>>
      BY <1>2, <2>1, <2>2
    <3>2. Chain(Y, y, st.pivots, i, k)
      <4>1. \A j \in 0..i : j \in 0..i + 1
        OBVIOUS
      <4>2. \A j \in 1..i : j \in 1..i + 1
        OBVIOUS
      <4> QED BY <2>5, <3>1, <4>1, <4>2 DEF Chain
    <3>3. Holds(src, {}, x, y, k) <=> Holds(st.m, st.used, x, Y[i], k)
      BY <1>4, <3>2 DEF Reduced
    <3>4. Y[i] \in Vectors(k) /\ Y[i + 1] = Swapped(Y[i], a, b, k)
      <4>1. i \in 0..i + 1 /\ i + 1 \in 1..i + 1 /\ (i + 1) - 1 = i
        OBVIOUS
      <4>2. Y[i + 1] = Swapped(Y[(i + 1) - 1], new.pivots[i + 1][1], new.pivots[i + 1][2], k)
        BY <2>5, <4>1 DEF Chain
      <4>3. new.pivots[i + 1][1] = a /\ new.pivots[i + 1][2] = b
        BY <3>1
      <4>4. Y[i] \in Vectors(k)
        BY <2>5, <4>1 DEF Chain
      <4> QED BY <4>1, <4>2, <4>3, <4>4
    <3> QED BY <2>1, <3>3, <3>4
  <2> QED BY <2>1, <2>3, <2>4, <2>5 DEF Reduced
<1>5. CASE st.ok /\ ~new.ok /\ NoneFound(st, k)
  <2>1. Len(st.pivots) = i /\ Cardinality(st.used) = i
    BY <1>5 DEF Reduced
  <2>2. PICK t \in (1..k) \ st.used : TRUE
    <3>1. st.used # 1..k
      <4>1. 1 \in Int /\ k \in Int /\ (IF 1 > k THEN 0 ELSE k - 1 + 1) = k
        OBVIOUS
      <4>2. Cardinality(1..k) = k
        BY <4>1, FS_Interval
      <4> QED BY <2>1, <4>2
    <3> QED BY <1>2, <3>1
  <2>3. PICK x \in Vectors(k) : x[t] # 0 /\ Holds(st.m, st.used, x, Zeros(k), k)
    BY <1>2, <1>5, <2>2, SingularIs DEF NoneFound
  <2>4. PICK Y : Chain(Y, Zeros(k), st.pivots, i, k)
    BY <1>2, <2>1, UnitsIn, ChainExists
  <2>5. Y[i] = Zeros(k)
    BY <1>2, <2>1, <2>4, ZeroChain
  <2>6. Holds(src, {}, x, Zeros(k), k)
    BY <1>5, <2>3, <2>4, <2>5, UnitsIn DEF Reduced
  <2> QED BY <1>5, <2>2, <2>3, <2>6 DEF Reduced
<1> QED BY <1>1, <1>2, <1>3, <1>4, <1>5

LEMMA ReducedLast ==
  ASSUME NEW k \in Nat, NEW src \in Matrices(k), NEW A, Runs(A, src, k)
  PROVE  Reduced(A[k], src, k, k)
<1> DEFINE T == {i \in Nat : i \in 0..k => Reduced(A[i], src, i, k)}
<1>1. 0 \in T
  BY ReducedFirst DEF Runs
<1>2. ASSUME NEW i \in Nat, i \in T PROVE i + 1 \in T
  <2> SUFFICES ASSUME i + 1 \in 0..k PROVE Reduced(A[i + 1], src, i + 1, k)
    OBVIOUS
  <2>1. i + 1 \in 1..k /\ (i + 1) - 1 = i /\ i \in 0..k /\ Reduced(A[i], src, i, k)
    BY <1>2
  <2>2. A[i] \in TurnStates(k) /\ A[i + 1] = Turn(A[i], k, i + 1)
    BY <2>1 DEF Runs
  <2> QED BY <2>1, <2>2, ReducedTurn
<1>3. Nat \subseteq T
  <2> HIDE DEF T
  <2> QED BY <1>1, <1>2, Induction
<1>4. k \in T
  <2> HIDE DEF T
  <2> QED BY <1>3
<1> QED BY <1>4

-----------------------------------------------------------------------------
(* The exchanges of rows undone *)

Undoes(D, m, pivots, k) ==
  /\ D[k + 1] = m
  /\ \A i \in 1..k + 1 : D[i] \in Matrices(k)
  /\ \A i \in 1..k : D[i] = SwapColumns(D[i + 1], k, pivots[i][1], pivots[i][2])
  /\ UndoSwaps(m, k, pivots) = D[1]

LEMMA SwapColumnsIn ==
  ASSUME NEW k \in Nat, NEW m \in Matrices(k), NEW a \in 1..k, NEW b \in 1..k
  PROVE  /\ SwapColumns(m, k, a, b) \in Matrices(k)
         /\ \A r \in 1..k : SwapColumns(m, k, a, b)[r] = Swapped(m[r], a, b, k)
<1>1. SwapColumns(m, k, a, b) = [r \in 1..k |-> Swapped(m[r], a, b, k)]
  BY SwapColumnsIs
<1>2. \A r \in 1..k : Swapped(m[r], a, b, k) \in Vectors(k)
  BY SwappedIn DEF Matrices
<1> QED BY <1>1, <1>2 DEF Matrices

LEMMA UndoesExist ==
  ASSUME NEW k \in Nat, NEW m \in Matrices(k), NEW pivots \in Seq(Pairs(k)), Len(pivots) = k
  PROVE  \E D : Undoes(D, m, pivots, k)
<1> DEFINE V == Matrices(k)
           Undo(v, i) == SwapColumns(v, k, pivots[i][1], pivots[i][2])
           h == [p \in V \X Nat |-> IF p[2] \in 1..k THEN Undo(p[1], k + 1 - p[2]) ELSE p[1]]
<1>1. \A i \in 1..k : pivots[i][1] \in 1..k /\ pivots[i][2] \in 1..k
  <2>1. \A i \in 1..k : pivots[i] \in Pairs(k)
    OBVIOUS
  <2> QED BY <2>1 DEF Pairs
<1>2. \A v \in V, i \in 1..k : Undo(v, i) \in V
  BY <1>1, SwapColumnsIn
<1> HIDE DEF V, Undo
<1>3. h \in [V \X Nat -> V]
  <2> SUFFICES ASSUME NEW p \in V \X Nat
               PROVE  (IF p[2] \in 1..k THEN Undo(p[1], k + 1 - p[2]) ELSE p[1]) \in V
    OBVIOUS
  <2>1. PICK v \in V, j \in Nat : p[1] = v /\ p[2] = j
    OBVIOUS
  <2>2. j \in 1..k => k + 1 - j \in 1..k
    OBVIOUS
  <2> QED BY <1>2, <2>1, <2>2
<1>4. \A v \in V, j \in 1..k : h[<<v, j>>] = Undo(v, k + 1 - j)
  OBVIOUS
<1> HIDE DEF h
<1>5. m \in V
  BY DEF V
<1>6. PICK F \in [Nat -> V] : Counts(F, m, h)
  BY <1>3, <1>5, CountedRecursion
<1>7. F[0] = m
  BY <1>6 DEF Counts
<1>8. ASSUME NEW j \in 1..k PROVE F[j] = Undo(F[j - 1], k + 1 - j)
  <2>1. j \in Nat /\ j # 0 /\ j - 1 \in Nat
    OBVIOUS
  <2>2. F[j] = h[<<F[j - 1], j>>]
    BY <1>6, <2>1 DEF Counts
  <2>3. F[j - 1] \in V
    BY <2>1
  <2> QED BY <1>4, <2>2, <2>3
<1> DEFINE D == [i \in 1..k + 1 |-> F[k + 1 - i]]
<1>9. /\ D[k + 1] = m /\ \A i \in 1..k + 1 : D[i] \in V
      /\ \A i \in 1..k : D[i] = Undo(D[i + 1], i)
  <2>1. \A i \in 1..k + 1 : D[i] = F[k + 1 - i] /\ k + 1 - i \in Nat
    OBVIOUS
  <2>2. D[k + 1] = m
    <3>1. k + 1 \in 1..k + 1 /\ k + 1 - (k + 1) = 0
      OBVIOUS
    <3> HIDE DEF D
    <3> QED BY <1>7, <2>1, <3>1
  <2>3. \A i \in 1..k + 1 : D[i] \in V
    <3> HIDE DEF D
    <3> QED BY <2>1
  <2>4. ASSUME NEW i \in 1..k PROVE D[i] = Undo(D[i + 1], i)
    <3>1. PICK j \in 1..k : j = k + 1 - i
      OBVIOUS
    <3>2. i \in 1..k + 1 /\ i + 1 \in 1..k + 1 /\ k + 1 - (i + 1) = j - 1 /\ k + 1 - j = i
      BY <3>1
    <3> HIDE DEF D
    <3> QED BY <1>8, <2>1, <3>1, <3>2
  <2> HIDE DEF D
  <2> QED BY <2>2, <2>3, <2>4
<1> DEFINE Undone[i \in 1..k + 1] == IF i = k + 1 THEN m
                                     ELSE SwapColumns(Undone[i + 1], k, pivots[i][1], pivots[i][2])
<1>10. \E H : H = [i \in 1..k + 1 |-> IF i = k + 1 THEN m
                                      ELSE SwapColumns(H[i + 1], k, pivots[i][1], pivots[i][2])]
  <2>1. \A i \in 1..k + 1 : i # k + 1 => i \in 1..k
    OBVIOUS
  <2> DEFINE E(i) == IF i = k + 1 THEN m
                     ELSE SwapColumns(D[i + 1], k, pivots[i][1], pivots[i][2])
  <2>2. ASSUME NEW i \in 1..k + 1
        PROVE  D[i] = E(i)
    <3> HIDE DEF D
    <3> QED BY <1>9, <2>1 DEF Undo
  <2>3. D = [i \in 1..k + 1 |-> E(i)]
    <3>1. D = [i \in 1..k + 1 |-> D[i]]
      OBVIOUS
    <3> HIDE DEF D, E
    <3> QED BY <2>2, <3>1
  <2> QED BY <2>3
<1>11. Undone = [i \in 1..k + 1 |-> IF i = k + 1 THEN m
                                   ELSE SwapColumns(Undone[i + 1], k, pivots[i][1], pivots[i][2])]
  BY <1>10
<1>12. UndoSwaps(m, k, pivots) = Undone[1]
  BY DEF UndoSwaps
<1> HIDE DEF Undone, D
<1>13. Undone[k + 1] = m /\ \A i \in 1..k : Undone[i] = Undo(Undone[i + 1], i)
  <2>1. k + 1 \in 1..k + 1 /\ \A i \in 1..k : i \in 1..k + 1 /\ i # k + 1
    OBVIOUS
  <2> QED BY <1>11, <2>1 DEF Undo
<1> DEFINE T == {j \in Nat : j \in 0..k => Undone[k + 1 - j] = D[k + 1 - j]}
<1>14. 0 \in T
  <2>1. k + 1 - 0 = k + 1
    OBVIOUS
  <2> QED BY <1>9, <1>13, <2>1
<1>15. ASSUME NEW j \in Nat, j \in T PROVE j + 1 \in T
  <2> SUFFICES ASSUME j + 1 \in 0..k PROVE Undone[k + 1 - (j + 1)] = D[k + 1 - (j + 1)]
    OBVIOUS
  <2>1. PICK i \in 1..k : i = k + 1 - (j + 1)
    OBVIOUS
  <2>2. i + 1 = k + 1 - j /\ j \in 0..k
    BY <2>1
  <2>3. Undone[i + 1] = D[i + 1]
    BY <1>15, <2>2
  <2> QED BY <1>9, <1>13, <2>1, <2>3
<1>16. Nat \subseteq T
  <2> HIDE DEF T
  <2> QED BY <1>14, <1>15, Induction
<1>17. Undone[1] = D[1]
  <2>1. k \in T /\ k + 1 - k = 1 /\ k \in 0..k
    <3> HIDE DEF T
    <3> QED BY <1>16
  <2> QED BY <2>1
<1> QED BY <1>9, <1>12, <1>17 DEF Undoes, V, Undo

LEMMA UndoSwapsIs ==
  ASSUME NEW k \in Nat, NEW m \in Matrices(k), NEW pivots \in Seq(Pairs(k)),
         Len(pivots) = k, NEW y \in Vectors(k), NEW Y, Chain(Y, y, pivots, k, k)
  PROVE  /\ UndoSwaps(m, k, pivots) \in Matrices(k)
         /\ \A r \in 1..k : Dot(UndoSwaps(m, k, pivots)[r], y, k) = Dot(m[r], Y[k], k)
<1>1. PICK D : Undoes(D, m, pivots, k)
  BY UndoesExist
<1>2. \A i \in 1..k : pivots[i][1] \in 1..k /\ pivots[i][2] \in 1..k
  <2>1. \A i \in 1..k : pivots[i] \in Pairs(k)
    OBVIOUS
  <2> QED BY <2>1 DEF Pairs
<1> DEFINE T == {j \in Nat : j \in 0..k => \A r \in 1..k :
                   Dot(D[j + 1][r], Y[j], k) = Dot(D[1][r], y, k)}
<1>3. 0 \in T
  <2>1. 0 + 1 = 1 /\ Y[0] = y
    BY DEF Chain
  <2> QED BY <2>1
<1>4. ASSUME NEW j \in Nat, j \in T PROVE j + 1 \in T
  <2> SUFFICES ASSUME j + 1 \in 0..k, NEW r \in 1..k
               PROVE  Dot(D[(j + 1) + 1][r], Y[j + 1], k) = Dot(D[1][r], y, k)
    OBVIOUS
  <2>1. PICK i \in 1..k : i = j + 1
    OBVIOUS
  <2>2. i - 1 = j /\ j \in 0..k /\ i - 1 \in 0..k /\ i \in 1..k + 1 /\ i + 1 \in 1..k + 1
    BY <2>1
  <2>3. Dot(D[i][r], Y[i - 1], k) = Dot(D[1][r], y, k)
    BY <1>4, <2>1, <2>2
  <2>4. PICK a \in 1..k, b \in 1..k : a = pivots[i][1] /\ b = pivots[i][2]
    BY <1>2
  <2>5. Y[i] = Swapped(Y[i - 1], a, b, k) /\ Y[i - 1] \in Vectors(k)
    BY <2>2, <2>4 DEF Chain
  <2>6. D[i + 1] \in Matrices(k) /\ D[i] = SwapColumns(D[i + 1], k, a, b)
    BY <1>1, <2>2, <2>4 DEF Undoes
  <2>7. PICK u \in Vectors(k) : u = D[i + 1][r] /\ D[i][r] = Swapped(u, a, b, k)
    <3>1. PICK d \in Matrices(k) : d = D[i + 1]
      BY <2>6
    <3>2. SwapColumns(d, k, a, b)[r] = Swapped(d[r], a, b, k)
      BY SwapColumnsIn
    <3>3. d[r] \in Vectors(k)
      BY DEF Matrices
    <3> QED BY <2>6, <3>1, <3>2, <3>3
  <2>8. Dot(D[i][r], Y[i - 1], k) = Dot(D[i + 1][r], Y[i], k)
    <3>1. PICK v \in Vectors(k) : v = Y[i - 1]
      BY <2>5
    <3>2. Dot(Swapped(u, a, b, k), v, k) = Dot(u, Swapped(v, a, b, k), k)
      BY DotSwapped
    <3> QED BY <2>5, <2>7, <3>1, <3>2
  <2> QED BY <2>1, <2>3, <2>8
<1>5. Nat \subseteq T
  <2> HIDE DEF T
  <2> QED BY <1>3, <1>4, Induction
<1>6. k \in T /\ k \in 0..k
  <2> HIDE DEF T
  <2> QED BY <1>5
<1>7. D[k + 1] = m /\ UndoSwaps(m, k, pivots) = D[1] /\ D[1] \in Matrices(k)
  <2>1. 1 \in 1..k + 1
    OBVIOUS
  <2> QED BY <1>1, <2>1 DEF Undoes
<1>8. \A r \in 1..k : Dot(D[k + 1][r], Y[k], k) = Dot(D[1][r], y, k)
  BY <1>6
<1> HIDE DEF T
<1> QED BY <1>7, <1>8

-----------------------------------------------------------------------------
(* invert_mat *)

\* y is the product of the matrix and x.
Sends(m, x, y, k) == \A r \in 1..k : y[r] = Dot(m[r], x, k)

LEMMA SendsHolds ==
  ASSUME NEW k \in Nat, NEW m, NEW x \in Vectors(k), NEW y
  PROVE  Holds(m, {}, x, y, k) <=> Sends(m, x, y, k)
<1>1. Mix({}, y, x, k) = x
  BY DEF Mix, Vectors
<1> QED BY <1>1 DEF Holds, Sends

\* When it succeeds, the result solves the equations of its argument and is
\* solved by them; when it fails, the argument sends a vector to zero.
LEMMA InversionIs ==
  ASSUME NEW k \in Nat, NEW src \in Matrices(k), NEW inv, inv = invert_mat(src, k)
  PROVE  /\ inv.ok \in BOOLEAN
         /\ inv.ok => /\ inv.m \in Matrices(k)
                      /\ \A x, y \in Vectors(k) : Sends(src, x, y, k) <=> Sends(inv.m, y, x, k)
         /\ ~inv.ok => \E x \in Vectors(k) : /\ \E r \in 1..k : x[r] # 0
                                             /\ Sends(src, x, Zeros(k), k)
<1>1. PICK A : Runs(A, src, k)
  BY RunsExist
<1>2. PICK st \in TurnStates(k) : st = A[k]
  <2>1. k \in 0..k
    OBVIOUS
  <2> QED BY <1>1, <2>1 DEF Runs
<1>3. /\ st.m \in Matrices(k) /\ st.used \in SUBSET (1..k) /\ st.pivots \in Seq(Pairs(k))
      /\ st.ok \in BOOLEAN
  BY DEF TurnStates
<1>4. inv.ok = st.ok /\ (st.ok => inv.m = UndoSwaps(st.m, k, st.pivots))
  BY <1>1, <1>2 DEF Runs
<1>5. Reduced(st, src, k, k)
  BY <1>1, <1>2, ReducedLast
<1>6. CASE ~st.ok
  <2>1. PICK x \in Vectors(k) : (\E r \in 1..k : x[r] # 0) /\ Holds(src, {}, x, Zeros(k), k)
    BY <1>5, <1>6 DEF Reduced
  <2>2. Sends(src, x, Zeros(k), k)
    BY <2>1, SendsHolds
  <2> QED BY <1>3, <1>4, <1>6, <2>1, <2>2
<1>7. CASE st.ok
  <2>1. Len(st.pivots) = k /\ Cardinality(st.used) = k
    BY <1>5, <1>7 DEF Reduced
  <2>2. st.used = 1..k
    <3>1. 1 \in Int /\ k \in Int /\ (IF 1 > k THEN 0 ELSE k - 1 + 1) = k
      OBVIOUS
    <3>2. IsFiniteSet(1..k) /\ Cardinality(1..k) = k
      BY <3>1, FS_Interval
    <3> QED BY <1>3, <2>1, <3>2, FS_Subset
  <2>3. inv.m \in Matrices(k)
    <3>1. PICK Y : Chain(Y, Zeros(k), st.pivots, k, k)
      BY <1>3, <2>1, UnitsIn, ChainExists
    <3> QED BY <1>3, <1>4, <1>7, <2>1, <3>1, UnitsIn, UndoSwapsIs
  <2>4. ASSUME NEW x \in Vectors(k), NEW y \in Vectors(k)
        PROVE  Sends(src, x, y, k) <=> Sends(inv.m, y, x, k)
    <3>1. PICK Y : Chain(Y, y, st.pivots, k, k)
      BY <1>3, <2>1, ChainExists
    <3>2. Y[k] \in Vectors(k)
      <4>1. k \in 0..k
        OBVIOUS
      <4> QED BY <3>1, <4>1 DEF Chain
    <3>3. Sends(src, x, y, k) <=> Holds(st.m, st.used, x, Y[k], k)
      BY <1>5, <1>7, <3>1, SendsHolds DEF Reduced
    <3>4. Holds(st.m, st.used, x, Y[k], k) <=> Sends(st.m, Y[k], x, k)
      <4>1. Mix(1..k, Y[k], x, k) = Y[k]
        BY <3>2 DEF Mix, Vectors
      <4> QED BY <2>2, <4>1 DEF Holds, Sends
    <3>5. \A r \in 1..k : Dot(inv.m[r], y, k) = Dot(st.m[r], Y[k], k)
      BY <1>3, <1>4, <1>7, <2>1, <3>1, UndoSwapsIs
    <3>6. Sends(st.m, Y[k], x, k) <=> Sends(inv.m, y, x, k)
      BY <3>5 DEF Sends
    <3> QED BY <3>3, <3>4, <3>6
  <2> QED BY <1>3, <1>4, <1>7, <2>3, <2>4
<1> QED BY <1>3, <1>6, <1>7

(* invert_mat fails exactly on the matrices that have no inverse, of whatever
   order and whatever elements, and what it returns for the others is their
   inverse: the rows exchanged for a pivot are put right by exchanging the
   columns, last pivot first. *)
THEOREM InvertsEvery ==
  ASSUME NEW k \in Nat, NEW src \in Matrices(k)
  PROVE  InvertsExactly(src, k)
<1> DEFINE singular == \E v \in [1..k -> gf] :
                         (\E i \in 1..k : v[i] # 0) /\ \A r \in 1..k : Dot(src[r], v, k) = 0
           inv == invert_mat(src, k)
<1>1. /\ inv.ok \in BOOLEAN
      /\ inv.ok => /\ inv.m \in Matrices(k)
                   /\ \A x, y \in Vectors(k) : Sends(src, x, y, k) <=> Sends(inv.m, y, x, k)
      /\ ~inv.ok => \E x \in Vectors(k) : /\ \E r \in 1..k : x[r] # 0
                                          /\ Sends(src, x, Zeros(k), k)
  BY InversionIs
<1>2. InvertsExactly(src, k)
        <=> /\ inv.ok = ~singular
            /\ inv.ok =>
                 \A r, c \in 1..k :
                   Dot(src[r], [i \in 1..k |-> inv.m[i][c]], k) = IF r = c THEN 1 ELSE 0
  BY DEF InvertsExactly
<1> HIDE DEF inv
<1>3. Zeros(k) \in Vectors(k) /\ \A r \in 1..k : Zeros(k)[r] = 0
  BY UnitsIn DEF Zeros
<1>4. ASSUME ~inv.ok PROVE singular
  <2>1. PICK x \in Vectors(k) : (\E r \in 1..k : x[r] # 0) /\ Sends(src, x, Zeros(k), k)
    BY <1>1, <1>4
  <2> QED BY <1>3, <2>1 DEF Sends, Vectors
<1>5. ASSUME inv.ok, singular PROVE FALSE
  <2>1. PICK v \in Vectors(k) : /\ \E i \in 1..k : v[i] # 0
                                /\ \A r \in 1..k : Dot(src[r], v, k) = 0
    BY <1>5 DEF Vectors
  <2>2. Sends(src, v, Zeros(k), k)
    BY <1>3, <2>1 DEF Sends
  <2>3. Sends(inv.m, Zeros(k), v, k)
    BY <1>1, <1>3, <1>5, <2>2
  <2>4. \A r \in 1..k : v[r] = 0
    BY <1>1, <1>5, <2>3, DotZero DEF Sends, Matrices
  <2> QED BY <2>1, <2>4
<1>6. ASSUME inv.ok, NEW r \in 1..k, NEW c \in 1..k
      PROVE  Dot(src[r], [i \in 1..k |-> inv.m[i][c]], k) = IF r = c THEN 1 ELSE 0
  <2> DEFINE x == [i \in 1..k |-> inv.m[i][c]]
             y == Unit(c, k)
  <2>1. x \in Vectors(k)
    BY <1>1, <1>6 DEF Matrices, Vectors
  <2>2. y \in Vectors(k) /\ y[r] = IF r = c THEN 1 ELSE 0
    BY UnitsIn DEF Unit
  <2>3. Sends(inv.m, y, x, k)
    <3>1. \A i \in 1..k : Dot(inv.m[i], y, k) = inv.m[i][c]
      BY <1>1, <1>6, DotUnit DEF Matrices
    <3> HIDE DEF y
    <3> QED BY <3>1 DEF Sends
  <2> HIDE DEF x, y
  <2>4. Sends(src, x, y, k)
    BY <1>1, <1>6, <2>1, <2>2, <2>3
  <2> QED BY <2>2, <2>4 DEF Sends, x
<1> HIDE DEF singular
<1> QED BY <1>1, <1>2, <1>4, <1>5, <1>6

(* The matrices of zeros and ones that TLC inverts are among them. *)
COROLLARY InversionExact ==
  ASSUME NEW k \in Nat
  PROVE  InversionIsExact(k)
<1> SUFFICES ASSUME NEW src \in [1..k -> [1..k -> {0, 1}]] PROVE InvertsExactly(src, k)
  BY DEF InversionIsExact
<1>1. src \in Matrices(k)
  BY FieldSizes DEF Matrices, Vectors
<1> QED BY <1>1, InvertsEvery
=============================================================================
