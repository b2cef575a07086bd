---------------------------- MODULE FecCodeProofs ----------------------------
(***************************************************************************)
(* The unrolled loops of fec.c, for every size of a block and any number   *)
(* of symbols handled in a turn, and its code: what fec_encode makes of    *)
(* the blocks of a group, fec_decode makes whole again from any of it.     *)
(***************************************************************************)
EXTENDS FecMatrixProofs

-----------------------------------------------------------------------------
(* Loops *)

LEMMA WholeTurns ==
  ASSUME NEW n \in Nat
  PROVE  /\ n \div UNROLL \in Nat /\ n % UNROLL \in 0..UNROLL - 1
         /\ n = UNROLL * (n \div UNROLL) + (n % UNROLL)
  BY FecAssumption

\* A turn more needs UNROLL symbols more.
LEMMA Turned ==
  ASSUME NEW a \in Nat, NEW b \in Nat
  PROVE  /\ UNROLL * a \in Nat /\ UNROLL * (a + 1) = UNROLL * a + UNROLL
         /\ a <= b => UNROLL * a <= UNROLL * b
         /\ a < b => UNROLL * a + UNROLL <= UNROLL * b
         /\ a # b => UNROLL * a # UNROLL * b
<1>1. UNROLL \in Nat \ {0}
  BY FecAssumption
<1>2. UNROLL * a \in Nat /\ UNROLL * (a + 1) = UNROLL * a + UNROLL
  BY <1>1
<1>3. ASSUME NEW x \in Nat, NEW y \in Nat, x < y PROVE UNROLL * x + UNROLL <= UNROLL * y
  <2>1. PICK d \in Nat : y = x + 1 + d
    <3> y - x - 1 \in Nat /\ y = x + 1 + (y - x - 1)
      BY <1>3
    <3> QED OBVIOUS
  <2>2. UNROLL * y = UNROLL * x + UNROLL + UNROLL * d /\ UNROLL * d \in Nat
    BY <1>1, <2>1
  <2>3. UNROLL * x \in Nat /\ UNROLL \in Nat
    BY <1>1
  <2> QED BY <2>2, <2>3
<1>4. UNROLL * b \in Nat
  BY <1>1
<1>5. a < b \/ b < a \/ a = b
  OBVIOUS
<1>6. a < b => UNROLL * a + UNROLL <= UNROLL * b
  BY <1>3
<1>7. b < a => UNROLL * b + UNROLL <= UNROLL * a
  BY <1>3
<1> QED BY <1>1, <1>2, <1>4, <1>5, <1>6, <1>7

\* The remainder of a multiple.
LEMMA Multiple ==
  ASSUME NEW i \in Nat
  PROVE  (UNROLL * i) % UNROLL = 0 /\ UNROLL * i \in Nat
<1>1. UNROLL \in Nat \ {0} /\ UNROLL * i \in Nat
  BY FecAssumption, Turned
<1>2. PICK n \in Nat : n = UNROLL * i
  BY <1>1
<1>3. PICK d \in Nat, r \in 0..UNROLL - 1 :
        d = n \div UNROLL /\ r = n % UNROLL /\ n = UNROLL * d + r
  BY WholeTurns
<1>4. /\ UNROLL * d \in Nat
      /\ d < i => UNROLL * d + UNROLL <= UNROLL * i
      /\ i < d => UNROLL * i + UNROLL <= UNROLL * d
  BY Turned
<1>5. d = i
  BY <1>1, <1>2, <1>3, <1>4
<1>6. r = 0
  BY <1>1, <1>2, <1>3, <1>5
<1> QED BY <1>1, <1>2, <1>3, <1>6

\* The unrolled loop makes size \div UNROLL turns, one after the other.
LEMMA TurnsAre ==
  ASSUME NEW size \in Nat, NEW k \in Nat, k = size \div UNROLL
  PROVE  /\ Turns(size) = {UNROLL * i : i \in 0..k - 1}
         /\ Cardinality(Turns(size)) = k
<1>1. UNROLL \in Nat \ {0}
  BY FecAssumption
<1>2. PICK r \in 0..UNROLL - 1 : size = UNROLL * k + r
  BY WholeTurns
<1>3. UNROLL * k \in Nat
  BY Turned
<1>4. ASSUME NEW p \in Turns(size) PROVE p \in {UNROLL * i : i \in 0..k - 1}
  <2>1. p \in Nat /\ p % UNROLL = 0 /\ p + UNROLL <= size
    BY <1>1 DEF Turns
  <2>2. PICK i \in Nat : p = UNROLL * i + 0 /\ UNROLL * i \in Nat
    BY <2>1, WholeTurns, Turned
  <2>3. k <= i => UNROLL * k <= UNROLL * i
    BY Turned
  <2>4. i < k
    BY <1>1, <1>2, <1>3, <2>1, <2>2, <2>3
  <2> QED BY <2>2, <2>4
<1>5. ASSUME NEW i \in 0..k - 1 PROVE UNROLL * i \in Turns(size)
  <2>1. i \in Nat /\ i < k
    OBVIOUS
  <2>2. UNROLL * i \in Nat /\ UNROLL * i + UNROLL <= UNROLL * k
    BY <2>1, Turned
  <2>3. (UNROLL * i) % UNROLL = 0
    BY <2>1, Multiple
  <2>4. UNROLL * i \in 0..size /\ UNROLL * i < size - UNROLL + 1
    BY <1>1, <1>2, <1>3, <2>2
  <2> QED BY <2>3, <2>4 DEF Turns
<1>6. Turns(size) = {UNROLL * i : i \in 0..k - 1}
  BY <1>4, <1>5
<1>7. Cardinality(Turns(size)) = k
  <2>1. PICK f : f = [i \in 0..k - 1 |-> UNROLL * i]
    OBVIOUS
  <2>2. f \in [0..k - 1 -> Turns(size)]
    BY <1>5, <2>1
  <2>3. ASSUME NEW i \in 0..k - 1, NEW j \in 0..k - 1, f[i] = f[j] PROVE i = j
    <3> UNROLL * i = UNROLL * j /\ i \in Nat /\ j \in Nat
      BY <2>1, <2>3
    <3> QED BY Turned
  <2>4. \A p \in Turns(size) : \E i \in 0..k - 1 : f[i] = p
    BY <1>6, <2>1
  <2>5. f \in Bijection(0..k - 1, Turns(size))
    BY <2>2, <2>3, <2>4 DEF Bijection, Injection, Surjection, IsInjective
  <2>6. IsFiniteSet(0..k - 1) /\ Cardinality(0..k - 1) = k
    <3> 0 \in Int /\ k - 1 \in Int /\ (IF 0 > k - 1 THEN 0 ELSE k - 1 - 0 + 1) = k
      OBVIOUS
    <3> QED BY FS_Interval
  <2> QED BY <2>5, <2>6, FS_Bijection DEF ExistsBijection
<1> QED BY <1>6, <1>7

(* The unrolled loop and the final loop of addmul and mul together visit every
   symbol of a block and none twice, for every size of the block, those that
   are no multiple of UNROLL or smaller than it included. *)
THEOREM LoopsVisitAll ==
  \A size \in Nat : /\ UnrolledPart(size) \cup FinalPart(size) = 0..size - 1
                    /\ UnrolledPart(size) \cap FinalPart(size) = {}
<1> SUFFICES ASSUME NEW size \in Nat
             PROVE  /\ UnrolledPart(size) \cup FinalPart(size) = 0..size - 1
                    /\ UnrolledPart(size) \cap FinalPart(size) = {}
  OBVIOUS
<1>1. UNROLL \in Nat \ {0}
  BY FecAssumption
<1>2. PICK k \in Nat : k = size \div UNROLL
  BY WholeTurns
<1>3. PICK done \in Nat : done = UNROLL * k /\ done <= size
  <2> PICK r \in 0..UNROLL - 1 : size = UNROLL * k + r
    BY <1>2, WholeTurns
  <2> UNROLL * k \in Nat
    BY Turned
  <2> QED BY <1>1
<1>4. FinalPart(size) = done..size - 1
  BY <1>2, <1>3, TurnsAre DEF FinalPart
<1>5. ASSUME NEW x \in UnrolledPart(size) PROVE x \in 0..done - 1
  <2>1. PICK i \in 0..k - 1, j \in 0..UNROLL - 1 : x = UNROLL * i + j
    BY <1>2, TurnsAre DEF UnrolledPart
  <2>2. i \in Nat /\ i < k
    BY <2>1
  <2>3. UNROLL * i \in Nat /\ UNROLL * i + UNROLL <= UNROLL * k
    BY <2>2, Turned
  <2> QED BY <1>1, <1>3, <2>1, <2>3
<1>6. ASSUME NEW x \in 0..done - 1 PROVE x \in UnrolledPart(size)
  <2>1. PICK i \in Nat, j \in 0..UNROLL - 1 : x = UNROLL * i + j
    BY WholeTurns
  <2>2. UNROLL * i \in Nat /\ (k <= i => UNROLL * k <= UNROLL * i)
    BY Turned
  <2>3. i \in 0..k - 1
    BY <1>1, <1>3, <2>1, <2>2
  <2>4. UNROLL * i \in Turns(size)
    BY <1>2, <2>3, TurnsAre
  <2> QED BY <2>1, <2>4 DEF UnrolledPart
<1>7. UnrolledPart(size) = 0..done - 1
  BY <1>5, <1>6
<1> QED BY <1>3, <1>4, <1>7

(* The sizes that TLC tries are among them. *)
COROLLARY LoopsRight == LoopsVisitEverySymbolOnce
<1> 3 * UNROLL \in Nat
  BY FecAssumption
<1> \A size \in 0..3 * UNROLL : size \in Nat
  OBVIOUS
<1> QED BY LoopsVisitAll DEF LoopsVisitEverySymbolOnce

-----------------------------------------------------------------------------
(* The matrices of the code have an inverse: those whose elements are the  *)
(* inverses of a[r] - c[i], where no a is repeated, no c is, and none is   *)
(* both.                                                                   *)

LEMMA MulSwap ==
  ASSUME NEW x \in gf, NEW y \in gf, NEW z \in gf
  PROVE  gf_mul(x, gf_mul(y, z)) = gf_mul(y, gf_mul(x, z))
<1>1. gf_mul(x, gf_mul(y, z)) = gf_mul(gf_mul(x, y), z)
  BY MulAssoc
<1>2. gf_mul(y, gf_mul(x, z)) = gf_mul(gf_mul(y, x), z)
  BY MulAssoc
<1>3. gf_mul(x, y) = gf_mul(y, x)
  BY MulLaws
<1> QED BY <1>1, <1>2, <1>3

LEMMA InverseOfSum ==
  ASSUME NEW p \in gf, p # 0, NEW s \in gf, NEW x \in gf
  PROVE  gf_mul(Xor(p, s), gf_mul(inverse[p], x)) = Xor(x, gf_mul(inverse[p], gf_mul(s, x)))
<1>1. PICK i \in gf : i = inverse[p]
  BY InverseIs
<1>2. gf_mul(i, x) \in gf
  BY MulLaws
<1>3. gf_mul(Xor(p, s), gf_mul(i, x)) = Xor(gf_mul(p, gf_mul(i, x)), gf_mul(s, gf_mul(i, x)))
  BY <1>2, Distributes
<1>4. gf_mul(p, gf_mul(i, x)) = x
  BY <1>1, MulCancels
<1>5. gf_mul(s, gf_mul(i, x)) = gf_mul(i, gf_mul(s, x))
  BY MulSwap
<1> QED BY <1>1, <1>3, <1>4, <1>5

LEMMA SumOfInverses ==
  ASSUME NEW p \in gf, p # 0, NEW q \in gf, q # 0, NEW x \in gf
  PROVE  Xor(gf_mul(inverse[p], x), gf_mul(inverse[q], x))
           = gf_mul(Xor(p, q), gf_mul(inverse[p], gf_mul(inverse[q], x)))
<1>1. PICK i \in gf, j \in gf : i = inverse[p] /\ j = inverse[q]
  BY InverseIs
<1>2. PICK y \in gf : y = gf_mul(j, x)
  BY MulLaws
<1>3. gf_mul(Xor(p, q), gf_mul(i, y)) = Xor(y, gf_mul(i, gf_mul(q, y)))
  BY <1>1, InverseOfSum
<1>4. gf_mul(q, y) = x
  BY <1>1, <1>2, MulCancels
<1>5. gf_mul(i, x) \in gf
  BY MulLaws
<1>6. Xor(y, gf_mul(i, x)) = Xor(gf_mul(i, x), y)
  BY <1>5, XorLaws
<1> QED BY <1>1, <1>2, <1>3, <1>4, <1>6

LEMMA Differ ==
  ASSUME NEW x \in gf, NEW y \in gf
  PROVE  Xor(x, y) \in gf /\ (x # y => Xor(x, y) # 0)
BY XorLaws, XorSwap, ZenonT(60)

\* What may name the rows and the columns.
Names(a, c, k) ==
  /\ Terms(a, k) /\ Terms(c, k)
  /\ \A i, j \in 1..k : i # j => a[i] # a[j] /\ c[i] # c[j]
  /\ \A i, j \in 1..k : a[i] # c[j]

CauchyTerms(a, c, x, r, k) == [i \in 1..k |-> gf_mul(inverse[Xor(a[r], c[i])], x[i])]

LEMMA CauchyTermsIn ==
  ASSUME NEW k \in Nat, NEW a, NEW c, NEW x, Names(a, c, k), Terms(x, k), NEW r \in 1..k
  PROVE  /\ Terms(CauchyTerms(a, c, x, r, k), k)
         /\ \A i \in 1..k : /\ CauchyTerms(a, c, x, r, k)[i] = gf_mul(inverse[Xor(a[r], c[i])], x[i])
                            /\ Xor(a[r], c[i]) \in gf /\ Xor(a[r], c[i]) # 0
                            /\ inverse[Xor(a[r], c[i])] \in gf
<1>1. ASSUME NEW i \in 1..k
      PROVE  /\ Xor(a[r], c[i]) \in gf /\ Xor(a[r], c[i]) # 0
             /\ inverse[Xor(a[r], c[i])] \in gf
             /\ gf_mul(inverse[Xor(a[r], c[i])], x[i]) \in gf
  <2>1. a[r] \in gf /\ c[i] \in gf /\ a[r] # c[i] /\ x[i] \in gf
    BY DEF Names, Terms
  <2>2. Xor(a[r], c[i]) \in gf
    BY <2>1, XorLaws
  <2>3. Xor(a[r], c[i]) # 0
    BY <2>1, XorSwap
  <2>4. inverse[Xor(a[r], c[i])] \in gf
    BY <2>2, <2>3, InverseIs
  <2> QED BY <2>1, <2>2, <2>3, <2>4, MulLaws
<1> QED BY <1>1 DEF Terms, CauchyTerms

Vanishes(a, c, x, k) == \A r \in 1..k : Total(CauchyTerms(a, c, x, r, k), k) = 0

\* Every sum, multiplied by what makes its last term that of x, less the sum of
\* x: the other terms have the factor c[i] - c[n], and the last is gone.
LEMMA CauchyLevelled ==
  ASSUME NEW k \in Nat, NEW n \in Nat, n = k + 1, NEW a, NEW c, NEW x, NEW y,
         Names(a, c, n), Terms(x, n), Vanishes(a, c, x, n),
         \A i \in 1..n : y[i] = gf_mul(Xor(c[i], c[n]), x[i])
  PROVE  /\ Terms(y, n) /\ y[n] = 0 /\ Total(x, n) \in gf
         /\ \A r \in 1..n : Total(CauchyTerms(a, c, y, r, n), k) = Total(x, n)
<1>1. n \in 1..n /\ \A i \in 1..n : c[i] \in gf /\ a[i] \in gf /\ x[i] \in gf
  BY DEF Names, Terms
<1>2. Terms(y, n)
  <2> SUFFICES ASSUME NEW i \in 1..n PROVE y[i] \in gf
    BY DEF Terms
  <2>1. c[i] \in gf /\ c[n] \in gf /\ x[i] \in gf
    BY <1>1
  <2>2. Xor(c[i], c[n]) \in gf
    BY <2>1, Differ
  <2> QED BY <2>1, <2>2, MulLaws
<1>3. y[n] = 0
  <2>1. Xor(c[n], c[n]) = 0 /\ gf_mul(0, x[n]) = 0
    BY <1>1, XorLaws, MulLaws
  <2> QED BY <1>1, <2>1
<1>4. Total(x, n) \in gf
  BY TotalStep
<1>5. ASSUME NEW r \in 1..n PROVE Total(CauchyTerms(a, c, y, r, n), k) = Total(x, n)
  <2> DEFINE f == CauchyTerms(a, c, x, r, n)
             g == CauchyTerms(a, c, y, r, n)
             p == Xor(a[r], c[n])
             h == [i \in 1..n |-> gf_mul(p, f[i])]
  <2>1. /\ Terms(f, n)
        /\ \A i \in 1..n : /\ f[i] = gf_mul(inverse[Xor(a[r], c[i])], x[i])
                           /\ Xor(a[r], c[i]) \in gf /\ Xor(a[r], c[i]) # 0
                           /\ inverse[Xor(a[r], c[i])] \in gf
    BY CauchyTermsIn
  <2>2. Terms(g, n) /\ \A i \in 1..n : g[i] = gf_mul(inverse[Xor(a[r], c[i])], y[i])
    BY <1>2, CauchyTermsIn
  <2>3. p \in gf
    BY <1>1, XorLaws
  <2>4. Total(f, n) = 0
    BY DEF Vanishes
  <2>5. \A i \in 1..n : h[i] = gf_mul(p, f[i])
    OBVIOUS
  <2> HIDE DEF f, g, h, p
  <2>6. Total(h, n) = 0 /\ Terms(h, n)
    <3>1. Total(h, n) = gf_mul(p, Total(f, n)) /\ Terms(h, n)
      BY <2>1, <2>3, <2>5, TotalScale
    <3>2. gf_mul(p, 0) = 0
      BY <2>3, MulLaws
    <3> QED BY <2>4, <3>1, <3>2
  <2>7. ASSUME NEW i \in 1..n PROVE h[i] = Xor(x[i], g[i])
    <3>1. PICK u \in gf, s \in gf : u = Xor(a[r], c[i]) /\ u # 0 /\ s = Xor(c[i], c[n])
      <4>1. c[i] \in gf /\ c[n] \in gf
        BY <1>1
      <4>2. Xor(c[i], c[n]) \in gf
        BY <4>1, Differ
      <4> QED BY <2>1, <4>2
    <3>2. p = Xor(u, s)
      <4>1. Xor(Xor(a[r], c[i]), Xor(c[i], c[n])) = Xor(a[r], Xor(c[i], Xor(c[i], c[n])))
        BY <1>1, <3>1, XorAssoc
      <4>2. Xor(c[i], Xor(c[i], c[n])) = c[n]
        BY <1>1, XorSwap
      <4> QED BY <3>1, <4>1, <4>2 DEF p
    <3>3. h[i] = gf_mul(Xor(u, s), gf_mul(inverse[u], x[i]))
      BY <2>1, <2>5, <3>1, <3>2
    <3>4. gf_mul(Xor(u, s), gf_mul(inverse[u], x[i])) = Xor(x[i], gf_mul(inverse[u], gf_mul(s, x[i])))
      BY <1>1, <3>1, InverseOfSum
    <3>5. g[i] = gf_mul(inverse[u], gf_mul(s, x[i]))
      BY <2>2, <3>1
    <3> QED BY <3>3, <3>4, <3>5
  <2>8. Total(h, n) = Xor(Total(x, n), Total(g, n))
    BY <2>2, <2>7, TotalAdd
  <2>9. Total(g, n) \in gf /\ Total(g, n) = Xor(Total(g, k), g[n]) /\ Total(g, k) \in gf
    <3>1. Total(g, n) \in gf
      BY <2>2, TotalStep
    <3>2. Total(g, n) = Xor(Total(g, k), g[n]) /\ Terms(g, k)
      BY <2>2, TotalStep
    <3> QED BY <3>1, <3>2, TotalStep
  <2>10. g[n] = 0
    <3>1. g[n] = gf_mul(inverse[Xor(a[r], c[n])], 0) /\ inverse[Xor(a[r], c[n])] \in gf
      BY <1>1, <1>3, <2>1, <2>2
    <3>2. gf_mul(inverse[Xor(a[r], c[n])], 0) = 0
      BY <3>1, MulLaws
    <3> QED BY <3>1, <3>2
  <2>11. Total(x, n) = Total(g, n)
    BY <1>4, <2>6, <2>8, <2>9, XorSwap
  <2>12. Total(g, n) = Total(g, k)
    BY <2>9, <2>10, XorLaws
  <2> QED BY <2>11, <2>12 DEF g
<1> QED BY <1>2, <1>3, <1>4, <1>5

\* The difference of two of the sums is, but for a factor, a sum of one term
\* and one row fewer.
LEMMA CauchyStep ==
  ASSUME NEW k \in Nat, NEW n \in Nat, n = k + 1, NEW a, NEW c, NEW x,
         Names(a, c, n), Terms(x, n), Vanishes(a, c, x, n),
         \A w : Terms(w, k) /\ Vanishes(a, c, w, k) => \A i \in 1..k : w[i] = 0
  PROVE  \A i \in 1..n : x[i] = 0
<1> DEFINE y == [i \in 1..n |-> gf_mul(Xor(c[i], c[n]), x[i])]
<1>1. /\ n \in 1..n /\ \A i \in 1..k : i \in 1..n /\ i # n
      /\ \A i \in 1..n : c[i] \in gf /\ a[i] \in gf /\ x[i] \in gf
  BY DEF Names, Terms
<1>2. \A i \in 1..n : y[i] = gf_mul(Xor(c[i], c[n]), x[i])
  OBVIOUS
<1> HIDE DEF y
<1>3. /\ Terms(y, n) /\ y[n] = 0 /\ Total(x, n) \in gf
      /\ \A r \in 1..n : Total(CauchyTerms(a, c, y, r, n), k) = Total(x, n)
  BY <1>2, CauchyLevelled
<1>4. \A i \in 1..n : y[i] \in gf
  BY <1>3 DEF Terms
<1> DEFINE q(i) == Xor(a[n], c[i])
           w == [i \in 1..k |-> gf_mul(inverse[q(i)], y[i])]
<1>5. \A i \in 1..n : q(i) \in gf /\ q(i) # 0 /\ inverse[q(i)] \in gf
  BY <1>1, CauchyTermsIn
<1>6. Terms(w, k) /\ \A i \in 1..k : w[i] = gf_mul(inverse[q(i)], y[i]) /\ w[i] \in gf
  <2>1. \A i \in 1..k : gf_mul(inverse[q(i)], y[i]) \in gf
    BY <1>1, <1>4, <1>5, MulLaws
  <2> QED BY <2>1 DEF Terms
<1> HIDE DEF w, q
<1>7. ASSUME NEW r \in 1..k PROVE Total(CauchyTerms(a, c, w, r, k), k) = 0
  <2> DEFINE f == CauchyTerms(a, c, y, r, n)
             g == CauchyTerms(a, c, y, n, n)
             e == CauchyTerms(a, c, w, r, k)
             t == Xor(a[r], a[n])
             d == [i \in 1..k |-> Xor(f[i], g[i])]
  <2>1. /\ Terms(f, n)
        /\ \A i \in 1..n : /\ f[i] = gf_mul(inverse[Xor(a[r], c[i])], y[i])
                           /\ Xor(a[r], c[i]) \in gf /\ Xor(a[r], c[i]) # 0
    BY <1>1, <1>3, CauchyTermsIn
  <2>2. Terms(g, n) /\ \A i \in 1..n : g[i] = gf_mul(inverse[q(i)], y[i])
    BY <1>1, <1>3, CauchyTermsIn DEF q
  <2>3. \A i \in 1..k : e[i] = gf_mul(inverse[Xor(a[r], c[i])], w[i])
    BY DEF CauchyTerms
  <2>4. t \in gf /\ t # 0
    <3>1. a[r] # a[n] /\ a[r] \in gf /\ a[n] \in gf
      BY <1>1 DEF Names
    <3> QED BY <3>1, Differ
  <2>5. \A i \in 1..k : d[i] = Xor(f[i], g[i])
    OBVIOUS
  <2>6. Total(f, k) = Total(x, n) /\ Total(g, k) = Total(x, n)
    BY <1>1, <1>3
  <2> HIDE DEF f, g, e, t, d
  <2>7. Terms(f, k) /\ Terms(g, k)
    BY <1>1, <2>1, <2>2 DEF Terms
  <2>8. Total(d, k) = 0
    <3>1. Total(d, k) = Xor(Total(f, k), Total(g, k))
      BY <2>5, <2>7, TotalAdd
    <3> QED BY <1>3, <2>6, <3>1, XorLaws
  <2>9. ASSUME NEW i \in 1..k PROVE d[i] = gf_mul(t, e[i]) /\ e[i] \in gf
    <3>1. PICK u \in gf, v \in gf : u = Xor(a[r], c[i]) /\ v = q(i) /\ u # 0 /\ v # 0
      BY <1>1, <1>5, <2>1
    <3>2. t = Xor(u, v)
      <4>1. Xor(Xor(a[r], c[i]), Xor(a[n], c[i])) = Xor(Xor(a[r], a[n]), Xor(c[i], c[i]))
        BY <1>1, XorPairs
      <4>2. Xor(c[i], c[i]) = 0 /\ Xor(t, 0) = t
        BY <1>1, <2>4, XorLaws
      <4> QED BY <3>1, <4>1, <4>2 DEF t, q
    <3>3. Xor(gf_mul(inverse[u], y[i]), gf_mul(inverse[v], y[i]))
            = gf_mul(Xor(u, v), gf_mul(inverse[u], gf_mul(inverse[v], y[i])))
      BY <1>1, <1>4, <3>1, SumOfInverses
    <3>4. e[i] = gf_mul(inverse[u], gf_mul(inverse[v], y[i]))
      BY <1>6, <2>3, <3>1
    <3>5. e[i] \in gf
      <4>1. inverse[u] \in gf
        BY <3>1, InverseIs
      <4>2. e[i] = gf_mul(inverse[u], w[i])
        BY <2>3, <3>1
      <4> QED BY <1>6, <4>1, <4>2, MulLaws
    <3>6. f[i] = gf_mul(inverse[u], y[i]) /\ g[i] = gf_mul(inverse[v], y[i])
      BY <1>1, <2>1, <2>2, <3>1
    <3> QED BY <2>5, <3>2, <3>3, <3>4, <3>5, <3>6
  <2>10. Terms(e, k)
    BY <2>9 DEF Terms
  <2>11. Total(d, k) = gf_mul(t, Total(e, k))
    BY <2>4, <2>9, <2>10, TotalScale
  <2>12. Total(e, k) \in gf
    BY <2>10, TotalStep
  <2>13. Total(e, k) = 0
    BY <2>4, <2>8, <2>11, <2>12, MulLaws
  <2> QED BY <2>13 DEF e
<1>8. \A i \in 1..k : w[i] = 0
  BY <1>6, <1>7 DEF Vanishes
<1>9. ASSUME NEW i \in 1..k PROVE x[i] = 0
  <2>1. gf_mul(inverse[q(i)], y[i]) = 0 /\ inverse[q(i)] \in gf /\ inverse[q(i)] # 0
    BY <1>1, <1>5, <1>6, <1>8, InverseIs
  <2>2. y[i] = 0
    BY <1>1, <1>4, <2>1, MulLaws
  <2>3. Xor(c[i], c[n]) \in gf /\ Xor(c[i], c[n]) # 0
    <3>1. c[i] # c[n] /\ c[i] \in gf /\ c[n] \in gf
      BY <1>1 DEF Names
    <3> QED BY <3>1, Differ
  <2> QED BY <1>1, <1>2, <2>2, <2>3, MulLaws
<1>10. x[n] = 0
  <2> DEFINE f == CauchyTerms(a, c, x, n, n)
  <2>1. Terms(f, n) /\ \A i \in 1..n : f[i] = gf_mul(inverse[q(i)], x[i])
    BY <1>1, CauchyTermsIn DEF q
  <2>2. Total(f, n) = 0
    BY <1>1 DEF Vanishes
  <2> HIDE DEF f
  <2>3. \A i \in 1..k : f[i] = 0
    <3> SUFFICES ASSUME NEW i \in 1..k PROVE f[i] = 0
      OBVIOUS
    <3>1. inverse[q(i)] \in gf
      BY <1>1, <1>5
    <3>2. gf_mul(inverse[q(i)], 0) = 0
      BY <3>1, MulLaws
    <3> QED BY <1>1, <1>9, <2>1, <3>2
  <2>4. Total(f, k) = 0
    BY <2>3, TotalZero
  <2>5. Total(f, n) = Xor(Total(f, k), f[n])
    BY <2>1, TotalStep
  <2>6. f[n] = 0
    <3>1. f[n] \in gf
      BY <1>1, <2>1 DEF Terms
    <3> QED BY <2>2, <2>4, <2>5, <3>1, XorLaws
  <2>7. inverse[q(n)] \in gf /\ inverse[q(n)] # 0
    BY <1>1, <1>5, InverseIs
  <2> QED BY <1>1, <2>1, <2>6, <2>7, MulLaws
<1>11. \A i \in 1..n : i \in 1..k \/ i = n
  OBVIOUS
<1> QED BY <1>9, <1>10, <1>11

LEMMA CauchyRegular ==
  ASSUME NEW k \in Nat, NEW a, NEW c, NEW x,
         Names(a, c, k), Terms(x, k), Vanishes(a, c, x, k)
  PROVE  \A i \in 1..k : x[i] = 0
<1> DEFINE T == {n \in Nat : Names(a, c, n) =>
                   \A w : Terms(w, n) /\ Vanishes(a, c, w, n) => \A i \in 1..n : w[i] = 0}
<1>1. 0 \in T
  OBVIOUS
<1>2. ASSUME NEW n \in Nat, n \in T PROVE n + 1 \in T
  <2> SUFFICES ASSUME Names(a, c, n + 1), NEW w, Terms(w, n + 1), Vanishes(a, c, w, n + 1)
               PROVE  \A i \in 1..n + 1 : w[i] = 0
    OBVIOUS
  <2>1. \A i \in 1..n : i \in 1..n + 1
    OBVIOUS
  <2>2. Names(a, c, n)
    BY <2>1 DEF Names, Terms
  <2>3. \A v : Terms(v, n) /\ Vanishes(a, c, v, n) => \A i \in 1..n : v[i] = 0
    BY <1>2, <2>2
  <2>4. PICK m \in Nat : m = n + 1
    OBVIOUS
  <2> QED BY <2>3, <2>4, CauchyStep
<1>3. Nat \subseteq T
  <2> HIDE DEF T
  <2> QED BY <1>1, <1>2, Induction
<1>4. k \in T
  <2> HIDE DEF T
  <2> QED BY <1>3
<1> QED BY <1>4

-----------------------------------------------------------------------------
(* The loops of fec_encode and fec_decode *)

LEMMA AddmulIs ==
  ASSUME NEW dst \in gf, NEW src \in gf, NEW c \in gf
  PROVE  /\ addmul(dst, src, c) = Xor(dst, gf_mul(c, src)) /\ mul(src, c) = gf_mul(c, src)
         /\ addmul(dst, src, c) \in gf /\ mul(src, c) \in gf
<1>1. gf_mul(c, src) \in gf /\ gf_mul(0, src) = 0 /\ Xor(dst, 0) = dst
  BY FieldSizes, MulLaws, XorLaws
<1>2. Xor(dst, gf_mul(c, src)) \in gf
  BY <1>1, XorLaws
<1> QED BY <1>1, <1>2 DEF addmul, mul

\* The coefficient of the data block col in the parity block row.
Coefficient(row, col) == inverse[Xor(HIGH + row, col)]

LEMMA CoefficientIs ==
  ASSUME NEW row \in 0..HIGH - 1, NEW col \in 0..HIGH - 1
  PROVE  /\ HIGH + row \in gf /\ col \in gf /\ HIGH + row # col
         /\ Coefficient(row, col) \in gf
         /\ inverse[Xor(row, Xor(HIGH, col))] = Coefficient(row, col)
         /\ inverse[Xor(Xor(row, col), HIGH)] = Coefficient(row, col)
         /\ inverse[Xor(HIGH, row)] = Coefficient(row, 0)
<1>1. /\ HIGH \in gf /\ row \in gf /\ col \in gf /\ 0 \in gf
      /\ HIGH + row \in gf /\ HIGH + row # col
  BY FieldSizes
<1>2. Xor(HIGH, row) = HIGH + row
  BY XorHigh
<1>3. Xor(HIGH, row) \in gf
  BY <1>1, <1>2
<1>4. Xor(Xor(HIGH, row), 0) = Xor(HIGH, row)
  BY <1>3, XorLaws
<1>5. Xor(row, Xor(HIGH, col)) = Xor(Xor(HIGH, row), col)
  <2>1. Xor(row, Xor(HIGH, col)) = Xor(Xor(row, HIGH), col)
    BY <1>1, XorAssoc
  <2>2. Xor(row, HIGH) = Xor(HIGH, row)
    BY <1>1, XorLaws
  <2> QED BY <2>1, <2>2
<1>6. Xor(Xor(row, col), HIGH) = Xor(Xor(HIGH, row), col)
  <2>1. Xor(row, col) \in gf
    BY <1>1, XorLaws
  <2>2. Xor(Xor(row, col), HIGH) = Xor(HIGH, Xor(row, col))
    BY <1>1, <2>1, XorLaws
  <2>3. Xor(HIGH, Xor(row, col)) = Xor(Xor(HIGH, row), col)
    BY <1>1, XorAssoc
  <2> QED BY <2>2, <2>3
<1>7. Xor(HIGH + row, col) \in gf /\ Xor(HIGH + row, col) # 0
  BY <1>1, Differ
<1>8. Coefficient(row, col) \in gf
  BY <1>7, InverseIs DEF Coefficient
<1> QED BY <1>1, <1>2, <1>4, <1>5, <1>6, <1>8 DEF Coefficient

\* What the data blocks contribute to a parity block.
Contributions(data, n, row) == [i \in 1..n |-> gf_mul(Coefficient(row, i - 1), data[i - 1])]

LEMMA ContributionsAre ==
  ASSUME NEW n \in 0..HIGH, NEW data \in [0..n - 1 -> gf], NEW row \in 0..HIGH - 1
  PROVE  /\ Terms(Contributions(data, n, row), n)
         /\ \A i \in 1..n : /\ Contributions(data, n, row)[i]
                                 = gf_mul(Coefficient(row, i - 1), data[i - 1])
                            /\ Coefficient(row, i - 1) \in gf /\ data[i - 1] \in gf
                            /\ i - 1 \in 0..HIGH - 1
<1>1. ASSUME NEW i \in 1..n
      PROVE  /\ Coefficient(row, i - 1) \in gf /\ data[i - 1] \in gf /\ i - 1 \in 0..HIGH - 1
             /\ gf_mul(Coefficient(row, i - 1), data[i - 1]) \in gf
  <2>1. HIGH \in Nat
    BY FieldSizes
  <2>2. i - 1 \in 0..HIGH - 1 /\ i - 1 \in 0..n - 1
    BY <2>1
  <2>3. Coefficient(row, i - 1) \in gf /\ data[i - 1] \in gf
    BY <2>2, CoefficientIs
  <2> QED BY <2>2, <2>3, MulLaws
<1> QED BY <1>1 DEF Terms, Contributions

LEMMA EncodeIs ==
  ASSUME NEW n \in 0..HIGH, NEW data \in [0..n - 1 -> gf], NEW row \in 0..HIGH - 1
  PROVE  /\ fec_encode(data, n, row) = Total(Contributions(data, n, row), n)
         /\ fec_encode(data, n, row) \in gf
<1>0. n \in Nat
  BY FieldSizes
<1> DEFINE f == Contributions(data, n, row)
           E(S, col) == IF col = 0 THEN mul(data[0], inverse[Xor(HIGH, row)])
                        ELSE addmul(S[col - 1], data[col], inverse[Xor(row, Xor(HIGH, col))])
           G == [col \in 0..n - 1 |-> Total(f, col + 1)]
           Sum[col \in 0..n - 1] ==
             IF col = 0 THEN mul(data[0], inverse[Xor(HIGH, row)])
             ELSE addmul(Sum[col - 1], data[col], inverse[Xor(row, Xor(HIGH, col))])
<1>1. /\ Terms(f, n)
      /\ \A i \in 1..n : /\ f[i] = gf_mul(Coefficient(row, i - 1), data[i - 1])
                         /\ Coefficient(row, i - 1) \in gf /\ data[i - 1] \in gf
                         /\ i - 1 \in 0..HIGH - 1
  BY ContributionsAre
<1> HIDE DEF f
<1>2. \A i \in 0..n : Terms(f, i) /\ Total(f, i) \in gf
  <2> SUFFICES ASSUME NEW i \in 0..n PROVE Terms(f, i) /\ Total(f, i) \in gf
    OBVIOUS
  <2>1. i \in Nat /\ Terms(f, i)
    BY <1>0, <1>1 DEF Terms
  <2> QED BY <2>1, TotalStep
<1>3. \A i \in 1..n : Total(f, i) = Xor(Total(f, i - 1), f[i])
  <2> SUFFICES ASSUME NEW i \in 1..n PROVE Total(f, i) = Xor(Total(f, i - 1), f[i])
    OBVIOUS
  <2>1. PICK j \in Nat : j = i - 1 /\ i = j + 1
    BY <1>0
  <2>2. Terms(f, j + 1)
    BY <1>0, <1>2, <2>1
  <2> QED BY <2>1, <2>2, TotalStep
<1>4. \A col \in 0..n - 1 : /\ G[col] = Total(f, col + 1) /\ G[col] \in gf
                            /\ col # 0 => G[col - 1] = Total(f, col) /\ G[col - 1] \in gf
  BY <1>0, <1>2
<1>5. ASSUME NEW col \in 0..n - 1 PROVE G[col] = E(G, col)
  <2>1. col + 1 \in 1..n /\ (col + 1) - 1 = col
    BY <1>0
  <2>2. f[col + 1] = gf_mul(Coefficient(row, col), data[col]) /\ Coefficient(row, col) \in gf
        /\ data[col] \in gf /\ col \in 0..HIGH - 1
    BY <1>1, <2>1
  <2>3. G[col] = Xor(Total(f, col), f[col + 1])
    BY <1>3, <1>4, <2>1
  <2>4. CASE col = 0
    <3>1. Total(f, 0) = 0 /\ f[1] \in gf
      <4>1. f[1] \in gf
        BY <1>0, <1>1, <2>1, <2>4 DEF Terms
      <4> QED BY <4>1, TotalStep
    <3>2. G[col] = gf_mul(Coefficient(row, 0), data[0])
      <4>1. f[col + 1] = f[1] /\ Total(f, col) = 0
        BY <2>4, <3>1
      <4>2. Xor(0, f[1]) = f[1]
        BY <3>1, FieldSizes, XorLaws
      <4> HIDE DEF G
      <4> QED BY <2>2, <2>3, <2>4, <4>1, <4>2
    <3>3. inverse[Xor(HIGH, row)] = Coefficient(row, 0)
      BY <2>2, CoefficientIs
    <3>4. mul(data[0], Coefficient(row, 0)) = gf_mul(Coefficient(row, 0), data[0])
      BY <2>2, <2>4, AddmulIs, FieldSizes
    <3> HIDE DEF G
    <3> QED BY <2>4, <3>2, <3>3, <3>4
  <2>5. CASE col # 0
    <3>1. G[col - 1] = Total(f, col) /\ G[col - 1] \in gf
      BY <1>4, <2>5
    <3>2. inverse[Xor(row, Xor(HIGH, col))] = Coefficient(row, col)
      BY <2>2, CoefficientIs
    <3> HIDE DEF G
    <3>3. addmul(G[col - 1], data[col], Coefficient(row, col))
            = Xor(G[col - 1], gf_mul(Coefficient(row, col), data[col]))
      BY <2>2, <3>1, AddmulIs
    <3> QED BY <2>2, <2>3, <2>5, <3>1, <3>2, <3>3
  <2> QED BY <2>4, <2>5
<1>6. G = [col \in 0..n - 1 |-> E(G, col)]
  <2>1. G = [col \in 0..n - 1 |-> G[col]]
    OBVIOUS
  <2> HIDE DEF G, E
  <2> QED BY <1>5, <2>1
<1>7. Sum = [col \in 0..n - 1 |-> E(Sum, col)]
  <2>1. \E H : H = [col \in 0..n - 1 |-> E(H, col)]
    BY <1>6
  <2> QED BY <2>1
<1>8. fec_encode(data, n, row) = IF n = 0 THEN 0 ELSE Sum[n - 1]
  BY DEF fec_encode
<1> HIDE DEF Sum, G
<1> DEFINE T == {i \in Nat : i \in 0..n - 1 => Sum[i] = G[i]}
<1>9. 0 \in T
  BY <1>6, <1>7
<1>10. ASSUME NEW i \in Nat, i \in T PROVE i + 1 \in T
  <2> SUFFICES ASSUME i + 1 \in 0..n - 1 PROVE Sum[i + 1] = G[i + 1]
    OBVIOUS
  <2>1. (i + 1) - 1 = i /\ i \in 0..n - 1 /\ i + 1 # 0 /\ Sum[i] = G[i]
    BY <1>0, <1>10
  <2>2. Sum[i + 1] = E(Sum, i + 1) /\ G[i + 1] = E(G, i + 1)
    <3> HIDE DEF E
    <3> QED BY <1>6, <1>7
  <2> QED BY <2>1, <2>2
<1>11. Nat \subseteq T
  <2> HIDE DEF T
  <2> QED BY <1>9, <1>10, Induction
<1>12. CASE n = 0
  <2>1. Total(f, 0) = 0
    BY TotalStep
  <2> QED BY <1>8, <1>12, <2>1, FieldSizes DEF f
<1>13. CASE n # 0
  <2>1. n - 1 \in Nat /\ n - 1 \in 0..n - 1 /\ (n - 1) + 1 = n /\ n \in 0..n
    BY <1>0, <1>13
  <2>2. Sum[n - 1] = G[n - 1]
    BY <1>11, <2>1
  <2>3. G[n - 1] = Total(f, n)
    BY <1>4, <2>1
  <2> QED BY <1>2, <1>8, <1>13, <2>1, <2>2, <2>3 DEF f
<1> QED BY <1>12, <1>13

\* What those that arrived contribute.
KeptTerms(data, n, row, erased) ==
  [i \in 1..n |-> IF i - 1 \in Range(erased) THEN 0 ELSE Contributions(data, n, row)[i]]

\* The loop of reduce, for one parity block.
Rests(R, data, n, fec, row, erased) ==
  R = [col \in 0..n |->
         IF col = 0 THEN fec
         ELSE IF col - 1 \in Range(erased) THEN R[col - 1]
         ELSE addmul(R[col - 1], data[col - 1], inverse[Xor(Xor(row, col - 1), HIGH)])]

LEMMA RestIs ==
  ASSUME NEW n \in 0..HIGH, NEW data \in [0..n - 1 -> gf], NEW row \in 0..HIGH - 1,
         NEW fec \in gf, NEW erased
  PROVE  /\ \E R : Rests(R, data, n, fec, row, erased)
         /\ \A R : Rests(R, data, n, fec, row, erased)
                     => R[n] = Xor(fec, Total(KeptTerms(data, n, row, erased), n)) /\ R[n] \in gf
<1>0. n \in Nat /\ n \in 0..n
  BY FieldSizes
<1> DEFINE c == Contributions(data, n, row)
           f == KeptTerms(data, n, row, erased)
           E(S, col) == IF col = 0 THEN fec
                        ELSE IF col - 1 \in Range(erased) THEN S[col - 1]
                        ELSE addmul(S[col - 1], data[col - 1], inverse[Xor(Xor(row, col - 1), HIGH)])
           G == [col \in 0..n |-> Xor(fec, Total(f, col))]
<1>1. /\ Terms(c, n)
      /\ \A i \in 1..n : /\ c[i] = gf_mul(Coefficient(row, i - 1), data[i - 1])
                         /\ Coefficient(row, i - 1) \in gf /\ data[i - 1] \in gf
                         /\ i - 1 \in 0..HIGH - 1
  BY ContributionsAre
<1>2. \A i \in 1..n : f[i] = IF i - 1 \in Range(erased) THEN 0 ELSE c[i]
  BY DEF KeptTerms
<1> HIDE DEF c, f
<1>3. Terms(f, n) /\ \A i \in 1..n : f[i] \in gf
  BY <1>1, <1>2, FieldSizes DEF Terms
<1>4. \A i \in 0..n : Terms(f, i) /\ Total(f, i) \in gf
  <2> SUFFICES ASSUME NEW i \in 0..n PROVE Terms(f, i) /\ Total(f, i) \in gf
    OBVIOUS
  <2>1. i \in Nat /\ Terms(f, i)
    BY <1>0, <1>3 DEF Terms
  <2> QED BY <2>1, TotalStep
<1>5. \A i \in 1..n : Total(f, i) = Xor(Total(f, i - 1), f[i])
  <2> SUFFICES ASSUME NEW i \in 1..n PROVE Total(f, i) = Xor(Total(f, i - 1), f[i])
    OBVIOUS
  <2>1. PICK j \in Nat : j = i - 1 /\ i = j + 1
    BY <1>0
  <2>2. Terms(f, j + 1)
    BY <1>0, <1>4, <2>1
  <2> QED BY <2>1, <2>2, TotalStep
<1>6. \A col \in 0..n : G[col] = Xor(fec, Total(f, col)) /\ G[col] \in gf
  <2>1. \A col \in 0..n : Xor(fec, Total(f, col)) \in gf
    BY <1>4, Differ
  <2> QED BY <2>1
<1> HIDE DEF G
<1>7. ASSUME NEW col \in 0..n PROVE G[col] = E(G, col)
  <2>1. CASE col = 0
    <3>1. Total(f, 0) = 0 /\ Xor(fec, 0) = fec
      BY TotalStep, XorLaws
    <3> QED BY <1>6, <2>1, <3>1
  <2>2. CASE col # 0
    <3>1. col \in 1..n /\ col - 1 \in 0..n
      BY <1>0, <2>2
    <3>2. PICK t \in gf, u \in gf : t = Total(f, col - 1) /\ u = f[col]
      BY <1>3, <1>4, <3>1
    <3>3. G[col] = Xor(fec, Xor(t, u)) /\ G[col - 1] = Xor(fec, t) /\ G[col - 1] \in gf
      BY <1>5, <1>6, <3>1, <3>2
    <3>4. Xor(fec, Xor(t, u)) = Xor(Xor(fec, t), u)
      BY XorAssoc
    <3>5. G[col] = Xor(G[col - 1], f[col])
      BY <3>2, <3>3, <3>4
    <3>6. CASE col - 1 \in Range(erased)
      <4>1. f[col] = 0 /\ Xor(G[col - 1], 0) = G[col - 1]
        BY <1>2, <3>1, <3>3, <3>6, XorLaws
      <4> QED BY <2>2, <3>5, <3>6, <4>1
    <3>7. CASE col - 1 \notin Range(erased)
      <4>1. /\ f[col] = gf_mul(Coefficient(row, col - 1), data[col - 1])
            /\ Coefficient(row, col - 1) \in gf /\ data[col - 1] \in gf /\ col - 1 \in 0..HIGH - 1
        BY <1>1, <1>2, <3>1, <3>7
      <4>2. inverse[Xor(Xor(row, col - 1), HIGH)] = Coefficient(row, col - 1)
        BY <4>1, CoefficientIs
      <4>3. addmul(G[col - 1], data[col - 1], Coefficient(row, col - 1))
              = Xor(G[col - 1], gf_mul(Coefficient(row, col - 1), data[col - 1]))
        BY <3>3, <4>1, AddmulIs
      <4> QED BY <2>2, <3>5, <3>7, <4>1, <4>2, <4>3
    <3> QED BY <3>6, <3>7
  <2> QED BY <2>1, <2>2
<1>8. G = [col \in 0..n |-> E(G, col)]
  <2>1. G = [col \in 0..n |-> G[col]]
    BY DEF G
  <2> HIDE DEF E
  <2> QED BY <1>7, <2>1
<1>9. \E R : Rests(R, data, n, fec, row, erased)
  BY <1>8 DEF Rests
<1>10. ASSUME NEW R, Rests(R, data, n, fec, row, erased) PROVE R[n] = G[n]
  <2>1. \A col \in 0..n : R[col] = E(R, col)
    BY <1>10 DEF Rests
  <2> DEFINE T == {i \in Nat : i \in 0..n => R[i] = G[i]}
  <2>2. 0 \in T
    BY <1>0, <1>7, <2>1
  <2>3. ASSUME NEW i \in Nat, i \in T PROVE i + 1 \in T
    <3> SUFFICES ASSUME i + 1 \in 0..n PROVE R[i + 1] = G[i + 1]
      OBVIOUS
    <3>1. (i + 1) - 1 = i /\ i \in 0..n /\ i + 1 # 0 /\ R[i] = G[i]
      BY <1>0, <2>3
    <3>2. R[i + 1] = E(R, i + 1) /\ G[i + 1] = E(G, i + 1)
      <4> HIDE DEF E
      <4> QED BY <1>7, <2>1
    <3> QED BY <3>1, <3>2
  <2>4. Nat \subseteq T
    <3> HIDE DEF T
    <3> QED BY <2>2, <2>3, Induction
  <2>5. n \in T
    <3> HIDE DEF T
    <3> QED BY <1>0, <2>4
  <2> QED BY <1>0, <2>5
<1> QED BY <1>0, <1>6, <1>9, <1>10 DEF f

Reduces(red, data, n, fec, rows, erased, k) ==
  /\ red \in [1..k -> gf]
  /\ \A j \in 1..k : red[j] = Xor(fec[j], Total(KeptTerms(data, n, rows[j], erased), n))

LEMMA ReduceIs ==
  ASSUME NEW n \in 0..HIGH, NEW data \in [0..n - 1 -> gf], NEW k \in Nat,
         NEW fec \in [1..k -> gf], NEW rows \in [1..k -> 0..HIGH - 1], NEW erased
  PROVE  Reduces(reduce(data, n, fec, rows, erased), data, n, fec, rows, erased, k)
<1> DEFINE RestAt(j) ==
             LET Rest[col \in 0..n] ==
                   IF col = 0 THEN fec[j]
                   ELSE IF col - 1 \in Range(erased) THEN Rest[col - 1]
                   ELSE addmul(Rest[col - 1], data[col - 1],
                               inverse[Xor(Xor(rows[j], col - 1), HIGH)])
             IN  Rest[n]
<1>1. ASSUME NEW j \in 1..k
      PROVE  RestAt(j) = Xor(fec[j], Total(KeptTerms(data, n, rows[j], erased), n)) /\ RestAt(j) \in gf
  <2> DEFINE R[col \in 0..n] ==
               IF col = 0 THEN fec[j]
               ELSE IF col - 1 \in Range(erased) THEN R[col - 1]
               ELSE addmul(R[col - 1], data[col - 1], inverse[Xor(Xor(rows[j], col - 1), HIGH)])
  <2>1. fec[j] \in gf /\ rows[j] \in 0..HIGH - 1
    OBVIOUS
  <2>2. \E S : S = [col \in 0..n |->
                      IF col = 0 THEN fec[j]
                      ELSE IF col - 1 \in Range(erased) THEN S[col - 1]
                      ELSE addmul(S[col - 1], data[col - 1],
                                  inverse[Xor(Xor(rows[j], col - 1), HIGH)])]
    <3>1. \E S : Rests(S, data, n, fec[j], rows[j], erased)
      BY <2>1, RestIs
    <3> QED BY <3>1 DEF Rests
  <2>3. R = [col \in 0..n |->
               IF col = 0 THEN fec[j]
               ELSE IF col - 1 \in Range(erased) THEN R[col - 1]
               ELSE addmul(R[col - 1], data[col - 1], inverse[Xor(Xor(rows[j], col - 1), HIGH)])]
    BY <2>2
  <2>4. RestAt(j) = R[n]
    OBVIOUS
  <2> HIDE DEF R
  <2>5. Rests(R, data, n, fec[j], rows[j], erased)
    BY <2>3 DEF Rests
  <2>6. R[n] = Xor(fec[j], Total(KeptTerms(data, n, rows[j], erased), n)) /\ R[n] \in gf
    BY <2>1, <2>5, RestIs
  <2> QED BY <2>4, <2>6
<1>2. Len(fec) = k
  OBVIOUS
<1>3. reduce(data, n, fec, rows, erased) = <<>> \o [j \in 1..k |-> RestAt(j)]
  BY <1>2 DEF reduce, Listed
<1> HIDE DEF RestAt
<1>4. [j \in 1..k |-> RestAt(j)] \in [1..k -> gf]
  BY <1>1
<1>5. reduce(data, n, fec, rows, erased) = [j \in 1..k |-> RestAt(j)]
  BY <1>3, <1>4, ListIs
<1> QED BY <1>1, <1>4, <1>5 DEF Reduces

\* The sums of resolve, one for each row of the inverse.
SumsUp(S, v, u, k) ==
  S = [col \in 1..k |-> IF col = 1 THEN mul(v[1], u[1]) ELSE addmul(S[col - 1], v[col], u[col])]

LEMMA ResolveSum ==
  ASSUME NEW k \in Nat \ {0}, NEW v \in Vectors(k), NEW u \in Vectors(k), NEW S,
         SumsUp(S, v, u, k)
  PROVE  S[k] = Dot(u, v, k)
<1> DEFINE f == Products(u, v, k)
<1>1. /\ Dot(u, v, k) = Total(f, k) /\ Terms(f, k)
      /\ \A i \in 1..k : f[i] = gf_mul(u[i], v[i]) /\ u[i] \in gf /\ v[i] \in gf /\ f[i] \in gf
  BY DotIs DEF Vectors, Terms
<1> HIDE DEF f
<1> DEFINE T == {i \in Nat : i \in 1..k => S[i] = Total(f, i)}
<1>2. 0 \in T
  OBVIOUS
<1>3. ASSUME NEW i \in Nat, i \in T PROVE i + 1 \in T
  <2> SUFFICES ASSUME i + 1 \in 1..k PROVE S[i + 1] = Total(f, i + 1)
    OBVIOUS
  <2>1. f[i + 1] = gf_mul(u[i + 1], v[i + 1]) /\ Terms(f, i + 1) /\ f[i + 1] \in gf
    BY <1>1 DEF Terms
  <2>2. Total(f, i + 1) = Xor(Total(f, i), f[i + 1]) /\ Total(f, i) \in gf
    BY <2>1, TotalStep
  <2>3. CASE i = 0
    <3>1. S[1] = mul(v[1], u[1]) /\ i + 1 = 1
      BY <2>3 DEF SumsUp
    <3>2. mul(v[1], u[1]) = gf_mul(u[1], v[1])
      <4>1. u[1] \in gf /\ v[1] \in gf
        BY <1>1, <3>1
      <4> QED BY <4>1, FieldSizes, AddmulIs
    <3>3. Total(f, 0) = 0
      BY TotalStep
    <3>4. f[1] = gf_mul(u[1], v[1]) /\ f[1] \in gf /\ Total(f, 1) = Xor(Total(f, 0), f[1])
      BY <2>1, <2>2, <2>3, <3>1
    <3>5. Xor(0, f[1]) = f[1]
      BY <3>4, FieldSizes, XorLaws
    <3> QED BY <3>1, <3>2, <3>3, <3>4, <3>5
  <2>4. CASE i # 0
    <3>1. i \in 1..k /\ S[i] = Total(f, i) /\ i + 1 # 1 /\ (i + 1) - 1 = i
      BY <1>3, <2>4
    <3>2. S[i + 1] = addmul(S[i], v[i + 1], u[i + 1])
      BY <3>1 DEF SumsUp
    <3>3. addmul(S[i], v[i + 1], u[i + 1]) = Xor(S[i], gf_mul(u[i + 1], v[i + 1]))
      BY <1>1, <2>2, <3>1, AddmulIs
    <3> QED BY <2>1, <2>2, <3>1, <3>2, <3>3
  <2> QED BY <2>3, <2>4
<1>4. Nat \subseteq T
  <2> HIDE DEF T
  <2> QED BY <1>2, <1>3, Induction
<1>5. k \in T
  <2> HIDE DEF T
  <2> QED BY <1>4
<1> QED BY <1>1, <1>5

LEMMA ResolveSumExists ==
  ASSUME NEW k \in Nat \ {0}, NEW v \in Vectors(k), NEW u \in Vectors(k)
  PROVE  \E S : S = [col \in 1..k |-> IF col = 1 THEN mul(v[1], u[1])
                                      ELSE addmul(S[col - 1], v[col], u[col])]
<1> DEFINE f == Products(u, v, k)
           G == [i \in 1..k |-> Total(f, i)]
           E(S, col) == IF col = 1 THEN mul(v[1], u[1]) ELSE addmul(S[col - 1], v[col], u[col])
<1>1. /\ Terms(f, k)
      /\ \A i \in 1..k : f[i] = gf_mul(u[i], v[i]) /\ u[i] \in gf /\ v[i] \in gf /\ f[i] \in gf
  BY DotIs DEF Vectors, Terms
<1> HIDE DEF f
<1>2. ASSUME NEW i \in 1..k PROVE G[i] = E(G, i)
  <2>1. PICK j \in Nat : j = i - 1 /\ i = j + 1
    OBVIOUS
  <2>2. Terms(f, j + 1) /\ Terms(f, j)
    BY <1>1, <2>1 DEF Terms
  <2>3. Total(f, i) = Xor(Total(f, j), f[i]) /\ Total(f, j) \in gf
    BY <2>1, <2>2, TotalStep
  <2>4. CASE i = 1
    <3>1. Total(f, j) = 0
      BY <2>1, <2>4, TotalStep
    <3>2. f[i] \in gf /\ u[1] \in gf /\ v[1] \in gf /\ f[i] = gf_mul(u[1], v[1])
      BY <1>1, <2>4
    <3>3. mul(v[1], u[1]) = gf_mul(u[1], v[1])
      BY <3>2, FieldSizes, AddmulIs
    <3>4. Xor(0, f[i]) = f[i]
      BY <3>2, FieldSizes, XorLaws
    <3> QED BY <2>3, <2>4, <3>1, <3>2, <3>3, <3>4
  <2>5. CASE i # 1
    <3>1. i - 1 \in 1..k /\ G[i - 1] = Total(f, j)
      BY <2>1, <2>5
    <3> HIDE DEF G
    <3>2. addmul(G[i - 1], v[i], u[i]) = Xor(G[i - 1], gf_mul(u[i], v[i]))
      BY <1>1, <2>3, <3>1, AddmulIs
    <3>3. G[i] = Total(f, i)
      BY DEF G
    <3> QED BY <1>1, <2>3, <2>5, <3>1, <3>2, <3>3
  <2> QED BY <2>4, <2>5
<1>3. G = [col \in 1..k |-> E(G, col)]
  <2>1. G = [col \in 1..k |-> G[col]]
    OBVIOUS
  <2> HIDE DEF G, E
  <2> QED BY <1>2, <2>1
<1> QED BY <1>3

LEMMA ResolveIs ==
  ASSUME NEW k \in Nat, NEW fec \in Vectors(k), NEW rows, NEW erased, Len(erased) = k,
         NEW matrix \in Matrices(k), matrix = invert_mat(MiniMatrix(rows, erased), k).m
  PROVE  /\ resolve(fec, rows, erased) \in Vectors(k)
         /\ \A row \in 1..k : resolve(fec, rows, erased)[row] = Dot(matrix[row], fec, k)
<1> DEFINE BlockAt(row) ==
             LET Sum[col \in 1..k] ==
                   IF col = 1 THEN mul(fec[1], matrix[row][1])
                   ELSE addmul(Sum[col - 1], fec[col], matrix[row][col])
             IN  Sum[k]
<1>1. ASSUME NEW row \in 1..k
      PROVE  BlockAt(row) = Dot(matrix[row], fec, k) /\ BlockAt(row) \in gf
  <2> DEFINE S[col \in 1..k] == IF col = 1 THEN mul(fec[1], matrix[row][1])
                                ELSE addmul(S[col - 1], fec[col], matrix[row][col])
  <2>1. matrix[row] \in Vectors(k) /\ k \in Nat \ {0}
    BY DEF Matrices
  <2>2. \E H : H = [col \in 1..k |-> IF col = 1 THEN mul(fec[1], matrix[row][1])
                                     ELSE addmul(H[col - 1], fec[col], matrix[row][col])]
    BY <2>1, ResolveSumExists, ZenonT(60)
  <2>3. S = [col \in 1..k |-> IF col = 1 THEN mul(fec[1], matrix[row][1])
                              ELSE addmul(S[col - 1], fec[col], matrix[row][col])]
    BY <2>2
  <2>4. BlockAt(row) = S[k]
    OBVIOUS
  <2> HIDE DEF S
  <2>5. S[k] = Dot(matrix[row], fec, k)
    <3>1. SumsUp(S, fec, matrix[row], k)
      BY <2>3 DEF SumsUp
    <3> QED BY <2>1, <3>1, ResolveSum
  <2> QED BY <2>1, <2>4, <2>5, DotIs
<1>2. resolve(fec, rows, erased) = <<>> \o [row \in 1..k |-> BlockAt(row)]
  BY DEF resolve, Listed
<1> HIDE DEF BlockAt
<1>3. [row \in 1..k |-> BlockAt(row)] \in [1..k -> gf]
  BY <1>1
<1>4. resolve(fec, rows, erased) = [row \in 1..k |-> BlockAt(row)]
  BY <1>2, <1>3, ListIs
<1> QED BY <1>1, <1>3, <1>4 DEF Vectors

-----------------------------------------------------------------------------
(* Decoding *)

\* Parity blocks at hand and data blocks to be repaired: as many of both, none
\* twice.
Erasure(n, k, rows, erased) ==
  /\ rows \in [1..k -> 0..HIGH - 1] /\ \A i, j \in 1..k : rows[i] = rows[j] => i = j
  /\ erased \in [1..k -> 0..n - 1] /\ \A i, j \in 1..k : erased[i] = erased[j] => i = j

LEMMA MiniMatrixIs ==
  ASSUME NEW n \in 0..HIGH, NEW k \in Nat, NEW rows, NEW erased,
         Erasure(n, k, rows, erased)
  PROVE  /\ MiniMatrix(rows, erased) \in Matrices(k) /\ Len(erased) = k
         /\ \A r, c \in 1..k : /\ MiniMatrix(rows, erased)[r][c] = Coefficient(rows[r], erased[c])
                               /\ rows[r] \in 0..HIGH - 1 /\ erased[c] \in 0..HIGH - 1
                               /\ Coefficient(rows[r], erased[c]) \in gf
<1>1. /\ rows \in [1..k -> 0..HIGH - 1] /\ erased \in [1..k -> 0..n - 1]
  BY DEF Erasure
<1>2. \A i \in 1..k : erased[i] \in 0..HIGH - 1 /\ rows[i] \in 0..HIGH - 1
  BY <1>1, FieldSizes
<1>3. Len(erased) = k
  BY <1>1
<1>4. \A r, c \in 1..k : Coefficient(rows[r], erased[c]) \in gf
  BY <1>2, CoefficientIs
<1> DEFINE E(r, c) == Coefficient(rows[r], erased[c])
           M == [r \in 1..k |-> [c \in 1..k |-> E(r, c)]]
<1>5. MiniMatrix(rows, erased) = <<>> \o [r \in 1..k |-> <<>> \o [c \in 1..k |-> E(r, c)]]
  BY <1>3 DEF MiniMatrix, Matrix, Listed, Coefficient
<1> HIDE DEF E
<1>6. ASSUME NEW r \in 1..k PROVE <<>> \o [c \in 1..k |-> E(r, c)] = [c \in 1..k |-> E(r, c)]
  <2>1. [c \in 1..k |-> E(r, c)] \in [1..k -> gf]
    BY <1>4 DEF E
  <2> QED BY <2>1, ListIs
<1>7. [r \in 1..k |-> <<>> \o [c \in 1..k |-> E(r, c)]] = M
  BY <1>6
<1>8. M \in [1..k -> [1..k -> gf]] /\ \A r, c \in 1..k : M[r][c] = E(r, c)
  BY <1>4 DEF E
<1> HIDE DEF M
<1>9. MiniMatrix(rows, erased) = M
  BY <1>5, <1>7, <1>8, ListIs
<1> QED BY <1>2, <1>3, <1>4, <1>8, <1>9 DEF E, Matrices, Vectors

\* The part of the code that an erasure leaves has an inverse.
LEMMA MiniMatrixRegular ==
  ASSUME NEW n \in 0..HIGH, NEW k \in Nat, NEW rows, NEW erased,
         Erasure(n, k, rows, erased), NEW x \in Vectors(k),
         Sends(MiniMatrix(rows, erased), x, Zeros(k), k)
  PROVE  \A i \in 1..k : x[i] = 0
<1> DEFINE m == MiniMatrix(rows, erased)
           a == [i \in 1..k |-> HIGH + rows[i]]
<1>1. /\ m \in Matrices(k)
      /\ \A r, c \in 1..k : /\ m[r][c] = Coefficient(rows[r], erased[c])
                            /\ rows[r] \in 0..HIGH - 1 /\ erased[c] \in 0..HIGH - 1
                            /\ Coefficient(rows[r], erased[c]) \in gf
  BY MiniMatrixIs
<1>2. \A i \in 1..k : a[i] = HIGH + rows[i]
  OBVIOUS
<1> HIDE DEF m, a
<1>3. Names(a, erased, k)
  <2>1. \A i, j \in 1..k : a[i] \in gf /\ erased[i] \in gf /\ a[i] # erased[j]
    BY <1>1, <1>2, CoefficientIs
  <2>2. ASSUME NEW i \in 1..k, NEW j \in 1..k, i # j PROVE a[i] # a[j] /\ erased[i] # erased[j]
    <3>1. rows[i] # rows[j] /\ erased[i] # erased[j]
      BY <2>2 DEF Erasure
    <3>2. rows[i] \in Nat /\ rows[j] \in Nat /\ HIGH \in Nat
      BY <1>1, FieldSizes
    <3> QED BY <1>2, <3>1, <3>2
  <2> QED BY <2>1, <2>2 DEF Names, Terms
<1>4. ASSUME NEW r \in 1..k PROVE Total(CauchyTerms(a, erased, x, r, k), k) = 0
  <2> DEFINE f == CauchyTerms(a, erased, x, r, k)
             g == Products(m[r], x, k)
  <2>1. m[r] \in Vectors(k)
    BY <1>1 DEF Matrices
  <2>2. /\ Dot(m[r], x, k) = Total(g, k) /\ Terms(g, k)
        /\ \A i \in 1..k : g[i] = gf_mul(m[r][i], x[i])
    BY <2>1, DotIs
  <2>3. \A i \in 1..k : f[i] = gf_mul(inverse[Xor(a[r], erased[i])], x[i])
    BY DEF CauchyTerms
  <2> HIDE DEF f, g
  <2>4. \A i \in 1..k : g[i] = f[i]
    BY <1>1, <1>2, <2>2, <2>3 DEF Coefficient
  <2>5. Total(g, k) = Total(f, k)
    BY <2>2, <2>4, TotalSame
  <2>6. Zeros(k)[r] = Dot(m[r], x, k) /\ Zeros(k)[r] = 0
    BY DEF Sends, m, Zeros
  <2> QED BY <2>2, <2>5, <2>6 DEF f
<1>5. Terms(x, k)
  BY DEF Terms, Vectors
<1> QED BY <1>3, <1>4, <1>5, CauchyRegular DEF Vanishes

\* What arrived of the data blocks is as it was.
Agree(damaged, data, n, erased) ==
  /\ damaged \in [0..n - 1 -> gf]
  /\ \A b \in 0..n - 1 : b \notin Range(erased) => damaged[b] = data[b]

ParityOf(fec, data, n, rows, k) ==
  fec \in [1..k -> gf] /\ \A j \in 1..k : fec[j] = fec_encode(data, n, rows[j])

\* A parity block less what arrived is the sum of what is missing.
Lacks(damaged, data, n, fec, rows, erased, k) ==
  /\ [i \in 1..k |-> data[erased[i]]] \in Vectors(k)
  /\ reduce(damaged, n, fec, rows, erased) \in Vectors(k)
  /\ Sends(MiniMatrix(rows, erased), [i \in 1..k |-> data[erased[i]]],
           reduce(damaged, n, fec, rows, erased), k)

LEMMA ReducedParity ==
  ASSUME NEW n \in 0..HIGH, NEW data \in [0..n - 1 -> gf], NEW k \in Nat,
         NEW rows, NEW erased, Erasure(n, k, rows, erased),
         NEW damaged, Agree(damaged, data, n, erased),
         NEW fec, ParityOf(fec, data, n, rows, k)
  PROVE  Lacks(damaged, data, n, fec, rows, erased, k)
<1> DEFINE m == MiniMatrix(rows, erased)
           d == [i \in 1..k |-> data[erased[i]]]
           red == reduce(damaged, n, fec, rows, erased)
           e == [i \in 1..k |-> erased[i] + 1]
<1>0. n \in Nat
  BY FieldSizes
<1>1. /\ m \in Matrices(k)
      /\ \A r, c \in 1..k : /\ m[r][c] = Coefficient(rows[r], erased[c])
                            /\ rows[r] \in 0..HIGH - 1 /\ erased[c] \in 0..HIGH - 1
                            /\ Coefficient(rows[r], erased[c]) \in gf
  BY MiniMatrixIs
<1>9. fec \in [1..k -> gf] /\ \A j \in 1..k : fec[j] = fec_encode(data, n, rows[j])
  BY DEF ParityOf
<1>2. /\ rows \in [1..k -> 0..HIGH - 1] /\ erased \in [1..k -> 0..n - 1]
      /\ \A i, j \in 1..k : erased[i] = erased[j] => i = j
  BY DEF Erasure
<1>3. d \in Vectors(k) /\ \A i \in 1..k : d[i] = data[erased[i]]
  BY <1>2 DEF Vectors
<1>4. /\ red \in [1..k -> gf]
      /\ \A j \in 1..k : red[j] = Xor(fec[j], Total(KeptTerms(damaged, n, rows[j], erased), n))
  <2>1. damaged \in [0..n - 1 -> gf]
    BY DEF Agree
  <2>2. Reduces(red, damaged, n, fec, rows, erased, k)
    BY <1>2, <1>9, <2>1, ReduceIs
  <2> HIDE DEF red
  <2> QED BY <2>2 DEF Reduces
<1>5. Places(e, k, n) /\ \A i \in 1..k : e[i] = erased[i] + 1 /\ e[i] - 1 = erased[i]
  <2>1. \A i \in 1..k : erased[i] \in 0..n - 1
    BY <1>2
  <2>2. \A i \in 1..k : erased[i] + 1 \in 1..n /\ (erased[i] + 1) - 1 = erased[i]
    BY <1>0, <2>1
  <2>3. ASSUME NEW i \in 1..k, NEW j \in 1..k, e[i] = e[j] PROVE i = j
    <3>1. erased[i] = erased[j]
      BY <1>0, <2>1, <2>3
    <3> QED BY <1>2, <3>1
  <2> QED BY <2>2, <2>3 DEF Places
<1>6. \A i \in 1..n : i - 1 \in Range(erased) <=> i \in {e[j] : j \in 1..k}
  <2>1. Range(erased) = {erased[j] : j \in 1..k}
    BY <1>2 DEF Range
  <2>2. \A j \in 1..k : erased[j] \in Nat
    BY <1>0, <1>2
  <2>3. ASSUME NEW i \in 1..n, NEW j \in 1..k PROVE i - 1 = erased[j] <=> i = e[j]
    BY <1>0, <1>5, <2>2
  <2> HIDE DEF e
  <2> QED BY <2>1, <2>3
<1> HIDE DEF m, d, red, e
<1>7. ASSUME NEW j \in 1..k PROVE red[j] = Dot(m[j], d, k)
  <2> DEFINE T == Contributions(data, n, rows[j])
             K == KeptTerms(damaged, n, rows[j], erased)
             L == Only(T, e, k, n)
             C == Chosen(T, e, k)
             g == Products(m[j], d, k)
  <2>0. rows[j] \in 0..HIGH - 1
    BY <1>2
  <2>1. /\ Terms(T, n)
        /\ \A i \in 1..n : T[i] = gf_mul(Coefficient(rows[j], i - 1), data[i - 1]) /\ T[i] \in gf
    BY <2>0, ContributionsAre DEF Terms
  <2>2. fec[j] = Total(T, n)
    BY <1>9, <2>0, EncodeIs
  <2>3. \A i \in 1..n : K[i] = IF i \in {e[p] : p \in 1..k} THEN 0 ELSE T[i]
    <3> SUFFICES ASSUME NEW i \in 1..n
                 PROVE  K[i] = IF i \in {e[p] : p \in 1..k} THEN 0 ELSE T[i]
      OBVIOUS
    <3>1. K[i] = IF i - 1 \in Range(erased) THEN 0 ELSE Contributions(damaged, n, rows[j])[i]
      BY DEF KeptTerms
    <3>2. /\ Contributions(damaged, n, rows[j])[i]
               = gf_mul(Coefficient(rows[j], i - 1), damaged[i - 1])
          /\ T[i] = gf_mul(Coefficient(rows[j], i - 1), data[i - 1])
      BY DEF Contributions
    <3>3. i - 1 \in 0..n - 1
      BY <1>0
    <3>4. i - 1 \notin Range(erased) => damaged[i - 1] = data[i - 1]
      BY <3>3 DEF Agree
    <3> HIDE DEF K, T
    <3> QED BY <1>6, <3>1, <3>2, <3>4
  <2>4. \A i \in 1..n : L[i] = IF i \in {e[p] : p \in 1..k} THEN T[i] ELSE 0
    BY DEF Only
  <2>5. Total(L, n) = Total(C, k) /\ Terms(C, k) /\ Terms(L, n)
    <3> HIDE DEF T
    <3> QED BY <1>0, <1>5, <2>1, TotalReorder
  <2>6. \A i \in 1..k : C[i] = T[e[i]]
    BY DEF Chosen
  <2>7. \A i \in 1..k : g[i] = gf_mul(m[j][i], d[i])
    BY DEF Products
  <2>8. Dot(m[j], d, k) = Total(g, k)
    BY <1>1, <1>3, DotIs DEF Matrices
  <2> HIDE DEF T, K, L, C, g
  <2>9. Terms(K, n) /\ \A i \in 1..n : T[i] = Xor(K[i], L[i])
    <3>1. \A i \in 1..n : Xor(T[i], 0) = T[i] /\ Xor(0, T[i]) = T[i]
      BY <2>1, XorLaws
    <3> QED BY <2>1, <2>3, <2>4, <3>1, FieldSizes DEF Terms
  <2>10. Total(T, n) = Xor(Total(K, n), Total(L, n))
    BY <1>0, <2>5, <2>9, TotalAdd
  <2>11. red[j] = Total(L, n)
    <3>1. PICK x \in gf, y \in gf : x = Total(K, n) /\ y = Total(L, n)
      BY <1>0, <2>5, <2>9, TotalStep
    <3>2. red[j] = Xor(Xor(x, y), x)
      BY <1>4, <2>2, <2>10, <3>1 DEF K
    <3>3. Xor(x, y) = Xor(y, x) /\ Xor(Xor(y, x), x) = y
      BY XorLaws, XorSwap
    <3> QED BY <3>1, <3>2, <3>3
  <2>12. \A i \in 1..k : C[i] = g[i]
    <3> SUFFICES ASSUME NEW i \in 1..k PROVE C[i] = g[i]
      OBVIOUS
    <3>1. e[i] \in 1..n /\ e[i] - 1 = erased[i]
      BY <1>5 DEF Places
    <3>2. T[e[i]] = gf_mul(Coefficient(rows[j], erased[i]), data[erased[i]])
      BY <2>1, <3>1
    <3> QED BY <1>1, <1>3, <2>6, <2>7, <3>2
  <2>13. Total(C, k) = Total(g, k)
    BY <2>5, <2>12, TotalSame
  <2> QED BY <2>5, <2>8, <2>11, <2>13
<1>8. Sends(m, d, red, k)
  BY <1>7 DEF Sends
<1> QED BY <1>3, <1>4, <1>8 DEF Lacks, m, d, red, Vectors

(* Any k parity blocks of a group of at most HIGH blocks, whichever they are
   and in whatever order they came, repair any k lost data blocks of it,
   whatever the places of those hold. *)
THEOREM DecodeRepairs ==
  ASSUME NEW n \in 0..HIGH, NEW data \in [0..n - 1 -> gf], NEW k \in Nat,
         NEW rows, NEW erased, Erasure(n, k, rows, erased),
         NEW damaged, Agree(damaged, data, n, erased),
         NEW fec, ParityOf(fec, data, n, rows, k)
  PROVE  fec_decode(damaged, n, fec, rows, erased) = data
<1> DEFINE m == MiniMatrix(rows, erased)
           d == [i \in 1..k |-> data[erased[i]]]
           red == reduce(damaged, n, fec, rows, erased)
           inv == invert_mat(m, k)
           repaired == resolve(red, rows, erased)
<1>1. m \in Matrices(k) /\ Len(erased) = k
  BY MiniMatrixIs
<1>2. d \in Vectors(k) /\ red \in Vectors(k) /\ Sends(m, d, red, k)
  <2>1. Lacks(damaged, data, n, fec, rows, erased, k)
    BY ReducedParity
  <2> QED BY <2>1 DEF Lacks
<1>3. /\ inv.ok \in BOOLEAN
      /\ inv.ok => /\ inv.m \in Matrices(k)
                   /\ \A x, y \in Vectors(k) : Sends(m, x, y, k) <=> Sends(inv.m, y, x, k)
      /\ ~inv.ok => \E x \in Vectors(k) : /\ \E r \in 1..k : x[r] # 0
                                          /\ Sends(m, x, Zeros(k), k)
  <2> HIDE DEF m
  <2> QED BY <1>1, InversionIs
<1>4. inv.ok
  <2>1. \A x \in Vectors(k) : Sends(m, x, Zeros(k), k) => \A i \in 1..k : x[i] = 0
    BY MiniMatrixRegular
  <2> HIDE DEF inv, m
  <2> QED BY <1>3, <2>1
<1>5. Sends(inv.m, red, d, k) /\ inv.m \in Matrices(k)
  <2> HIDE DEF inv, m, d, red
  <2> QED BY <1>2, <1>3, <1>4
<1>6. \A i \in 1..k : repaired[i] = Dot(inv.m[i], red, k)
  <2>1. PICK matrix \in Matrices(k) : matrix = invert_mat(MiniMatrix(rows, erased), k).m
    BY <1>5
  <2> HIDE DEF red
  <2>2. \A i \in 1..k : repaired[i] = Dot(matrix[i], red, k)
    BY <1>1, <1>2, <2>1, ResolveIs
  <2> QED BY <2>1, <2>2
<1>7. \A i \in 1..k : repaired[i] = data[erased[i]]
  <2>1. \A i \in 1..k : d[i] = Dot(inv.m[i], red, k) /\ d[i] = data[erased[i]]
    BY <1>5 DEF Sends
  <2> HIDE DEF repaired, inv, d, red
  <2> QED BY <1>6, <2>1
<1>8. /\ erased \in [1..k -> 0..n - 1] /\ DOMAIN erased = 1..k
      /\ \A i, j \in 1..k : erased[i] = erased[j] => i = j
  BY DEF Erasure
<1>9. fec_decode(damaged, n, fec, rows, erased)
        = [b \in 0..n - 1 |-> IF b \in Range(erased)
                              THEN repaired[CHOOSE i \in DOMAIN erased : erased[i] = b]
                              ELSE damaged[b]]
  BY DEF fec_decode
<1> HIDE DEF repaired
<1>10. ASSUME NEW b \in 0..n - 1
       PROVE  data[b] = IF b \in Range(erased)
                        THEN repaired[CHOOSE i \in DOMAIN erased : erased[i] = b]
                        ELSE damaged[b]
  <2>1. CASE b \in Range(erased)
    <3>1. \E i \in DOMAIN erased : erased[i] = b
      BY <2>1 DEF Range
    <3>2. PICK i \in 1..k : i = (CHOOSE j \in DOMAIN erased : erased[j] = b) /\ erased[i] = b
      BY <1>8, <3>1
    <3> QED BY <1>7, <2>1, <3>2
  <2>2. CASE b \notin Range(erased)
    BY <2>2 DEF Agree
  <2> QED BY <2>1, <2>2
<1>11. data = [b \in 0..n - 1 |-> IF b \in Range(erased)
                                  THEN repaired[CHOOSE i \in DOMAIN erased : erased[i] = b]
                                  ELSE damaged[b]]
  <2>1. data = [b \in 0..n - 1 |-> data[b]]
    OBVIOUS
  <2> QED BY <1>10, <2>1
<1> QED BY <1>9, <1>11

-----------------------------------------------------------------------------
(* Erasures in order *)

\* The elements of a finite set of numbers can be put in order.
Ascends(s, k) == \A i, j \in 1..k : i < j => s[i] < s[j]

LEMMA AscendingExists ==
  ASSUME NEW k \in Nat, NEW S \in SUBSET Nat, IsFiniteSet(S), Cardinality(S) = k
  PROVE  \E s \in [1..k -> S] : Ascends(s, k)
<1> DEFINE T == {m \in Nat : \A A \in SUBSET Nat : IsFiniteSet(A) /\ Cardinality(A) = m =>
                               \E s \in [1..m -> A] : Ascends(s, m)}
<1>1. 0 \in T
  <2> SUFFICES ASSUME NEW A \in SUBSET Nat
               PROVE  \E s \in [1..0 -> A] : Ascends(s, 0)
    OBVIOUS
  <2> WITNESS <<>> \in [1..0 -> A]
  <2> QED BY DEF Ascends
<1>2. ASSUME NEW m \in Nat, m \in T PROVE m + 1 \in T
  <2> SUFFICES ASSUME NEW A \in SUBSET Nat, IsFiniteSet(A), Cardinality(A) = m + 1
               PROVE  \E s \in [1..m + 1 -> A] : Ascends(s, m + 1)
    OBVIOUS
  <2>1. A # {}
    BY FS_EmptySet
  <2>2. PICK x \in A : \A y \in A : x <= y
    BY <2>1, HasLeast
  <2>3. IsFiniteSet(A \ {x}) /\ Cardinality(A \ {x}) = m /\ A \ {x} \in SUBSET Nat
    <3>1. IsFiniteSet(A \ {x}) /\ Cardinality(A \ {x}) = (m + 1) - 1
      BY <2>2, FS_RemoveElement
    <3> QED BY <3>1
  <2>4. PICK r \in [1..m -> A \ {x}] : Ascends(r, m)
    BY <1>2, <2>3
  <2> DEFINE s == [i \in 1..m + 1 |-> IF i = 1 THEN x ELSE r[i - 1]]
  <2>5. \A i \in 1..m + 1 : i # 1 => i - 1 \in 1..m /\ r[i - 1] \in A \ {x}
    BY <2>4
  <2>6. s \in [1..m + 1 -> A]
    BY <2>5
  <2>7. ASSUME NEW i \in 1..m + 1, NEW j \in 1..m + 1, i < j PROVE s[i] < s[j]
    <3>1. j - 1 \in 1..m /\ s[j] = r[j - 1] /\ r[j - 1] \in A \ {x}
      BY <2>5, <2>7
    <3>2. CASE i = 1
      <4>1. s[i] = x /\ r[j - 1] \in Nat /\ x \in Nat /\ x <= r[j - 1] /\ x # r[j - 1]
        BY <2>2, <3>1, <3>2
      <4> QED BY <3>1, <4>1
    <3>3. CASE i # 1
      <4>1. i - 1 \in 1..m /\ s[i] = r[i - 1] /\ i - 1 < j - 1
        BY <2>5, <2>7, <3>3
      <4>2. r[i - 1] < r[j - 1]
        <5> HIDE DEF s
        <5> QED BY <2>4, <3>1, <4>1 DEF Ascends
      <4> QED BY <3>1, <4>1, <4>2
    <3> QED BY <3>2, <3>3
  <2>8. Ascends(s, m + 1)
    BY <2>7 DEF Ascends
  <2> QED BY <2>6, <2>8
<1>3. Nat \subseteq T
  <2> HIDE DEF T
  <2> QED BY <1>1, <1>2, Induction
<1>4. k \in T
  BY <1>3
<1> QED BY <1>4

\* The list of erased places has each of them once.
LEMMA AscendingIs ==
  ASSUME NEW S \in SUBSET Nat, IsFiniteSet(S)
  PROVE  /\ Ascending(S) \in [1..Cardinality(S) -> S]
         /\ \A i, j \in 1..Cardinality(S) : Ascending(S)[i] = Ascending(S)[j] => i = j
         /\ Range(Ascending(S)) = S
<1>1. PICK k \in Nat : k = Cardinality(S)
  BY FS_CardinalityType
<1>2. \E s \in [1..k -> S] : \A i, j \in DOMAIN s : i < j => s[i] < s[j]
  <2>1. PICK s \in [1..k -> S] : Ascends(s, k)
    BY <1>1, AscendingExists
  <2> QED BY <2>1 DEF Ascends
<1>3. PICK s \in [1..k -> S] : /\ s = Ascending(S)
                               /\ \A i, j \in DOMAIN s : i < j => s[i] < s[j]
  BY <1>1, <1>2 DEF Ascending
<1>4. ASSUME NEW i \in 1..k, NEW j \in 1..k, s[i] = s[j] PROVE i = j
  <2>1. s[i] \in Nat /\ s[j] \in Nat
    BY <1>3
  <2>2. DOMAIN s = 1..k
    BY <1>3
  <2>3. (i < j => s[i] < s[j]) /\ (j < i => s[j] < s[i])
    BY <1>3, <2>2
  <2> QED BY <1>4, <2>1, <2>3
<1>5. s \in Injection(1..k, S)
  BY <1>4 DEF Injection, IsInjective
<1>6. IsFiniteSet(1..k) /\ Cardinality(1..k) = k
  BY FS_Interval
<1>7. s \in Surjection(1..k, S)
  BY <1>1, <1>5, <1>6, FS_Injection
<1>8. Range(s) = S
  BY <1>7 DEF Surjection, Range
<1> QED BY <1>1, <1>3, <1>4, <1>8

\* The parity blocks of some rows.
EncodedAs(parity, data, n, rows, k) == \A i \in 1..k : parity[i] = fec_encode(data, n, rows[i])

\* A group with something else in the places of the lost blocks, and the blocks
\* that stand for parity.
WithHoles(data, n, lost, hole) == [b \in 0..n - 1 |-> IF b \in lost THEN hole ELSE data[b]]
AtRows(parity, rows) == [i \in DOMAIN rows |-> parity[i]]

\* A group whose lost blocks are repaired from as many of its parity blocks, as
\* the decoder is called.
LEMMA LostRepaired ==
  ASSUME NEW n \in 0..HIGH, NEW data \in [0..n - 1 -> gf],
         NEW lost \in SUBSET (0..n - 1), NEW redundancy \in 0..HIGH,
         NEW rows \in [1..Cardinality(lost) -> 0..redundancy - 1], IsInjective(rows),
         NEW hole \in gf,
         NEW parity, EncodedAs(parity, data, n, rows, Cardinality(lost))
  PROVE  fec_decode(WithHoles(data, n, lost, hole), n, AtRows(parity, rows), rows,
                    Ascending(lost)) = data
<1>0. HIGH \in Nat /\ n \in Nat
  BY FieldSizes
<1>1. lost \in SUBSET Nat /\ IsFiniteSet(lost)
  <2>1. IsFiniteSet(0..n - 1)
    BY <1>0, FS_Interval
  <2>2. IsFiniteSet(lost)
    BY <2>1, FS_Subset
  <2>3. 0..n - 1 \subseteq Nat
    BY <1>0
  <2> QED BY <2>2, <2>3
<1>2. PICK k \in Nat : k = Cardinality(lost)
  BY <1>1, FS_CardinalityType
<1>3. PICK erased : erased = Ascending(lost)
  OBVIOUS
<1>4. /\ erased \in [1..k -> lost] /\ Range(erased) = lost
      /\ \A i, j \in 1..k : erased[i] = erased[j] => i = j
  BY <1>1, <1>2, <1>3, AscendingIs
<1>5. rows \in [1..k -> 0..HIGH - 1] /\ DOMAIN rows = 1..k
  BY <1>0, <1>2
<1>6. \A i, j \in 1..k : rows[i] = rows[j] => i = j
  BY <1>5 DEF IsInjective
<1>7. erased \in [1..k -> 0..n - 1]
  BY <1>4
<1>8. Erasure(n, k, rows, erased)
  BY <1>4, <1>5, <1>6, <1>7 DEF Erasure
<1> DEFINE damaged == WithHoles(data, n, lost, hole)
           fec == AtRows(parity, rows)
<1>9. Agree(damaged, data, n, erased)
  BY <1>4 DEF Agree, WithHoles
<1>10. ParityOf(fec, data, n, rows, k)
  <2>1. \A j \in 1..k : rows[j] \in 0..HIGH - 1 /\ parity[j] = fec_encode(data, n, rows[j])
    BY <1>2, <1>5 DEF EncodedAs
  <2>2. ASSUME NEW j \in 1..k PROVE parity[j] \in gf
    <3>1. PICK row \in 0..HIGH - 1 : row = rows[j]
      BY <2>1
    <3>2. fec_encode(data, n, row) \in gf
      BY EncodeIs
    <3> QED BY <2>1, <3>1, <3>2
  <2> QED BY <1>5, <2>1, <2>2 DEF ParityOf, AtRows
<1> HIDE DEF damaged, fec
<1>11. fec_decode(damaged, n, fec, rows, erased) = data
  BY <1>8, <1>9, <1>10, DecodeRepairs
<1> QED BY <1>3, <1>11 DEF damaged, fec

(* What the manual says of --fec holds for every size of the field, of the
   group and of its redundancy: any parity blocks repair as many lost data
   blocks (fec_encode, fec_decode). *)
THEOREM AnyParityRepairs ==
  ASSUME NEW most \in 0..HIGH
  PROVE  AnyParityRepairsAnyErasure(most)
<1>0. HIGH \in Nat /\ gf = 0..GF_SIZE /\ GF_SIZE \in Nat /\ GF_SIZE \in gf
  BY FieldSizes
<1> DEFINE Data(n) == [b \in 0..n - 1 |-> (3 * b + 1) % (GF_SIZE + 1)]
           Parities(n, redundancy) ==
             [row \in 0..redundancy - 1 |-> fec_encode(Data(n), n, row)]
           Repairs(n, redundancy, lost, rows) ==
             fec_decode([b \in 0..n - 1 |-> IF b \in lost THEN GF_SIZE ELSE Data(n)[b]], n,
                        [j \in DOMAIN rows |-> Parities(n, redundancy)[rows[j]]], rows,
                        Ascending(lost)) = Data(n)
<1>1. ASSUME NEW n \in 1..most, NEW redundancy \in 1..most, NEW lost \in SUBSET (0..n - 1),
             NEW rows \in [1..Cardinality(lost) -> 0..redundancy - 1], IsInjective(rows)
      PROVE  Repairs(n, redundancy, lost, rows)
  <2> DEFINE data == Data(n)
             parity == Parities(n, redundancy)
             received == [j \in 1..Cardinality(lost) |-> parity[rows[j]]]
  <2>1. n \in 0..HIGH /\ redundancy \in 0..HIGH
    BY <1>0
  <2>2. data \in [0..n - 1 -> gf]
    <3>1. \A b \in 0..n - 1 : 3 * b + 1 \in Nat
      BY <2>1
    <3>2. \A x \in Nat : x % (GF_SIZE + 1) \in 0..GF_SIZE
      BY <1>0
    <3> QED BY <1>0, <3>1, <3>2
  <2>3. EncodedAs(received, data, n, rows, Cardinality(lost))
    BY DEF EncodedAs
  <2>4. [j \in DOMAIN rows |-> parity[rows[j]]] = [j \in DOMAIN rows |-> received[j]]
    OBVIOUS
  <2>5. fec_decode(WithHoles(data, n, lost, GF_SIZE), n, AtRows(received, rows), rows,
                   Ascending(lost)) = data
    <3> HIDE DEF data, received
    <3> QED BY <1>0, <1>1, <2>1, <2>2, <2>3, LostRepaired
  <2> QED BY <2>4, <2>5 DEF WithHoles, AtRows
<1>2. AnyParityRepairsAnyErasure(most)
         <=> \A n \in 1..most, redundancy \in 1..most :
               \A lost \in SUBSET (0..n - 1) :
                 \A rows \in {s \in [1..Cardinality(lost) -> 0..redundancy - 1] : IsInjective(s)} :
                   Repairs(n, redundancy, lost, rows)
  BY DEF AnyParityRepairsAnyErasure
<1> HIDE DEF Repairs
<1> QED BY <1>1, <1>2
=============================================================================
