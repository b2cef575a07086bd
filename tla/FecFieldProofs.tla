---------------------------- MODULE FecFieldProofs ----------------------------
(***************************************************************************)
(* The tables of fec.c are those of a field, for every size of it the code *)
(* has a polynomial for: all these polynomials are primitive.              *)
(***************************************************************************)
EXTENDS FecCode, FiniteSetTheorems, WellFoundedInduction, TLAPS

-----------------------------------------------------------------------------
(* Induction and recursion *)

Below == {d \in Nat \X Nat : d[1] < d[2]}

\* A set of numbers has a least one.
LEMMA HasLeast ==
  ASSUME NEW S \in SUBSET Nat, S # {}
  PROVE  \E x \in S : \A y \in S : x <= y
<1>1. IsWellFoundedOn(Below, Nat)
  BY NatLessThanWellFounded DEF Below, OpToRel
<1>2. PICK x \in S : \A y \in S : ~(<<y, x>> \in Below)
  BY <1>1, WFMin
<1>3. \A y \in S : y \in Nat /\ x \in Nat /\ ~(y < x)
  BY <1>2 DEF Below
<1> QED BY <1>3

\* A set that holds 0 and with each number the next holds all.
LEMMA Induction ==
  ASSUME NEW S, 0 \in S, \A n \in Nat : n \in S => n + 1 \in S
  PROVE  Nat \subseteq S
<1> SUFFICES ASSUME Nat \ S # {} PROVE FALSE
  OBVIOUS
<1>1. PICK x \in Nat \ S : \A y \in Nat \ S : x <= y
  BY HasLeast
<1>2. x # 0 /\ x - 1 \in Nat /\ x = (x - 1) + 1 /\ ~(x <= x - 1)
  BY <1>1
<1>3. x - 1 \in S
  BY <1>1, <1>2
<1> QED BY <1>1, <1>2, <1>3

\* A function that calls itself at most once, on an argument of less measure,
\* and whose value is h of the result and of its argument, exists.
Calls(F, S, base, next, h, B) ==
  \A s \in S : F[s] = IF s \in B THEN base[s] ELSE h[<<F[next[s]], s>>]

LEMMA RecursionExists ==
  ASSUME NEW S, NEW V, NEW B, NEW base \in [S -> V], NEW next \in [S -> S],
         NEW h \in [V \X S -> V], NEW measure \in [S -> Nat],
         \A s \in S \ B : measure[next[s]] < measure[s]
  PROVE  \E F \in [S -> V] : Calls(F, S, base, next, h, B)
<1> DEFINE Under(n) == {s \in S : measure[s] < n}
           Upto(n, f) == /\ f \in [Under(n) -> V]
                         /\ \A s \in Under(n) :
                              f[s] = IF s \in B THEN base[s] ELSE h[<<f[next[s]], s>>]
           N == {n \in Nat : \E f : Upto(n, f)}
           U == {n \in Nat : \A i, j \in Nat : \A f, g :
                   Upto(i, f) /\ Upto(j, g) =>
                     \A s \in Under(n) : s \in Under(i) /\ s \in Under(j) => f[s] = g[s]}
<1>1. \A n \in Nat : \A s \in Under(n + 1) \ B : next[s] \in Under(n)
  OBVIOUS
<1>2. \A n \in Nat : \A s \in Under(n) \ B : next[s] \in Under(n)
  OBVIOUS
<1>3. \A n \in Nat : Under(n) \subseteq Under(n + 1)
  OBVIOUS
<1>4. 0 \in N
  <2>1. Under(0) = {}
    OBVIOUS
  <2>2. Upto(0, [s \in Under(0) |-> base[s]])
    BY <2>1
  <2> QED BY <2>2
<1>5. ASSUME NEW n \in Nat, n \in N PROVE n + 1 \in N
  <2>1. PICK f : Upto(n, f)
    BY <1>5
  <2> DEFINE g == [s \in Under(n + 1) |-> IF s \in B THEN base[s] ELSE h[<<f[next[s]], s>>]]
  <2>2. ASSUME NEW s \in Under(n) PROVE g[s] = f[s]
    BY <1>3, <2>1
  <2>3. g \in [Under(n + 1) -> V]
    <3> SUFFICES ASSUME NEW s \in Under(n + 1)
                 PROVE  (IF s \in B THEN base[s] ELSE h[<<f[next[s]], s>>]) \in V
      OBVIOUS
    <3>1. CASE s \in B
      BY <3>1
    <3>2. CASE s \notin B
      <4>1. f[next[s]] \in V
        BY <1>1, <2>1, <3>2
      <4> QED BY <3>2, <4>1
    <3> QED BY <3>1, <3>2
  <2>4. ASSUME NEW s \in Under(n + 1)
        PROVE  g[s] = IF s \in B THEN base[s] ELSE h[<<g[next[s]], s>>]
    BY <1>1, <2>2
  <2>5. Upto(n + 1, g)
    BY <2>3, <2>4
  <2> HIDE DEF Upto, g
  <2> QED BY <2>5
<1>6. Nat \subseteq N
  <2> HIDE DEF N
  <2> QED BY <1>4, <1>5, Induction
<1>7. 0 \in U
  OBVIOUS
<1>8. ASSUME NEW n \in Nat, n \in U PROVE n + 1 \in U
  <2> SUFFICES ASSUME NEW i \in Nat, NEW j \in Nat, NEW f, NEW g, Upto(i, f), Upto(j, g),
                      NEW s \in Under(n + 1), s \in Under(i), s \in Under(j)
               PROVE  f[s] = g[s]
    <3> HIDE DEF Upto, Under
    <3> QED OBVIOUS
  <2>1. CASE s \in B
    BY <2>1
  <2>2. CASE s \notin B
    <3>1. next[s] \in Under(n) /\ next[s] \in Under(i) /\ next[s] \in Under(j)
      BY <1>1, <1>2, <2>2
    <3>2. f[next[s]] = g[next[s]]
      <4> HIDE DEF Upto, Under
      <4> QED BY <1>8, <3>1
    <3> QED BY <2>2, <3>2
  <2> QED BY <2>1, <2>2
<1>9. Nat \subseteq U
  <2> HIDE DEF U
  <2> QED BY <1>7, <1>8, Induction
<1> DEFINE At(n) == CHOOSE f : Upto(n, f)
           F == [s \in S |-> At(measure[s] + 1)[s]]
<1>10. ASSUME NEW n \in Nat PROVE Upto(n, At(n))
  <2> HIDE DEF Upto
  <2> QED BY <1>6
<1> HIDE DEF At
<1>11. ASSUME NEW s \in S PROVE s \in Under(measure[s] + 1) /\ measure[s] + 1 \in Nat
  OBVIOUS
<1>12. F \in [S -> V]
  <2> SUFFICES ASSUME NEW s \in S PROVE At(measure[s] + 1)[s] \in V
    OBVIOUS
  <2> QED BY <1>10, <1>11
<1>13. ASSUME NEW s \in S
       PROVE  F[s] = IF s \in B THEN base[s] ELSE h[<<F[next[s]], s>>]
  <2> DEFINE n == measure[s] + 1
  <2>1. Upto(n, At(n)) /\ n \in Nat /\ s \in Under(n)
    BY <1>10, <1>11
  <2>2. CASE s \in B
    BY <2>1, <2>2
  <2>3. CASE s \notin B
    <3>1. next[s] \in S /\ next[s] \in Under(n)
      BY <1>2, <2>1, <2>3
    <3> DEFINE m == measure[next[s]] + 1
    <3>2. Upto(m, At(m)) /\ m \in Nat /\ next[s] \in Under(m)
      BY <1>10, <1>11, <3>1
    <3>3. m \in U
      BY <1>9, <3>2
    <3>4. At(m)[next[s]] = At(n)[next[s]]
      <4> HIDE DEF Upto, Under, m, n
      <4> QED BY <2>1, <3>1, <3>2, <3>3
    <3>5. F[next[s]] = At(n)[next[s]]
      BY <3>1, <3>4
    <3>6. F[s] = h[<<At(n)[next[s]], s>>]
      BY <2>1, <2>3
    <3> QED BY <2>3, <3>5, <3>6
  <2> QED BY <2>2, <2>3
<1> QED BY <1>12, <1>13 DEF Calls

\* The same with numbers for arguments, each from the one before.
Counts(F, a, h) == \A n \in Nat : F[n] = IF n = 0 THEN a ELSE h[<<F[n - 1], n>>]

LEMMA CountedRecursion ==
  ASSUME NEW V, NEW a \in V, NEW h \in [V \X Nat -> V]
  PROVE  \E F \in [Nat -> V] : Counts(F, a, h)
<1> DEFINE base == [n \in Nat |-> a]
           next == [n \in Nat |-> IF n = 0 THEN 0 ELSE n - 1]
           measure == [n \in Nat |-> n]
<1>1. /\ base \in [Nat -> V] /\ next \in [Nat -> Nat] /\ measure \in [Nat -> Nat]
      /\ \A n \in Nat \ {0} : measure[next[n]] < measure[n]
  OBVIOUS
<1>2. /\ \A n \in Nat : base[n] = a
      /\ \A n \in Nat \ {0} : next[n] = n - 1
  OBVIOUS
<1> HIDE DEF base, next, measure
<1>3. PICK F \in [Nat -> V] : Calls(F, Nat, base, next, h, {0})
  BY <1>1, RecursionExists
<1>4. ASSUME NEW n \in Nat PROVE F[n] = IF n = 0 THEN a ELSE h[<<F[n - 1], n>>]
  BY <1>2, <1>3 DEF Calls
<1> QED BY <1>4 DEF Counts

-----------------------------------------------------------------------------
(* Powers of two and the exclusive or *)

LEMMA TwoIs ==
  /\ Two \in [Nat -> Nat]
  /\ Two[0] = 1
  /\ \A n \in Nat : Two[n + 1] = 2 * Two[n]
  /\ \A n \in Nat : Two[n] \in Nat \ {0}
<1> DEFINE h == [p \in Nat \X Nat |-> 2 * p[1]]
<1>1. h \in [Nat \X Nat -> Nat] /\ \A x, y \in Nat : h[<<x, y>>] = 2 * x
  OBVIOUS
<1> HIDE DEF h
<1>2. PICK F \in [Nat -> Nat] : \A n \in Nat : F[n] = IF n = 0 THEN 1 ELSE h[<<F[n - 1], n>>]
  <2>1. 1 \in Nat
    OBVIOUS
  <2>2. \E F \in [Nat -> Nat] : Counts(F, 1, h)
    BY <1>1, <2>1, CountedRecursion
  <2> QED BY <2>2 DEF Counts
<1>3. ASSUME NEW n \in Nat PROVE F[n] = IF n = 0 THEN 1 ELSE 2 * F[n - 1]
  <2>1. CASE n = 0
    BY <1>2, <2>1
  <2>2. CASE n # 0
    <3>1. n - 1 \in Nat /\ F[n - 1] \in Nat
      BY <1>2, <2>2
    <3> QED BY <1>1, <1>2, <2>2, <3>1
  <2> QED BY <2>1, <2>2
<1>4. F = [n \in Nat |-> IF n = 0 THEN 1 ELSE 2 * F[n - 1]]
  BY <1>2, <1>3
<1>5. Two = [n \in Nat |-> IF n = 0 THEN 1 ELSE 2 * Two[n - 1]]
  BY <1>4 DEF Two
<1>6. Two[0] = 1 /\ \A n \in Nat : Two[n + 1] = 2 * Two[n]
  BY <1>5
<1> DEFINE T == {n \in Nat : Two[n] \in Nat \ {0}}
<1>7. 0 \in T
  BY <1>6
<1>8. ASSUME NEW n \in Nat, n \in T PROVE n + 1 \in T
  BY <1>6, <1>8
<1>9. Nat \subseteq T
  <2> HIDE DEF T
  <2> QED BY <1>7, <1>8, Induction
<1>10. \A n \in Nat : Two[n] \in Nat \ {0}
  BY <1>9
<1>11. Two \in [Nat -> Nat]
  BY <1>5, <1>10
<1> QED BY <1>6, <1>10, <1>11

LEMMA XorIs ==
  /\ XorOf \in [Nat \X Nat -> Nat]
  /\ \A x, y \in Nat : XorOf[<<x, y>>] = 2 * XorOf[<<x \div 2, y \div 2>>] + ((x + y) % 2)
  /\ XorOf[<<0, 0>>] = 0
<1> DEFINE P == Nat \X Nat
           base == [p \in P |-> 0]
           next == [p \in P |-> <<p[1] \div 2, p[2] \div 2>>]
           h == [q \in Nat \X P |-> 2 * q[1] + ((q[2][1] + q[2][2]) % 2)]
           measure == [p \in P |-> p[1] + p[2]]
<1>1. ASSUME NEW x \in Nat, NEW y \in Nat
      PROVE  /\ x \div 2 \in Nat /\ y \div 2 \in Nat
             /\ <<x, y>> # <<0, 0>> => (x \div 2) + (y \div 2) < x + y
             /\ (x + y) % 2 \in Nat
  OBVIOUS
<1>2. /\ base \in [P -> Nat] /\ next \in [P -> P] /\ measure \in [P -> Nat]
      /\ \A x, y \in Nat : /\ base[<<x, y>>] = 0 /\ next[<<x, y>>] = <<x \div 2, y \div 2>>
                           /\ measure[<<x, y>>] = x + y
  BY <1>1
<1>3. h \in [Nat \X P -> Nat]
  <2> SUFFICES ASSUME NEW q \in Nat \X P PROVE 2 * q[1] + ((q[2][1] + q[2][2]) % 2) \in Nat
    OBVIOUS
  <2>1. q[1] \in Nat /\ q[2][1] \in Nat /\ q[2][2] \in Nat
    OBVIOUS
  <2> QED BY <2>1
<1>4. \A a, x, y \in Nat : h[<<a, <<x, y>>>>] = 2 * a + ((x + y) % 2)
  OBVIOUS
<1>5. \A p \in P \ {<<0, 0>>} : measure[next[p]] < measure[p]
  <2> SUFFICES ASSUME NEW p \in P, p # <<0, 0>> PROVE measure[next[p]] < measure[p]
    OBVIOUS
  <2>1. PICK x \in Nat, y \in Nat : p = <<x, y>>
    OBVIOUS
  <2>2. /\ next[p] = <<x \div 2, y \div 2>> /\ x \div 2 \in Nat /\ y \div 2 \in Nat
        /\ (x \div 2) + (y \div 2) < x + y
    BY <1>1, <1>2, <2>1
  <2>3. measure[next[p]] = (x \div 2) + (y \div 2) /\ measure[p] = x + y
    BY <1>2, <2>1, <2>2
  <2> QED BY <2>2, <2>3
<1> HIDE DEF base, next, h, measure
<1>6. PICK F \in [P -> Nat] : Calls(F, P, base, next, h, {<<0, 0>>})
  BY <1>2, <1>3, <1>5, RecursionExists
<1>7. ASSUME NEW x \in Nat, NEW y \in Nat
      PROVE  F[<<x, y>>] = IF <<x, y>> = <<0, 0>> THEN 0
                           ELSE 2 * F[<<x \div 2, y \div 2>>] + ((x + y) % 2)
  <2>1. F[<<x, y>>] = IF <<x, y>> \in {<<0, 0>>} THEN base[<<x, y>>]
                      ELSE h[<<F[next[<<x, y>>]], <<x, y>>>>]
    BY <1>6 DEF Calls
  <2>2. F[<<x \div 2, y \div 2>>] \in Nat
    BY <1>1, <1>6
  <2>3. h[<<F[<<x \div 2, y \div 2>>], <<x, y>>>>]
          = 2 * F[<<x \div 2, y \div 2>>] + ((x + y) % 2)
    BY <1>4, <2>2
  <2> QED BY <1>2, <2>1, <2>3
<1>8. ASSUME NEW p \in P
      PROVE  F[p] = IF p = <<0, 0>> THEN 0
                    ELSE 2 * F[<<p[1] \div 2, p[2] \div 2>>] + ((p[1] + p[2]) % 2)
  <2>1. p = <<p[1], p[2]>> /\ p[1] \in Nat /\ p[2] \in Nat
    OBVIOUS
  <2> QED BY <1>7, <2>1
<1>9. F = [p \in P |-> IF p = <<0, 0>> THEN 0
                       ELSE 2 * F[<<p[1] \div 2, p[2] \div 2>>] + ((p[1] + p[2]) % 2)]
  BY <1>6, <1>8
<1>10. XorOf = [p \in P |-> IF p = <<0, 0>> THEN 0
                       ELSE 2 * XorOf[<<p[1] \div 2, p[2] \div 2>>] + ((p[1] + p[2]) % 2)]
  BY <1>9 DEF XorOf
<1>11. ASSUME NEW x \in Nat, NEW y \in Nat
       PROVE  XorOf[<<x, y>>] = IF <<x, y>> = <<0, 0>> THEN 0
                                ELSE 2 * XorOf[<<x \div 2, y \div 2>>] + ((x + y) % 2)
  <2>1. <<x, y>> \in P
    OBVIOUS
  <2> HIDE DEF P
  <2> QED BY <1>10, <2>1
<1> DEFINE T == {n \in Nat : \A x, y \in Nat : x + y < n => XorOf[<<x, y>>] \in Nat}
<1>12. 0 \in T
  OBVIOUS
<1>13. ASSUME NEW n \in Nat, n \in T PROVE n + 1 \in T
  <2> SUFFICES ASSUME NEW x \in Nat, NEW y \in Nat, x + y < n + 1
               PROVE  XorOf[<<x, y>>] \in Nat
    OBVIOUS
  <2>1. CASE <<x, y>> = <<0, 0>>
    BY <1>11, <2>1
  <2>2. CASE <<x, y>> # <<0, 0>>
    <3>1. (x \div 2) + (y \div 2) < n /\ x \div 2 \in Nat /\ y \div 2 \in Nat
      BY <1>1, <2>2
    <3>2. XorOf[<<x \div 2, y \div 2>>] \in Nat
      BY <1>13, <3>1
    <3> QED BY <1>1, <1>11, <2>2, <3>2
  <2> QED BY <2>1, <2>2
<1>14. Nat \subseteq T
  <2> HIDE DEF T
  <2> QED BY <1>12, <1>13, Induction
<1>15. ASSUME NEW x \in Nat, NEW y \in Nat PROVE XorOf[<<x, y>>] \in Nat
  <2>1. (x + y) + 1 \in T /\ x + y < (x + y) + 1
    <3>1. (x + y) + 1 \in Nat /\ x + y < (x + y) + 1
      OBVIOUS
    <3> HIDE DEF T
    <3> QED BY <1>14, <3>1
  <2> QED BY <2>1
<1>16. XorOf \in [P -> Nat]
  <2>1. \A p \in P : p = <<p[1], p[2]>> /\ p[1] \in Nat /\ p[2] \in Nat
    OBVIOUS
  <2>2. \A p \in P : XorOf[p] \in Nat
    BY <1>15, <2>1
  <2>3. DOMAIN XorOf = P /\ XorOf = [p \in P |-> XorOf[p]]
    BY <1>10
  <2> QED BY <2>2, <2>3
<1>17. XorOf[<<0, 0>>] = 0
  BY <1>11
<1>18. ASSUME NEW x \in Nat, NEW y \in Nat
        PROVE  XorOf[<<x, y>>] = 2 * XorOf[<<x \div 2, y \div 2>>] + ((x + y) % 2)
  <2>1. CASE <<x, y>> = <<0, 0>>
    <3>1. x = 0 /\ y = 0 /\ x \div 2 = 0 /\ y \div 2 = 0 /\ (x + y) % 2 = 0
      BY <2>1
    <3> QED BY <1>17, <3>1
  <2>2. CASE <<x, y>> # <<0, 0>>
    BY <1>11, <2>2
  <2> QED BY <2>1, <2>2
<1> QED BY <1>16, <1>17, <1>18


LEMMA Halved ==
  ASSUME NEW x \in Nat
  PROVE  /\ x \div 2 \in Nat /\ x % 2 \in {0, 1} /\ x = 2 * (x \div 2) + (x % 2)
         /\ \A t \in Nat : x < 2 * t => x \div 2 < t
  OBVIOUS

LEMMA ParityBit ==
  ASSUME NEW x \in Nat, NEW y \in Nat
  PROVE  (x + y) % 2 = IF x % 2 = y % 2 THEN 0 ELSE 1
<1>1. PICK a \in Nat, b \in {0, 1} : x = 2 * a + b /\ x % 2 = b
  BY Halved
<1>2. PICK c \in Nat, d \in {0, 1} : y = 2 * c + d /\ y % 2 = d
  BY Halved
<1>3. x + y = 2 * (a + c) + (b + d)
  BY <1>1, <1>2
<1> QED BY <1>1, <1>2, <1>3

\* The last bit of the exclusive or, and the others.
LEMMA XorBits ==
  ASSUME NEW x \in Nat, NEW y \in Nat
  PROVE  /\ XorOf[<<x, y>>] \in Nat
         /\ XorOf[<<x, y>>] \div 2 = XorOf[<<x \div 2, y \div 2>>]
         /\ XorOf[<<x, y>>] % 2 = (x + y) % 2
         /\ XorOf[<<x, y>>] = 2 * XorOf[<<x \div 2, y \div 2>>] + ((x + y) % 2)
<1>1. PICK a \in Nat, b \in {0, 1} : a = XorOf[<<x \div 2, y \div 2>>] /\ b = (x + y) % 2
  <2>1. x \div 2 \in Nat /\ y \div 2 \in Nat /\ (x + y) % 2 \in {0, 1}
    OBVIOUS
  <2>2. XorOf[<<x \div 2, y \div 2>>] \in Nat
    BY <2>1, XorIs
  <2> QED BY <2>1, <2>2
<1>2. XorOf[<<x, y>>] = 2 * a + b
  BY <1>1, XorIs
<1>3. 2 * a + b \in Nat /\ (2 * a + b) \div 2 = a /\ (2 * a + b) % 2 = b
  BY <1>1
<1> QED BY <1>1, <1>2, <1>3

LEMMA XorBound ==
  ASSUME NEW n \in Nat, NEW x \in 0..Two[n] - 1, NEW y \in 0..Two[n] - 1
  PROVE  XorOf[<<x, y>>] \in 0..Two[n] - 1
<1> DEFINE T == {m \in Nat : \A u, v \in 0..Two[m] - 1 : XorOf[<<u, v>>] \in 0..Two[m] - 1}
<1>1. 0 \in T
  <2>1. ASSUME NEW u \in 0..Two[0] - 1, NEW v \in 0..Two[0] - 1
        PROVE  XorOf[<<u, v>>] \in 0..Two[0] - 1
    <3>1. u = 0 /\ v = 0 /\ Two[0] = 1
      BY TwoIs
    <3> QED BY <3>1, XorIs
  <2> QED BY <2>1
<1>2. ASSUME NEW m \in Nat, m \in T PROVE m + 1 \in T
  <2> SUFFICES ASSUME NEW u \in 0..Two[m + 1] - 1, NEW v \in 0..Two[m + 1] - 1
               PROVE  XorOf[<<u, v>>] \in 0..Two[m + 1] - 1
    OBVIOUS
  <2>1. Two[m] \in Nat /\ Two[m + 1] = 2 * Two[m]
    BY TwoIs
  <2>2. u \in Nat /\ v \in Nat /\ u < 2 * Two[m] /\ v < 2 * Two[m]
    BY <2>1
  <2>3. u \div 2 \in 0..Two[m] - 1 /\ v \div 2 \in 0..Two[m] - 1
    BY <2>1, <2>2, Halved
  <2>4. XorOf[<<u \div 2, v \div 2>>] \in 0..Two[m] - 1
    BY <1>2, <2>3
  <2>5. XorOf[<<u, v>>] = 2 * XorOf[<<u \div 2, v \div 2>>] + ((u + v) % 2)
    BY <2>2, XorBits
  <2>6. (u + v) % 2 \in {0, 1}
    BY <2>2
  <2> QED BY <2>1, <2>4, <2>5, <2>6
<1>3. n \in T
  <2> HIDE DEF T
  <2> QED BY <1>1, <1>2, Induction
<1> QED BY <1>3

LEMMA XorCommutes ==
  ASSUME NEW n \in Nat, NEW x \in 0..Two[n] - 1, NEW y \in 0..Two[n] - 1
  PROVE  XorOf[<<x, y>>] = XorOf[<<y, x>>]
<1> DEFINE T == {m \in Nat : \A u, v \in 0..Two[m] - 1 : XorOf[<<u, v>>] = XorOf[<<v, u>>]}
<1>1. 0 \in T
  <2>1. ASSUME NEW u \in 0..Two[0] - 1, NEW v \in 0..Two[0] - 1
        PROVE  XorOf[<<u, v>>] = XorOf[<<v, u>>]
    <3>1. u = 0 /\ v = 0
      BY TwoIs
    <3> QED BY <3>1
  <2> QED BY <2>1
<1>2. ASSUME NEW m \in Nat, m \in T PROVE m + 1 \in T
  <2> SUFFICES ASSUME NEW u \in 0..Two[m + 1] - 1, NEW v \in 0..Two[m + 1] - 1
               PROVE  XorOf[<<u, v>>] = XorOf[<<v, u>>]
    OBVIOUS
  <2>1. Two[m] \in Nat /\ Two[m + 1] = 2 * Two[m]
    BY TwoIs
  <2>2. u \in Nat /\ v \in Nat /\ u < 2 * Two[m] /\ v < 2 * Two[m]
    BY <2>1
  <2>3. u \div 2 \in 0..Two[m] - 1 /\ v \div 2 \in 0..Two[m] - 1
    BY <2>1, <2>2, Halved
  <2>4. XorOf[<<u \div 2, v \div 2>>] = XorOf[<<v \div 2, u \div 2>>]
    BY <1>2, <2>3
  <2>5. /\ XorOf[<<u, v>>] = 2 * XorOf[<<u \div 2, v \div 2>>] + ((u + v) % 2)
        /\ XorOf[<<v, u>>] = 2 * XorOf[<<v \div 2, u \div 2>>] + ((v + u) % 2)
    BY <2>2, XorBits
  <2>6. u + v = v + u
    BY <2>2
  <2> QED BY <2>4, <2>5, <2>6
<1>3. n \in T
  <2> HIDE DEF T
  <2> QED BY <1>1, <1>2, Induction
<1> QED BY <1>3

LEMMA XorAssociates ==
  ASSUME NEW n \in Nat, NEW x \in 0..Two[n] - 1, NEW y \in 0..Two[n] - 1,
         NEW z \in 0..Two[n] - 1
  PROVE  XorOf[<<XorOf[<<x, y>>], z>>] = XorOf[<<x, XorOf[<<y, z>>]>>]
<1> DEFINE T == {m \in Nat : \A u, v, w \in 0..Two[m] - 1 :
                   XorOf[<<XorOf[<<u, v>>], w>>] = XorOf[<<u, XorOf[<<v, w>>]>>]}
<1>1. 0 \in T
  <2>1. ASSUME NEW u \in 0..Two[0] - 1, NEW v \in 0..Two[0] - 1, NEW w \in 0..Two[0] - 1
        PROVE  XorOf[<<XorOf[<<u, v>>], w>>] = XorOf[<<u, XorOf[<<v, w>>]>>]
    <3>1. u = 0 /\ v = 0 /\ w = 0
      BY TwoIs
    <3> QED BY <3>1, XorIs
  <2> QED BY <2>1
<1>2. ASSUME NEW m \in Nat, m \in T PROVE m + 1 \in T
  <2> SUFFICES ASSUME NEW u \in 0..Two[m + 1] - 1, NEW v \in 0..Two[m + 1] - 1,
                      NEW w \in 0..Two[m + 1] - 1
               PROVE  XorOf[<<XorOf[<<u, v>>], w>>] = XorOf[<<u, XorOf[<<v, w>>]>>]
    OBVIOUS
  <2>1. Two[m] \in Nat /\ Two[m + 1] = 2 * Two[m]
    BY TwoIs
  <2>2. /\ u \in Nat /\ v \in Nat /\ w \in Nat
        /\ u < 2 * Two[m] /\ v < 2 * Two[m] /\ w < 2 * Two[m]
    BY <2>1
  <2>3. /\ u \div 2 \in 0..Two[m] - 1 /\ v \div 2 \in 0..Two[m] - 1
        /\ w \div 2 \in 0..Two[m] - 1
    BY <2>1, <2>2, Halved
  <2>4. XorOf[<<XorOf[<<u \div 2, v \div 2>>], w \div 2>>]
          = XorOf[<<u \div 2, XorOf[<<v \div 2, w \div 2>>]>>]
    BY <1>2, <2>3
  <2>5. PICK p \in Nat, q \in Nat : p = XorOf[<<u, v>>] /\ q = XorOf[<<v, w>>]
    BY <2>2, XorBits
  <2>6. /\ p \div 2 = XorOf[<<u \div 2, v \div 2>>] /\ p % 2 = (u + v) % 2
        /\ q \div 2 = XorOf[<<v \div 2, w \div 2>>] /\ q % 2 = (v + w) % 2
    BY <2>2, <2>5, XorBits
  <2>7. /\ XorOf[<<p, w>>] = 2 * XorOf[<<p \div 2, w \div 2>>] + ((p + w) % 2)
        /\ XorOf[<<u, q>>] = 2 * XorOf[<<u \div 2, q \div 2>>] + ((u + q) % 2)
    BY <2>2, <2>5, XorBits
  <2>8. XorOf[<<p \div 2, w \div 2>>] = XorOf[<<u \div 2, q \div 2>>]
    BY <2>4, <2>6
  <2>9. (p + w) % 2 = (u + q) % 2
    <3>1. p % 2 = (u + v) % 2 /\ q % 2 = (v + w) % 2
      BY <2>6
    <3>2. /\ (u + v) % 2 = IF u % 2 = v % 2 THEN 0 ELSE 1
          /\ (v + w) % 2 = IF v % 2 = w % 2 THEN 0 ELSE 1
          /\ (p + w) % 2 = IF p % 2 = w % 2 THEN 0 ELSE 1
          /\ (u + q) % 2 = IF u % 2 = q % 2 THEN 0 ELSE 1
      BY <2>2, <2>5, ParityBit
    <3>3. u % 2 \in {0, 1} /\ v % 2 \in {0, 1} /\ w % 2 \in {0, 1}
      BY <2>2
    <3> QED BY <3>1, <3>2, <3>3
  <2> QED BY <2>5, <2>7, <2>8, <2>9
<1>3. n \in T
  <2> HIDE DEF T
  <2> QED BY <1>1, <1>2, Induction
<1> QED BY <1>3

LEMMA XorCancels ==
  ASSUME NEW n \in Nat, NEW x \in 0..Two[n] - 1
  PROVE  XorOf[<<x, x>>] = 0 /\ XorOf[<<x, 0>>] = x
<1> DEFINE T == {m \in Nat : \A u \in 0..Two[m] - 1 :
                   XorOf[<<u, u>>] = 0 /\ XorOf[<<u, 0>>] = u}
<1>1. 0 \in T
  <2>1. ASSUME NEW u \in 0..Two[0] - 1 PROVE XorOf[<<u, u>>] = 0 /\ XorOf[<<u, 0>>] = u
    <3>1. u = 0
      BY TwoIs
    <3> QED BY <3>1, XorIs
  <2> QED BY <2>1
<1>2. ASSUME NEW m \in Nat, m \in T PROVE m + 1 \in T
  <2> SUFFICES ASSUME NEW u \in 0..Two[m + 1] - 1
               PROVE  XorOf[<<u, u>>] = 0 /\ XorOf[<<u, 0>>] = u
    OBVIOUS
  <2>1. Two[m] \in Nat /\ Two[m + 1] = 2 * Two[m]
    BY TwoIs
  <2>2. u \in Nat /\ u < 2 * Two[m]
    BY <2>1
  <2>3. u \div 2 \in 0..Two[m] - 1
    BY <2>1, <2>2, Halved
  <2>4. XorOf[<<u \div 2, u \div 2>>] = 0 /\ XorOf[<<u \div 2, 0>>] = u \div 2
    BY <1>2, <2>3
  <2>5. 0 \div 2 = 0 /\ (u + 0) % 2 = u % 2 /\ (u + u) % 2 = 0 /\ 0 \in Nat
    BY <2>2
  <2>6. /\ XorOf[<<u, u>>] = 2 * XorOf[<<u \div 2, u \div 2>>] + ((u + u) % 2)
        /\ XorOf[<<u, 0>>] = 2 * XorOf[<<u \div 2, 0 \div 2>>] + ((u + 0) % 2)
    BY <2>2, <2>5, XorBits
  <2>7. u = 2 * (u \div 2) + (u % 2)
    BY <2>2
  <2>8. XorOf[<<u, u>>] = 2 * 0 + 0
    BY <2>4, <2>5, <2>6
  <2>9. XorOf[<<u, 0>>] = 2 * (u \div 2) + (u % 2)
    BY <2>4, <2>5, <2>6
  <2> QED BY <2>7, <2>8, <2>9
<1>3. n \in T
  <2> HIDE DEF T
  <2> QED BY <1>1, <1>2, Induction
<1> QED BY <1>3

\* A bit above those of a number is added.
LEMMA XorTop ==
  ASSUME NEW n \in Nat, NEW x \in 0..Two[n] - 1
  PROVE  XorOf[<<Two[n], x>>] = Two[n] + x
<1> DEFINE T == {m \in Nat : \A u \in 0..Two[m] - 1 : XorOf[<<Two[m], u>>] = Two[m] + u}
<1>1. 0 \in T
  <2>1. ASSUME NEW u \in 0..Two[0] - 1 PROVE XorOf[<<Two[0], u>>] = Two[0] + u
    <3>1. u = 0 /\ Two[0] = 1 /\ 1 \div 2 = 0 /\ 0 \div 2 = 0 /\ (1 + 0) % 2 = 1
      BY TwoIs
    <3>2. XorOf[<<1, 0>>] = 2 * XorOf[<<1 \div 2, 0 \div 2>>] + ((1 + 0) % 2)
      BY XorBits
    <3> QED BY <3>1, <3>2, XorIs
  <2> QED BY <2>1
<1>2. ASSUME NEW m \in Nat, m \in T PROVE m + 1 \in T
  <2> SUFFICES ASSUME NEW u \in 0..Two[m + 1] - 1
               PROVE  XorOf[<<Two[m + 1], u>>] = Two[m + 1] + u
    OBVIOUS
  <2>1. Two[m] \in Nat /\ Two[m + 1] = 2 * Two[m]
    BY TwoIs
  <2>2. u \in Nat /\ u < 2 * Two[m]
    BY <2>1
  <2>3. u \div 2 \in 0..Two[m] - 1
    BY <2>1, <2>2, Halved
  <2>4. XorOf[<<Two[m], u \div 2>>] = Two[m] + (u \div 2)
    BY <1>2, <2>3
  <2>5. /\ (2 * Two[m]) \div 2 = Two[m] /\ (2 * Two[m] + u) % 2 = u % 2 /\ 2 * Two[m] \in Nat
        /\ u = 2 * (u \div 2) + (u % 2) /\ u \div 2 \in Nat /\ u % 2 \in Nat
    BY <2>1, <2>2
  <2>6. XorOf[<<2 * Two[m], u>>]
          = 2 * XorOf[<<(2 * Two[m]) \div 2, u \div 2>>] + ((2 * Two[m] + u) % 2)
    BY <2>2, <2>5, XorBits
  <2>7. XorOf[<<2 * Two[m], u>>] = 2 * (Two[m] + (u \div 2)) + (u % 2)
    BY <2>4, <2>5, <2>6
  <2> QED BY <2>1, <2>5, <2>7
<1>3. n \in T
  <2> HIDE DEF T
  <2> QED BY <1>1, <1>2, Induction
<1> QED BY <1>3

LEMMA XorDoubled ==
  ASSUME NEW x \in Nat, NEW y \in Nat
  PROVE  /\ XorOf[<<2 * x, 2 * y>>] = 2 * XorOf[<<x, y>>]
         /\ XorOf[<<x, y>>] % 2 = (x + y) % 2
<1>1. /\ 2 * x \in Nat /\ 2 * y \in Nat /\ (2 * x) \div 2 = x /\ (2 * y) \div 2 = y
      /\ (2 * x + 2 * y) % 2 = 0
  OBVIOUS
<1>2. XorOf[<<2 * x, 2 * y>>]
        = 2 * XorOf[<<(2 * x) \div 2, (2 * y) \div 2>>] + ((2 * x + 2 * y) % 2)
  BY <1>1, XorBits
<1>3. XorOf[<<x, y>>] \in Nat /\ XorOf[<<x, y>>] % 2 = (x + y) % 2
  BY XorBits
<1>4. XorOf[<<2 * x, 2 * y>>] = 2 * XorOf[<<x, y>>] + 0
  BY <1>1, <1>2
<1> QED BY <1>3, <1>4

-----------------------------------------------------------------------------
(* Addition in the field *)

LEMMA FieldSizes ==
  /\ HIGH \in Nat \ {0} /\ GF_SIZE \in Nat /\ GF_SIZE = 2 * HIGH - 1 /\ HIGH >= 2
  /\ gf = 0..2 * HIGH - 1 /\ Two[GF_BITS] = 2 * HIGH /\ 0 \in gf /\ 1 \in gf
  /\ GF_BITS \in Nat /\ GF_BITS - 1 \in Nat /\ GF_BITS >= 2
<1>1. GF_BITS \in Nat /\ GF_BITS - 1 \in Nat /\ GF_BITS - 2 \in Nat /\ GF_BITS >= 2
  BY FecAssumption
<1>2. Two[(GF_BITS - 1) + 1] = 2 * Two[GF_BITS - 1] /\ Two[(GF_BITS - 2) + 1] = 2 * Two[GF_BITS - 2]
  BY <1>1, TwoIs
<1>3. (GF_BITS - 1) + 1 = GF_BITS /\ (GF_BITS - 2) + 1 = GF_BITS - 1
  BY <1>1
<1>4. /\ Two[GF_BITS] = 2 * Two[GF_BITS - 1] /\ Two[GF_BITS - 1] = 2 * Two[GF_BITS - 2]
      /\ Two[GF_BITS - 2] \in Nat \ {0}
  BY <1>1, <1>2, <1>3, TwoIs
<1> QED BY <1>1, <1>4 DEF HIGH, GF_SIZE, gf

\* The exclusive or on the elements of the field.
LEMMA XorLaws ==
  ASSUME NEW x \in gf, NEW y \in gf
  PROVE  /\ Xor(x, y) \in gf /\ Xor(x, y) = XorOf[<<x, y>>]
         /\ Xor(x, y) = Xor(y, x)
         /\ Xor(x, x) = 0 /\ Xor(x, 0) = x /\ Xor(0, x) = x
<1>1. gf = 0..Two[GF_BITS] - 1 /\ GF_BITS \in Nat /\ 0 \in gf
  BY FieldSizes
<1>2. \A u, v \in gf : Xor(u, v) = XorOf[<<u, v>>]
  BY DEF Xor, XorTable
<1>3. XorOf[<<x, y>>] \in gf /\ XorOf[<<x, y>>] = XorOf[<<y, x>>]
  BY <1>1, XorBound, XorCommutes
<1>4. XorOf[<<x, x>>] = 0 /\ XorOf[<<x, 0>>] = x /\ XorOf[<<0, x>>] = x
  BY <1>1, XorCommutes, XorCancels
<1> QED BY <1>1, <1>2, <1>3, <1>4

LEMMA XorAssoc ==
  ASSUME NEW x \in gf, NEW y \in gf, NEW z \in gf
  PROVE  Xor(Xor(x, y), z) = Xor(x, Xor(y, z))
<1>1. gf = 0..Two[GF_BITS] - 1 /\ GF_BITS \in Nat
  BY FieldSizes
<1>2. Xor(x, y) = XorOf[<<x, y>>] /\ Xor(y, z) = XorOf[<<y, z>>]
  BY XorLaws
<1>3. XorOf[<<x, y>>] \in gf /\ XorOf[<<y, z>>] \in gf
  BY <1>1, XorBound
<1>4. /\ Xor(XorOf[<<x, y>>], z) = XorOf[<<XorOf[<<x, y>>], z>>]
      /\ Xor(x, XorOf[<<y, z>>]) = XorOf[<<x, XorOf[<<y, z>>]>>]
  BY <1>3, XorLaws
<1> QED BY <1>1, <1>2, <1>4, XorAssociates

\* Sums of three and four, in another order.
LEMMA XorSwap ==
  ASSUME NEW x \in gf, NEW y \in gf, NEW z \in gf
  PROVE  /\ Xor(x, Xor(y, z)) = Xor(y, Xor(x, z))
         /\ Xor(Xor(x, y), y) = x /\ Xor(x, Xor(x, y)) = y
         /\ Xor(x, y) = 0 => x = y
         /\ Xor(x, y) = z => x = Xor(z, y)
<1>1. Xor(Xor(x, y), z) = Xor(x, Xor(y, z)) /\ Xor(Xor(y, x), z) = Xor(y, Xor(x, z))
  BY XorAssoc
<1>2. Xor(x, y) = Xor(y, x)
  BY XorLaws
<1>3. Xor(Xor(x, y), y) = Xor(x, Xor(y, y)) /\ Xor(Xor(x, x), y) = Xor(x, Xor(x, y))
  BY XorAssoc
<1>4. Xor(y, y) = 0 /\ Xor(x, x) = 0 /\ Xor(x, 0) = x /\ Xor(0, y) = y
  BY XorLaws
<1>5. Xor(Xor(x, y), y) = x /\ Xor(x, Xor(x, y)) = y
  BY <1>3, <1>4
<1>6. Xor(x, y) = 0 => x = y
  BY <1>4, <1>5
<1>7. Xor(x, y) = z => x = Xor(z, y)
  BY <1>5
<1> QED BY <1>1, <1>2, <1>5, <1>6, <1>7

LEMMA XorPairs ==
  ASSUME NEW x \in gf, NEW y \in gf, NEW z \in gf, NEW w \in gf
  PROVE  Xor(Xor(x, y), Xor(z, w)) = Xor(Xor(x, z), Xor(y, w))
<1>1. Xor(z, w) \in gf /\ Xor(y, w) \in gf
  BY XorLaws
<1>2. Xor(Xor(x, y), Xor(z, w)) = Xor(x, Xor(y, Xor(z, w)))
  BY <1>1, XorAssoc
<1>3. Xor(y, Xor(z, w)) = Xor(z, Xor(y, w))
  BY XorSwap
<1>4. Xor(Xor(x, z), Xor(y, w)) = Xor(x, Xor(z, Xor(y, w)))
  BY <1>1, XorAssoc
<1> QED BY <1>2, <1>3, <1>4

\* The highest bit.
LEMMA XorHigh ==
  /\ \A x \in 0..HIGH - 1 : Xor(HIGH, x) = HIGH + x /\ x \in gf
  /\ \A x \in gf : x >= HIGH => Xor(x, HIGH) = x - HIGH /\ x - HIGH \in 0..HIGH - 1
  /\ \A x, y \in 0..HIGH - 1 : Xor(x, y) \in 0..HIGH - 1
  /\ HIGH \in gf
<1>1. HIGH \in gf /\ gf = 0..2 * HIGH - 1 /\ HIGH \in Nat
  BY FieldSizes
<1>2. ASSUME NEW x \in 0..HIGH - 1 PROVE Xor(HIGH, x) = HIGH + x /\ x \in gf
  <2>1. x \in gf /\ GF_BITS - 1 \in Nat
    BY <1>1, FieldSizes
  <2>2. x \in 0..Two[GF_BITS - 1] - 1
    BY <1>1 DEF HIGH
  <2>3. XorOf[<<Two[GF_BITS - 1], x>>] = Two[GF_BITS - 1] + x
    BY <2>1, <2>2, XorTop
  <2>4. Xor(HIGH, x) = XorOf[<<HIGH, x>>]
    BY <1>1, <2>1, XorLaws
  <2> QED BY <2>1, <2>3, <2>4 DEF HIGH
<1>3. ASSUME NEW x \in gf, x >= HIGH
      PROVE  Xor(x, HIGH) = x - HIGH /\ x - HIGH \in 0..HIGH - 1
  <2>1. x - HIGH \in 0..HIGH - 1 /\ HIGH + (x - HIGH) = x
    BY <1>1, <1>3
  <2>2. Xor(HIGH, x - HIGH) = x /\ x - HIGH \in gf
    BY <1>2, <2>1
  <2>3. Xor(HIGH, Xor(HIGH, x - HIGH)) = x - HIGH
    BY <1>1, <2>2, XorSwap
  <2>4. Xor(HIGH, x) = x - HIGH
    BY <2>2, <2>3
  <2> QED BY <1>1, <2>1, <2>4, XorLaws
<1>4. ASSUME NEW x \in 0..HIGH - 1, NEW y \in 0..HIGH - 1 PROVE Xor(x, y) \in 0..HIGH - 1
  <2>1. XorOf[<<x, y>>] \in 0..HIGH - 1
    BY XorBound, FieldSizes DEF HIGH
  <2>2. x \in gf /\ y \in gf
    BY <1>2
  <2>3. Xor(x, y) = XorOf[<<x, y>>]
    BY <2>2, XorLaws
  <2> QED BY <2>1, <2>3
<1> QED BY <1>1, <1>2, <1>3, <1>4

-----------------------------------------------------------------------------
(* Multiplication by alpha *)

\* Every polynomial of the table has the coefficient 1 for the power 0, and
\* only coefficients that are bits.
LEMMA Polynomials ==
  /\ allPp[GF_BITS][1] = 1
  /\ \A i \in 1..GF_BITS : allPp[GF_BITS][i] \in {0, 1}
<1>1. GF_BITS \in 2..8
  BY FecAssumption
<1>2. CASE GF_BITS = 2
  <2>1. allPp[GF_BITS] = <<1,1,1>>
    BY <1>2 DEF allPp
  <2> QED BY <1>2, <2>1
<1>3. CASE GF_BITS = 3
  <2>1. allPp[GF_BITS] = <<1,1,0,1>>
    BY <1>3 DEF allPp
  <2> QED BY <1>3, <2>1
<1>4. CASE GF_BITS = 4
  <2>1. allPp[GF_BITS] = <<1,1,0,0,1>>
    BY <1>4 DEF allPp
  <2> QED BY <1>4, <2>1
<1>5. CASE GF_BITS = 5
  <2>1. allPp[GF_BITS] = <<1,0,1,0,0,1>>
    BY <1>5 DEF allPp
  <2> QED BY <1>5, <2>1
<1>6. CASE GF_BITS = 6
  <2>1. allPp[GF_BITS] = <<1,1,0,0,0,0,1>>
    BY <1>6 DEF allPp
  <2> QED BY <1>6, <2>1
<1>7. CASE GF_BITS = 7
  <2>1. allPp[GF_BITS] = <<1,0,0,1,0,0,0,1>>
    BY <1>7 DEF allPp
  <2> QED BY <1>7, <2>1
<1>8. CASE GF_BITS = 8
  <2>1. allPp[GF_BITS] = <<1,0,1,1,1,0,0,0,1>>
    BY <1>8 DEF allPp
  <2> QED BY <1>8, <2>1
<1> QED BY <1>1, <1>2, <1>3, <1>4, <1>5, <1>6, <1>7, <1>8

\* The sum of the powers of the polynomial, power by power.
LEMMA LowSums ==
  /\ LowPowers[0] = 0
  /\ \A i \in Nat : i + 1 \in 1..GF_BITS =>
       LowPowers[i + 1] = LowPowers[i] + allPp[GF_BITS][i + 1] * Two[i]
<1> DEFINE c == allPp[GF_BITS]
           h == [p \in Nat \X Nat |-> IF p[2] \in 1..GF_BITS THEN p[1] + c[p[2]] * Two[p[2] - 1]
                                      ELSE p[1]]
<1>1. GF_BITS \in Nat /\ GF_BITS >= 2
  BY FieldSizes
<1>2. \A i \in 1..GF_BITS : c[i] \in {0, 1} /\ i - 1 \in Nat /\ Two[i - 1] \in Nat
  BY <1>1, TwoIs, Polynomials
<1> HIDE DEF c
<1>3. ASSUME NEW v \in Nat, NEW i \in 1..GF_BITS PROVE v + c[i] * Two[i - 1] \in Nat
  BY <1>2
<1>4. h \in [Nat \X Nat -> Nat]
  <2> SUFFICES ASSUME NEW p \in Nat \X Nat
               PROVE  (IF p[2] \in 1..GF_BITS THEN p[1] + c[p[2]] * Two[p[2] - 1]
                       ELSE p[1]) \in Nat
    OBVIOUS
  <2>1. p[1] \in Nat
    OBVIOUS
  <2> QED BY <1>3, <2>1
<1>5. \A v \in Nat, i \in 1..GF_BITS : h[<<v, i>>] = v + c[i] * Two[i - 1]
  BY <1>1
<1> HIDE DEF h
<1>6. 0 \in Nat
  OBVIOUS
<1>7. PICK F \in [Nat -> Nat] : Counts(F, 0, h)
  BY <1>4, <1>6, CountedRecursion
<1> DEFINE G == [i \in 0..GF_BITS |-> F[i]]
<1>8. ASSUME NEW i \in 0..GF_BITS
      PROVE  G[i] = IF i = 0 THEN 0 ELSE G[i - 1] + c[i] * Two[i - 1]
  <2>1. F[i] = IF i = 0 THEN 0 ELSE h[<<F[i - 1], i>>]
    BY <1>1, <1>7 DEF Counts
  <2>2. CASE i = 0
    BY <2>1, <2>2
  <2>3. CASE i # 0
    <3>1. i - 1 \in Nat /\ F[i - 1] \in Nat /\ i \in 1..GF_BITS /\ i - 1 \in 0..GF_BITS
      BY <1>1, <1>7, <2>3
    <3>2. G[i - 1] = F[i - 1] /\ G[i] = F[i]
      BY <3>1
    <3> QED BY <1>5, <2>1, <2>3, <3>1, <3>2
  <2> QED BY <2>2, <2>3
<1>9. G = [i \in 0..GF_BITS |-> IF i = 0 THEN 0 ELSE G[i - 1] + c[i] * Two[i - 1]]
  BY <1>8
<1>10. LowPowers = [i \in 0..GF_BITS |->
                      IF i = 0 THEN 0 ELSE LowPowers[i - 1] + allPp[GF_BITS][i] * Two[i - 1]]
  <2> HIDE DEF G
  <2> QED BY <1>9 DEF LowPowers, c
<1>11. LowPowers[0] = 0
  BY <1>1, <1>10
<1>12. \A i \in Nat : i + 1 \in 1..GF_BITS =>
         LowPowers[i + 1] = LowPowers[i] + c[i + 1] * Two[i]
  <2> SUFFICES ASSUME NEW i \in Nat, i + 1 \in 1..GF_BITS
               PROVE  LowPowers[i + 1] = LowPowers[i] + c[i + 1] * Two[i]
    OBVIOUS
  <2>1. i + 1 \in 0..GF_BITS /\ i + 1 # 0 /\ (i + 1) - 1 = i
    BY <1>1
  <2>2. LowPowers[i + 1] = LowPowers[(i + 1) - 1] + c[i + 1] * Two[(i + 1) - 1]
    BY <1>10, <2>1 DEF c
  <2> QED BY <2>1, <2>2
<1> QED BY <1>11, <1>12 DEF c

\* alpha^GF_BITS is an odd element of the field.
LEMMA LowIs == LowPowers[GF_BITS] \in gf /\ LowPowers[GF_BITS] % 2 = 1
<1> DEFINE c == allPp[GF_BITS]
<1>1. GF_BITS \in Nat /\ GF_BITS >= 2
  BY FieldSizes
<1>2. \A i \in 1..GF_BITS : c[i] \in {0, 1}
  BY Polynomials
<1>3. /\ LowPowers[0] = 0
      /\ \A i \in Nat : i + 1 \in 1..GF_BITS =>
           LowPowers[i + 1] = LowPowers[i] + c[i + 1] * Two[i]
  BY LowSums
<1> HIDE DEF c
<1> DEFINE T == {i \in Nat : i <= GF_BITS => /\ LowPowers[i] \in 0..Two[i] - 1
                                             /\ i > 0 => LowPowers[i] % 2 = 1}
<1>4. 0 \in T
  BY <1>3, TwoIs
<1>5. ASSUME NEW i \in Nat, i \in T PROVE i + 1 \in T
  <2> SUFFICES ASSUME i + 1 <= GF_BITS
               PROVE  LowPowers[i + 1] \in 0..Two[i + 1] - 1 /\ LowPowers[i + 1] % 2 = 1
    OBVIOUS
  <2>1. /\ i + 1 \in 1..GF_BITS /\ Two[i] \in Nat /\ Two[i + 1] = 2 * Two[i]
        /\ LowPowers[i] \in 0..Two[i] - 1 /\ c[i + 1] \in {0, 1}
        /\ LowPowers[i + 1] = LowPowers[i] + c[i + 1] * Two[i]
    BY <1>1, <1>2, <1>3, <1>5, TwoIs
  <2>2. LowPowers[i + 1] \in 0..Two[i + 1] - 1
    BY <2>1
  <2>3. CASE i = 0
    <3>1. c[1] = 1 /\ Two[0] = 1
      BY Polynomials, TwoIs DEF c
    <3>2. LowPowers[1] = 0 + 1 * 1
      BY <1>3, <2>1, <2>3, <3>1
    <3> QED BY <2>2, <2>3, <3>2
  <2>4. CASE i > 0
    <3>1. LowPowers[i] % 2 = 1
      BY <1>1, <1>5, <2>1, <2>4
    <3>2. PICK t \in Nat : Two[i] = 2 * t
      <4>1. i - 1 \in Nat /\ (i - 1) + 1 = i
        BY <2>4
      <4> QED BY <4>1, TwoIs
    <3>3. c[i + 1] * Two[i] \in {0, 2 * t}
      BY <2>1, <3>2
    <3> QED BY <2>1, <2>2, <3>1, <3>3
  <2> QED BY <2>3, <2>4
<1>6. GF_BITS \in T
  <2> HIDE DEF T
  <2> QED BY <1>1, <1>4, <1>5, Induction
<1>7. LowPowers[GF_BITS] \in 0..Two[GF_BITS] - 1 /\ LowPowers[GF_BITS] % 2 = 1
  BY <1>1, <1>6
<1> QED BY <1>7, FieldSizes

\* It is linear and loses nothing.
LEMMA TimesXIn ==
  ASSUME NEW x \in gf
  PROVE  /\ TimesX(x) \in gf
         /\ x < HIGH => TimesX(x) = 2 * x
         /\ x >= HIGH => /\ 2 * (x - HIGH) \in gf
                         /\ TimesX(x) = Xor(LowPowers[GF_BITS], 2 * (x - HIGH))
<1>1. HIGH \in Nat /\ gf = 0..2 * HIGH - 1
  BY FieldSizes
<1>2. x < HIGH => TimesX(x) = 2 * x /\ 2 * x \in gf
  BY <1>1 DEF TimesX
<1>3. ASSUME x >= HIGH PROVE /\ 2 * (x - HIGH) \in gf
                             /\ TimesX(x) = Xor(LowPowers[GF_BITS], 2 * (x - HIGH))
  <2>1. Xor(x, HIGH) = x - HIGH /\ x - HIGH \in 0..HIGH - 1
    BY <1>3, XorHigh
  <2>2. 2 * (x - HIGH) \in gf /\ (x - HIGH) * 2 = 2 * (x - HIGH)
    BY <1>1, <2>1
  <2> QED BY <1>1, <1>3, <2>1, <2>2 DEF TimesX
<1>4. x >= HIGH => Xor(LowPowers[GF_BITS], 2 * (x - HIGH)) \in gf
  BY <1>3, LowIs, XorLaws
<1> QED BY <1>1, <1>2, <1>3, <1>4

LEMMA TimesXLinear ==
  ASSUME NEW x \in gf, NEW y \in gf
  PROVE  TimesX(Xor(x, y)) = Xor(TimesX(x), TimesX(y))
<1> DEFINE L == LowPowers[GF_BITS]
<1>1. HIGH \in Nat /\ gf = 0..2 * HIGH - 1 /\ L \in gf /\ HIGH \in gf
  BY FieldSizes, LowIs, XorHigh
<1> HIDE DEF L
<1>2. ASSUME NEW a \in 0..HIGH - 1, NEW b \in 0..HIGH - 1
      PROVE  /\ a \in gf /\ b \in gf /\ 2 * a \in gf /\ 2 * b \in gf
             /\ TimesX(a) = 2 * a /\ Xor(a, b) \in 0..HIGH - 1
             /\ Xor(2 * a, 2 * b) = 2 * Xor(a, b) /\ TimesX(Xor(a, b)) = Xor(2 * a, 2 * b)
             /\ TimesX(HIGH + a) = Xor(L, 2 * a) /\ HIGH + a \in gf
             /\ Xor(HIGH + a, b) = HIGH + Xor(a, b)
             /\ Xor(HIGH + a, HIGH + b) = Xor(a, b)
  <2>1. a \in gf /\ b \in gf /\ 2 * a \in gf /\ 2 * b \in gf /\ a < HIGH /\ HIGH + a \in gf
        /\ HIGH + b \in gf /\ HIGH + a >= HIGH /\ (HIGH + a) - HIGH = a
    BY <1>1
  <2>2. Xor(a, b) \in 0..HIGH - 1 /\ Xor(HIGH, a) = HIGH + a /\ Xor(HIGH, b) = HIGH + b
    BY XorHigh
  <2>3. Xor(2 * a, 2 * b) = 2 * Xor(a, b)
    <3>1. /\ Xor(2 * a, 2 * b) = XorOf[<<2 * a, 2 * b>>] /\ Xor(a, b) = XorOf[<<a, b>>]
      BY <2>1, XorLaws
    <3>2. XorOf[<<2 * a, 2 * b>>] = 2 * XorOf[<<a, b>>]
      BY XorDoubled
    <3> QED BY <3>1, <3>2
  <2>4. Xor(a, b) \in gf /\ Xor(a, b) < HIGH
    BY <1>1, <2>1, <2>2, XorLaws
  <2>5. TimesX(a) = 2 * a /\ TimesX(Xor(a, b)) = 2 * Xor(a, b)
    BY <2>1, <2>4, TimesXIn
  <2>6. TimesX(HIGH + a) = Xor(L, 2 * a)
    BY <2>1, TimesXIn DEF L
  <2>7. Xor(Xor(HIGH, a), b) = Xor(HIGH, Xor(a, b))
    BY <1>1, <2>1, XorAssoc
  <2>8. Xor(HIGH, Xor(a, b)) = HIGH + Xor(a, b)
    BY <2>2, XorHigh
  <2>9. Xor(Xor(HIGH, a), Xor(HIGH, b)) = Xor(Xor(HIGH, HIGH), Xor(a, b))
    BY <1>1, <2>1, XorPairs
  <2>10. Xor(HIGH, HIGH) = 0 /\ Xor(0, Xor(a, b)) = Xor(a, b)
    BY <1>1, <2>4, XorLaws
  <2> QED BY <2>1, <2>2, <2>3, <2>5, <2>6, <2>7, <2>8, <2>9, <2>10
<1>3. ASSUME NEW u \in gf PROVE u \in 0..HIGH - 1 \/ \E a \in 0..HIGH - 1 : u = HIGH + a
  <2>1. u >= HIGH => u - HIGH \in 0..HIGH - 1 /\ u = HIGH + (u - HIGH)
    BY <1>1
  <2> QED BY <1>1, <2>1
<1>4. CASE x \in 0..HIGH - 1 /\ y \in 0..HIGH - 1
  <2>1. TimesX(x) = 2 * x /\ TimesX(y) = 2 * y /\ TimesX(Xor(x, y)) = Xor(2 * x, 2 * y)
    BY <1>2, <1>4
  <2> QED BY <2>1
<1>5. ASSUME NEW a \in 0..HIGH - 1, NEW b \in 0..HIGH - 1
      PROVE  TimesX(Xor(HIGH + a, b)) = Xor(TimesX(HIGH + a), TimesX(b))
  <2>1. Xor(HIGH + a, b) = HIGH + Xor(a, b) /\ Xor(a, b) \in 0..HIGH - 1
    BY <1>2
  <2>2. TimesX(HIGH + Xor(a, b)) = Xor(L, 2 * Xor(a, b)) /\ TimesX(HIGH + a) = Xor(L, 2 * a)
        /\ TimesX(b) = 2 * b /\ 2 * a \in gf /\ 2 * b \in gf /\ 2 * Xor(a, b) = Xor(2 * a, 2 * b)
    BY <1>2, <2>1
  <2>3. Xor(Xor(L, 2 * a), 2 * b) = Xor(L, Xor(2 * a, 2 * b))
    BY <1>1, <2>2, XorAssoc
  <2> QED BY <2>1, <2>2, <2>3
<1>6. ASSUME NEW a \in 0..HIGH - 1, NEW b \in 0..HIGH - 1
      PROVE  TimesX(Xor(HIGH + a, HIGH + b)) = Xor(TimesX(HIGH + a), TimesX(HIGH + b))
  <2>1. /\ TimesX(Xor(HIGH + a, HIGH + b)) = Xor(2 * a, 2 * b)
        /\ TimesX(HIGH + a) = Xor(L, 2 * a) /\ TimesX(HIGH + b) = Xor(L, 2 * b)
        /\ 2 * a \in gf /\ 2 * b \in gf
    BY <1>2
  <2>2. Xor(Xor(L, 2 * a), Xor(L, 2 * b)) = Xor(Xor(L, L), Xor(2 * a, 2 * b))
    BY <1>1, <2>1, XorPairs
  <2>3. Xor(L, L) = 0 /\ Xor(0, Xor(2 * a, 2 * b)) = Xor(2 * a, 2 * b)
    BY <1>1, <2>1, XorLaws
  <2> QED BY <2>1, <2>2, <2>3
<1>7. TimesX(x) \in gf /\ TimesX(y) \in gf
  BY TimesXIn
<1>8. ASSUME NEW a \in 0..HIGH - 1, NEW b \in 0..HIGH - 1
      PROVE  TimesX(Xor(a, HIGH + b)) = Xor(TimesX(a), TimesX(HIGH + b))
  <2>1. a \in gf /\ HIGH + b \in gf
    BY <1>2
  <2>2. Xor(a, HIGH + b) = Xor(HIGH + b, a) /\ TimesX(a) \in gf /\ TimesX(HIGH + b) \in gf
    BY <2>1, XorLaws, TimesXIn
  <2>3. Xor(TimesX(a), TimesX(HIGH + b)) = Xor(TimesX(HIGH + b), TimesX(a))
    BY <2>2, XorLaws
  <2> QED BY <1>5, <2>2, <2>3
<1> QED BY <1>3, <1>4, <1>5, <1>6, <1>8

LEMMA TimesXInjective ==
  ASSUME NEW x \in gf, NEW y \in gf, TimesX(x) = TimesX(y)
  PROVE  x = y
<1>1. HIGH \in Nat /\ gf = 0..2 * HIGH - 1 /\ LowPowers[GF_BITS] \in gf
      /\ LowPowers[GF_BITS] % 2 = 1 /\ 0 \in gf
  BY FieldSizes, LowIs
<1>2. ASSUME NEW u \in gf, TimesX(u) = 0 PROVE u = 0
  <2>1. CASE u < HIGH
    BY <1>1, <1>2, <2>1, TimesXIn
  <2>2. CASE u >= HIGH
    <3>1. 2 * (u - HIGH) \in gf /\ Xor(LowPowers[GF_BITS], 2 * (u - HIGH)) = 0
      BY <1>2, <2>2, TimesXIn
    <3>2. LowPowers[GF_BITS] = 2 * (u - HIGH)
      BY <1>1, <3>1, XorSwap
    <3>3. (2 * (u - HIGH)) % 2 = 0
      BY <1>1
    <3> QED BY <1>1, <3>2, <3>3
  <2> QED BY <1>1, <2>1, <2>2
<1>3. TimesX(Xor(x, y)) = Xor(TimesX(x), TimesX(y)) /\ TimesX(x) \in gf
  BY TimesXLinear, TimesXIn
<1>4. Xor(TimesX(x), TimesX(y)) = 0 /\ Xor(x, y) \in gf
  BY <1>3, XorLaws
<1>5. Xor(x, y) = 0
  BY <1>2, <1>3, <1>4
<1> QED BY <1>1, <1>5, XorSwap

LEMMA TwoGrows ==
  ASSUME NEW m \in Nat, NEW n \in Nat, m <= n
  PROVE  Two[m] <= Two[n]
<1> DEFINE T == {d \in Nat : Two[m] <= Two[m + d]}
<1>1. 0 \in T
  BY TwoIs
<1>2. ASSUME NEW d \in Nat, d \in T PROVE d + 1 \in T
  <2>1. m + d \in Nat /\ m + (d + 1) = (m + d) + 1
    OBVIOUS
  <2>2. Two[m + d] \in Nat /\ Two[(m + d) + 1] = 2 * Two[m + d] /\ Two[m] \in Nat
    BY <2>1, TwoIs
  <2> QED BY <1>2, <2>1, <2>2
<1>3. Nat \subseteq T
  <2> HIDE DEF T
  <2> QED BY <1>1, <1>2, Induction
<1>4. n - m \in T /\ m + (n - m) = n
  <2>1. n - m \in Nat /\ m + (n - m) = n
    OBVIOUS
  <2> HIDE DEF T
  <2> QED BY <1>3, <2>1
<1> QED BY <1>4

-----------------------------------------------------------------------------
(* The powers of alpha *)

LEMMA PowerIs ==
  /\ \A i \in Nat : Power[i] \in gf
  /\ Power[0] = 1
  /\ \A i \in Nat : Power[i + 1] = TimesX(Power[i])
<1> DEFINE L == LowPowers[GF_BITS]
           base == [i \in Nat |-> IF i < GF_BITS THEN Two[i] ELSE L]
           next == [i \in Nat |-> IF i = 0 THEN 0 ELSE i - 1]
           h == [p \in gf \X Nat |-> TimesX(p[1])]
           measure == [i \in Nat |-> i]
           Step(f, i) == IF i < GF_BITS THEN Two[i] ELSE IF i = GF_BITS THEN L
                         ELSE TimesX(f[i - 1])
<1>1. /\ GF_BITS \in Nat /\ GF_BITS >= 2 /\ GF_BITS - 1 \in Nat /\ L \in gf
      /\ gf = 0..2 * HIGH - 1 /\ HIGH \in Nat \ {0} /\ Two[GF_BITS - 1] = HIGH
      /\ Two[GF_BITS] = 2 * HIGH
  BY FieldSizes, LowIs DEF HIGH
<1> HIDE DEF L
<1>2. ASSUME NEW i \in Nat, i < GF_BITS PROVE Two[i] \in gf
  <2>1. i <= GF_BITS - 1
    BY <1>1, <1>2
  <2>2. Two[i] <= HIGH /\ Two[i] \in Nat
    BY <1>1, <2>1, TwoGrows, TwoIs
  <2> QED BY <1>1, <2>2
<1>3. /\ base \in [Nat -> gf] /\ next \in [Nat -> Nat] /\ measure \in [Nat -> Nat]
      /\ \A i \in Nat \ (0..GF_BITS) : measure[next[i]] < measure[i]
  BY <1>1, <1>2
<1>4. h \in [gf \X Nat -> gf]
  <2> SUFFICES ASSUME NEW p \in gf \X Nat PROVE TimesX(p[1]) \in gf
    OBVIOUS
  <2> QED BY TimesXIn
<1>5. /\ \A i \in 0..GF_BITS : base[i] = IF i < GF_BITS THEN Two[i] ELSE L
      /\ \A i \in Nat \ (0..GF_BITS) : next[i] = i - 1
      /\ \A v \in gf, i \in Nat : h[<<v, i>>] = TimesX(v)
  BY <1>1
<1> HIDE DEF base, next, h, measure
<1>6. PICK F \in [Nat -> gf] : Calls(F, Nat, base, next, h, 0..GF_BITS)
  BY <1>3, <1>4, RecursionExists
<1>7. ASSUME NEW f, NEW i \in Nat
       PROVE  /\ i < GF_BITS => Step(f, i) = Two[i]
              /\ i = GF_BITS => Step(f, i) = L
              /\ i > GF_BITS => Step(f, i) = TimesX(f[i - 1])
  <2>1. i < GF_BITS \/ i = GF_BITS \/ i > GF_BITS
    BY <1>1
  <2>2. (i < GF_BITS => ~(i > GF_BITS) /\ i # GF_BITS) /\ (i = GF_BITS => ~(i < GF_BITS))
        /\ (i > GF_BITS => ~(i < GF_BITS) /\ i # GF_BITS)
    <3>1. GF_BITS \in Nat /\ i \in Nat
      BY <1>1
    <3> QED BY <3>1
  <2>3. i < GF_BITS => Step(f, i) = Two[i]
    BY <2>2
  <2>4. i = GF_BITS => Step(f, i) = L
    BY <2>2
  <2>5. i > GF_BITS => Step(f, i) = TimesX(f[i - 1])
    BY <2>2
  <2> QED BY <2>3, <2>4, <2>5
<1> HIDE DEF Step
<1>8. ASSUME NEW i \in Nat PROVE F[i] = Step(F, i)
  <2>1. F[i] = IF i \in 0..GF_BITS THEN base[i] ELSE h[<<F[next[i]], i>>]
    BY <1>6 DEF Calls
  <2>2. CASE i \in 0..GF_BITS
    <3>1. F[i] = IF i < GF_BITS THEN Two[i] ELSE L
      BY <1>5, <2>1, <2>2
    <3>2. i < GF_BITS \/ (i = GF_BITS /\ ~(i < GF_BITS))
      BY <1>1, <2>2
    <3> QED BY <1>7, <3>1, <3>2
  <2>3. CASE i \notin 0..GF_BITS
    <3>1. i \in Nat \ (0..GF_BITS) /\ i > GF_BITS /\ i - 1 \in Nat
      BY <1>1, <2>3
    <3>2. next[i] = i - 1 /\ F[i - 1] \in gf
      BY <1>5, <1>6, <3>1
    <3>3. F[i] = TimesX(F[i - 1])
      BY <1>5, <2>1, <2>3, <3>2
    <3> QED BY <1>7, <3>1, <3>2, <3>3
  <2> QED BY <2>2, <2>3
<1>9. F = [i \in Nat |-> Step(F, i)]
  BY <1>6, <1>8
<1>10. Power = [i \in Nat |-> Step(Power, i)]
  BY <1>9 DEF Power, L, Step
<1>11. /\ \A i \in Nat : i < GF_BITS => Power[i] = Two[i]
       /\ Power[GF_BITS] = L
       /\ \A i \in Nat : ~(i + 1 <= GF_BITS) => Power[i + 1] = TimesX(Power[i])
  <2>1. \A i \in Nat : Power[i] = Step(Power, i)
    BY <1>10
  <2>2. \A i \in Nat : ~(i + 1 <= GF_BITS) => i + 1 \in Nat /\ i + 1 > GF_BITS /\ (i + 1) - 1 = i
    BY <1>1
  <2>3. \A i \in Nat : ~(i + 1 <= GF_BITS) => Step(Power, i + 1) = TimesX(Power[i])
    BY <1>7, <2>2
  <2> QED BY <1>1, <1>7, <2>1, <2>2, <2>3
<1> DEFINE T == {i \in Nat : Power[i] \in gf}
<1>12. 0 \in T
  <2>1. 0 < GF_BITS /\ 0 \in Nat
    BY <1>1
  <2> QED BY <1>2, <1>11, <2>1
<1>13. ASSUME NEW i \in Nat, i \in T PROVE i + 1 \in T
  <2>1. i + 1 \in Nat /\ (i + 1 <= GF_BITS => i + 1 < GF_BITS \/ i + 1 = GF_BITS)
    BY <1>1
  <2>2. Power[i + 1] \in gf
    BY <1>1, <1>2, <1>11, <1>13, <2>1, TimesXIn
  <2> QED BY <2>1, <2>2
<1>14. Nat \subseteq T
  <2> HIDE DEF T
  <2> QED BY <1>12, <1>13, Induction
<1>15. \A i \in Nat : Power[i] \in gf
  BY <1>14
<1>16. Power[0] = 1
  <2>1. 0 < GF_BITS /\ 0 \in Nat
    BY <1>1
  <2> QED BY <1>11, <2>1, TwoIs
<1>17. ASSUME NEW i \in Nat PROVE Power[i + 1] = TimesX(Power[i])
  <2>1. CASE i + 1 < GF_BITS
    <3>1. i < GF_BITS /\ i + 1 \in Nat /\ i + 1 <= GF_BITS - 1
      BY <1>1, <2>1
    <3>2. Power[i] = Two[i] /\ Power[i + 1] = Two[i + 1]
      BY <1>11, <2>1, <3>1
    <3>3. Two[i + 1] = 2 * Two[i] /\ Two[i] \in Nat \ {0}
      BY TwoIs
    <3>4. Two[i + 1] <= HIGH
      BY <1>1, <3>1, TwoGrows
    <3>5. Two[i] < HIGH
      <4>1. PICK t \in Nat \ {0} : t = Two[i]
        BY <3>3
      <4>2. PICK b \in Nat : b = HIGH
        BY <1>1
      <4>3. 2 * t <= b
        BY <3>3, <3>4, <4>1, <4>2
      <4> QED BY <4>1, <4>2, <4>3
    <3>6. TimesX(Two[i]) = 2 * Two[i]
      BY <1>15, <3>2, <3>5, TimesXIn
    <3> QED BY <3>2, <3>3, <3>6
  <2>2. CASE i + 1 = GF_BITS
    <3>1. i = GF_BITS - 1 /\ i < GF_BITS
      BY <1>1, <2>2
    <3>2. Power[i] = HIGH /\ Power[i + 1] = L
      <4>1. Power[i] = Two[GF_BITS - 1]
        BY <1>11, <3>1
      <4> QED BY <1>1, <1>11, <2>2, <4>1
    <3>3. HIGH \in gf /\ HIGH >= HIGH /\ 2 * (HIGH - HIGH) = 0
      BY <1>1
    <3>4. TimesX(HIGH) = Xor(L, 0)
      BY <3>3, TimesXIn DEF L
    <3> QED BY <1>1, <3>2, <3>4, XorLaws
  <2>3. CASE ~(i + 1 <= GF_BITS)
    BY <1>11, <1>15, <2>3
  <2>4. i + 1 < GF_BITS \/ i + 1 = GF_BITS \/ ~(i + 1 <= GF_BITS)
    BY <1>1
  <2> QED BY <2>1, <2>2, <2>3, <2>4
<1> QED BY <1>15, <1>16, <1>17

LEMMA Remainders ==
  ASSUME NEW y \in Nat, NEW m \in Nat \ {0}
  PROVE  /\ y \div m \in Nat /\ y % m \in 0..m - 1 /\ y % m \in Nat
         /\ y = m * (y \div m) + (y % m)
  OBVIOUS

LEMMA SmallRemainder ==
  ASSUME NEW n \in Nat \ {0}, NEW i \in Nat, i < 2 * n
  PROVE  i % n = IF i < n THEN i ELSE i - n
<1>1. PICK d \in Nat, r \in 0..n - 1 : d = i \div n /\ r = i % n /\ i = n * d + r
  OBVIOUS
<1>2. CASE d = 0
  BY <1>1, <1>2
<1>3. CASE d = 1
  BY <1>1, <1>3
<1>4. CASE d > 1
  <2>1. d - 2 \in Nat /\ n * d = n * (d - 2) + 2 * n /\ n * (d - 2) \in Nat
    BY <1>4
  <2> QED BY <1>1, <2>1
<1> QED BY <1>1, <1>2, <1>3, <1>4

LEMMA ExpIs ==
  ASSUME NEW i \in 0..2 * GF_SIZE - 1
  PROVE  gf_exp[i] = IF i < GF_SIZE THEN Power[i] ELSE Power[i - GF_SIZE]
<1>1. GF_SIZE \in Nat \ {0} /\ i \in Nat /\ i < 2 * GF_SIZE
  BY FieldSizes
<1>2. gf_exp[i] = Power[i % GF_SIZE]
  BY DEF gf_exp
<1> QED BY <1>1, <1>2, SmallRemainder

-----------------------------------------------------------------------------
(* The order of alpha: every polynomial of the table is primitive *)

\* The exclusive or with alpha^GF_BITS, for the four values it takes.
LEMMA XorSmall ==
  ASSUME NEW y \in Nat
  PROVE  /\ XorOf[<<3, 2 * y>>] = 2 * y + 3 - 4 * (y % 2)
         /\ XorOf[<<5, 2 * y>>] = 2 * y + 5 - 8 * ((y \div 2) % 2)
         /\ XorOf[<<9, 2 * y>>] = 2 * y + 9 - 16 * ((y \div 4) % 2)
         /\ XorOf[<<29, 2 * y>>] = 2 * y + 29 - 8 * ((y \div 2) % 8)
<1>1. ASSUME NEW a \in Nat, NEW u \in Nat
      PROVE  /\ XorOf[<<2 * a, u>>] = 2 * XorOf[<<a, u \div 2>>] + (u % 2)
             /\ XorOf[<<2 * a + 1, u>>] = 2 * XorOf[<<a, u \div 2>>] + ((1 + u) % 2)
             /\ XorOf[<<2 * a + 1, 2 * u>>] = 2 * XorOf[<<a, u>>] + 1
  <2>1. /\ 2 * a \in Nat /\ 2 * a + 1 \in Nat /\ 2 * u \in Nat
        /\ (2 * a) \div 2 = a /\ (2 * a + 1) \div 2 = a /\ (2 * u) \div 2 = u
        /\ (2 * a + u) % 2 = u % 2 /\ ((2 * a + 1) + u) % 2 = (1 + u) % 2
        /\ ((2 * a + 1) + 2 * u) % 2 = 1
    OBVIOUS
  <2>2. XorOf[<<2 * a, u>>] = 2 * XorOf[<<(2 * a) \div 2, u \div 2>>] + ((2 * a + u) % 2)
    BY <2>1, XorBits
  <2>3. XorOf[<<2 * a + 1, u>>]
          = 2 * XorOf[<<(2 * a + 1) \div 2, u \div 2>>] + (((2 * a + 1) + u) % 2)
    BY <2>1, XorBits
  <2>4. XorOf[<<2 * a + 1, 2 * u>>]
          = 2 * XorOf[<<(2 * a + 1) \div 2, (2 * u) \div 2>>] + (((2 * a + 1) + 2 * u) % 2)
    BY <2>1, XorBits
  <2> QED BY <2>1, <2>2, <2>3, <2>4
<1>2. ASSUME NEW u \in Nat PROVE XorOf[<<0, u>>] = u
  <2> DEFINE T == {n \in Nat : n < Two[n]}
  <2>1. 0 \in T /\ \A n \in Nat : n \in T => n + 1 \in T
    BY TwoIs
  <2>2. u \in T
    <3> HIDE DEF T
    <3> QED BY <2>1, Induction
  <2>3. 0 \in 0..Two[u] - 1 /\ u \in 0..Two[u] - 1
    BY <2>2, TwoIs
  <2> QED BY <2>3, XorCancels, XorCommutes
<1>3. ASSUME NEW u \in Nat PROVE XorOf[<<1, u>>] = u + 1 - 2 * (u % 2)
  <2>1. XorOf[<<2 * 0 + 1, u>>] = 2 * XorOf[<<0, u \div 2>>] + ((1 + u) % 2)
    BY <1>1
  <2>2. XorOf[<<0, u \div 2>>] = u \div 2
    BY <1>2, Halved
  <2>3. 2 * 0 + 1 = 1 /\ 2 * (u \div 2) + ((1 + u) % 2) = u + 1 - 2 * (u % 2)
    OBVIOUS
  <2> QED BY <2>1, <2>2, <2>3
<1>4. ASSUME NEW u \in Nat PROVE XorOf[<<2, u>>] = u + 2 - 4 * ((u \div 2) % 2)
  <2>1. XorOf[<<2 * 1, u>>] = 2 * XorOf[<<1, u \div 2>>] + (u % 2)
    BY <1>1
  <2>2. XorOf[<<1, u \div 2>>] = (u \div 2) + 1 - 2 * ((u \div 2) % 2)
    BY <1>3, Halved
  <2>3. 2 * 1 = 2 /\ u = 2 * (u \div 2) + (u % 2)
    OBVIOUS
  <2> QED BY <2>1, <2>2, <2>3
<1>5. ASSUME NEW u \in Nat PROVE XorOf[<<4, u>>] = u + 4 - 8 * ((u \div 4) % 2)
  <2>1. XorOf[<<2 * 2, u>>] = 2 * XorOf[<<2, u \div 2>>] + (u % 2)
    BY <1>1
  <2>2. XorOf[<<2, u \div 2>>] = (u \div 2) + 2 - 4 * (((u \div 2) \div 2) % 2)
    BY <1>4, Halved
  <2>3. 2 * 2 = 4 /\ u = 2 * (u \div 2) + (u % 2) /\ (u \div 2) \div 2 = u \div 4
    OBVIOUS
  <2> QED BY <2>1, <2>2, <2>3
<1>6. ASSUME NEW u \in Nat PROVE XorOf[<<3, u>>] = u + 3 - 2 * (u % 4)
  <2>1. XorOf[<<2 * 1 + 1, u>>] = 2 * XorOf[<<1, u \div 2>>] + ((1 + u) % 2)
    BY <1>1
  <2>2. XorOf[<<1, u \div 2>>] = (u \div 2) + 1 - 2 * ((u \div 2) % 2)
    BY <1>3, Halved
  <2>3. /\ 2 * 1 + 1 = 3 /\ u = 2 * (u \div 2) + (u % 2) /\ (1 + u) % 2 = 1 - (u % 2)
        /\ u % 4 = 2 * ((u \div 2) % 2) + (u % 2)
    OBVIOUS
  <2> QED BY <2>1, <2>2, <2>3
<1>7. ASSUME NEW u \in Nat PROVE XorOf[<<7, u>>] = u + 7 - 2 * (u % 8)
  <2>1. XorOf[<<2 * 3 + 1, u>>] = 2 * XorOf[<<3, u \div 2>>] + ((1 + u) % 2)
    BY <1>1
  <2>2. XorOf[<<3, u \div 2>>] = (u \div 2) + 3 - 2 * ((u \div 2) % 4)
    BY <1>6, Halved
  <2>3. /\ 2 * 3 + 1 = 7 /\ u = 2 * (u \div 2) + (u % 2) /\ (1 + u) % 2 = 1 - (u % 2)
        /\ u % 8 = 2 * ((u \div 2) % 4) + (u % 2)
    OBVIOUS
  <2> QED BY <2>1, <2>2, <2>3
<1>8. ASSUME NEW u \in Nat PROVE XorOf[<<14, u>>] = u + 14 - 4 * ((u \div 2) % 8)
  <2>1. XorOf[<<2 * 7, u>>] = 2 * XorOf[<<7, u \div 2>>] + (u % 2)
    BY <1>1
  <2>2. XorOf[<<7, u \div 2>>] = (u \div 2) + 7 - 2 * ((u \div 2) % 8)
    BY <1>7, Halved
  <2>3. 2 * 7 = 14 /\ u = 2 * (u \div 2) + (u % 2)
    OBVIOUS
  <2> QED BY <2>1, <2>2, <2>3
<1>9. /\ XorOf[<<2 * 1 + 1, 2 * y>>] = 2 * XorOf[<<1, y>>] + 1
      /\ XorOf[<<2 * 2 + 1, 2 * y>>] = 2 * XorOf[<<2, y>>] + 1
      /\ XorOf[<<2 * 4 + 1, 2 * y>>] = 2 * XorOf[<<4, y>>] + 1
      /\ XorOf[<<2 * 14 + 1, 2 * y>>] = 2 * XorOf[<<14, y>>] + 1
  BY <1>1
<1>10. 2 * 1 + 1 = 3 /\ 2 * 2 + 1 = 5 /\ 2 * 4 + 1 = 9 /\ 2 * 14 + 1 = 29
  OBVIOUS
<1> QED BY <1>3, <1>4, <1>5, <1>8, <1>9, <1>10

LEMMA SmallTwos ==
  /\ Two[0] = 1 /\ Two[1] = 2 /\ Two[2] = 4 /\ Two[3] = 8 /\ Two[4] = 16 /\ Two[5] = 32
  /\ Two[6] = 64 /\ Two[7] = 128
<1>1. \A n \in Nat : Two[n + 1] = 2 * Two[n]
  BY TwoIs
<1>2. Two[0] = 1 /\ Two[0 + 1] = 2 * Two[0] /\ Two[1 + 1] = 2 * Two[1]
  BY <1>1, TwoIs
<1>3. Two[2 + 1] = 2 * Two[2] /\ Two[3 + 1] = 2 * Two[3] /\ Two[4 + 1] = 2 * Two[4]
  BY <1>1
<1>4. Two[5 + 1] = 2 * Two[5] /\ Two[6 + 1] = 2 * Two[6]
  BY <1>1
<1> QED BY <1>2, <1>3, <1>4

\* alpha^GF_BITS for every polynomial of the table.
LEMMA LowValues ==
  LowPowers[GF_BITS] = IF GF_BITS = 5 THEN 5 ELSE IF GF_BITS = 7 THEN 9
                       ELSE IF GF_BITS = 8 THEN 29 ELSE 3
<1> DEFINE Sum(n) == LowPowers[n + 1] = LowPowers[n] + allPp[GF_BITS][n + 1] * Two[n]
<1>1. GF_BITS \in {2, 3, 4, 5, 6, 7, 8}
  BY FecAssumption
<1>2. LowPowers[0] = 0
  BY LowSums
<1>3. ASSUME NEW n \in Nat, n + 1 \in 1..GF_BITS PROVE Sum(n)
  BY <1>3, LowSums
<1> HIDE DEF Sum
<1>4. CASE GF_BITS = 2
  <2>1. allPp[GF_BITS] = <<1,1,1>>
    BY <1>4 DEF allPp
  <2>2. Sum(0) /\ Sum(1)
    BY <1>4, <1>3
  <2>3. LowPowers[1] = 1 /\ LowPowers[2] = 3
    BY <1>2, <2>1, <2>2, SmallTwos DEF Sum
  <2> QED BY <1>4, <2>3
<1>5. CASE GF_BITS = 3
  <2>1. allPp[GF_BITS] = <<1,1,0,1>>
    BY <1>5 DEF allPp
  <2>2. Sum(0) /\ Sum(1) /\ Sum(2)
    BY <1>5, <1>3
  <2>3. LowPowers[1] = 1 /\ LowPowers[2] = 3 /\ LowPowers[3] = 3
    BY <1>2, <2>1, <2>2, SmallTwos DEF Sum
  <2> QED BY <1>5, <2>3
<1>6. CASE GF_BITS = 4
  <2>1. allPp[GF_BITS] = <<1,1,0,0,1>>
    BY <1>6 DEF allPp
  <2>2. Sum(0) /\ Sum(1) /\ Sum(2) /\ Sum(3)
    BY <1>6, <1>3
  <2>3. LowPowers[1] = 1 /\ LowPowers[2] = 3 /\ LowPowers[3] = 3 /\ LowPowers[4] = 3
    BY <1>2, <2>1, <2>2, SmallTwos DEF Sum
  <2> QED BY <1>6, <2>3
<1>7. CASE GF_BITS = 5
  <2>1. allPp[GF_BITS] = <<1,0,1,0,0,1>>
    BY <1>7 DEF allPp
  <2>2. Sum(0) /\ Sum(1) /\ Sum(2) /\ Sum(3) /\ Sum(4)
    BY <1>7, <1>3
  <2>3. LowPowers[1] = 1 /\ LowPowers[2] = 1 /\ LowPowers[3] = 5 /\ LowPowers[4] = 5
        /\ LowPowers[5] = 5
    BY <1>2, <2>1, <2>2, SmallTwos DEF Sum
  <2> QED BY <1>7, <2>3
<1>8. CASE GF_BITS = 6
  <2>1. allPp[GF_BITS] = <<1,1,0,0,0,0,1>>
    BY <1>8 DEF allPp
  <2>2. Sum(0) /\ Sum(1) /\ Sum(2) /\ Sum(3) /\ Sum(4) /\ Sum(5)
    BY <1>8, <1>3
  <2>3. LowPowers[1] = 1 /\ LowPowers[2] = 3 /\ LowPowers[3] = 3 /\ LowPowers[4] = 3
        /\ LowPowers[5] = 3 /\ LowPowers[6] = 3
    BY <1>2, <2>1, <2>2, SmallTwos DEF Sum
  <2> QED BY <1>8, <2>3
<1>9. CASE GF_BITS = 7
  <2>1. allPp[GF_BITS] = <<1,0,0,1,0,0,0,1>>
    BY <1>9 DEF allPp
  <2>2. Sum(0) /\ Sum(1) /\ Sum(2) /\ Sum(3) /\ Sum(4) /\ Sum(5) /\ Sum(6)
    BY <1>9, <1>3
  <2>3. LowPowers[1] = 1 /\ LowPowers[2] = 1 /\ LowPowers[3] = 1 /\ LowPowers[4] = 9
        /\ LowPowers[5] = 9 /\ LowPowers[6] = 9 /\ LowPowers[7] = 9
    BY <1>2, <2>1, <2>2, SmallTwos DEF Sum
  <2> QED BY <1>9, <2>3
<1>10. CASE GF_BITS = 8
  <2>1. allPp[GF_BITS] = <<1,0,1,1,1,0,0,0,1>>
    BY <1>10 DEF allPp
  <2>2. Sum(0) /\ Sum(1) /\ Sum(2) /\ Sum(3) /\ Sum(4) /\ Sum(5) /\ Sum(6) /\ Sum(7)
    BY <1>10, <1>3
  <2>3. LowPowers[1] = 1 /\ LowPowers[2] = 1 /\ LowPowers[3] = 5 /\ LowPowers[4] = 13
        /\ LowPowers[5] = 29 /\ LowPowers[6] = 29 /\ LowPowers[7] = 29 /\ LowPowers[8] = 29
    BY <1>2, <2>1, <2>2, SmallTwos DEF Sum
  <2> QED BY <1>10, <2>3
<1> QED BY <1>1, <1>4, <1>5, <1>6, <1>7, <1>8, <1>9, <1>10

\* The multiple by alpha of an element with the highest bit, less that bit.
Folded(y) == IF GF_BITS = 5 THEN 2 * y + 5 - 8 * ((y \div 2) % 2)
             ELSE IF GF_BITS = 7 THEN 2 * y + 9 - 16 * ((y \div 4) % 2)
             ELSE IF GF_BITS = 8 THEN 2 * y + 29 - 8 * ((y \div 2) % 8)
             ELSE 2 * y + 3 - 4 * (y % 2)

LEMMA TimesXIs ==
  \A x \in 0..2 * HIGH - 1 : TimesX(x) = IF x < HIGH THEN 2 * x ELSE Folded(x - HIGH)
<1>1. HIGH \in Nat /\ gf = 0..2 * HIGH - 1
  BY FieldSizes
<1> SUFFICES ASSUME NEW x \in gf
             PROVE  TimesX(x) = IF x < HIGH THEN 2 * x ELSE Folded(x - HIGH)
  BY <1>1
<1>2. CASE x < HIGH
  BY <1>2, TimesXIn
<1>3. CASE ~(x < HIGH)
  <2>1. x - HIGH \in Nat /\ x >= HIGH
    BY <1>1, <1>3
  <2>2. 2 * (x - HIGH) \in gf /\ TimesX(x) = Xor(LowPowers[GF_BITS], 2 * (x - HIGH))
    BY <2>1, TimesXIn
  <2>3. TimesX(x) = XorOf[<<LowPowers[GF_BITS], 2 * (x - HIGH)>>]
    BY <2>2, LowIs, XorLaws
  <2>4. /\ XorOf[<<3, 2 * (x - HIGH)>>] = 2 * (x - HIGH) + 3 - 4 * ((x - HIGH) % 2)
        /\ XorOf[<<5, 2 * (x - HIGH)>>] = 2 * (x - HIGH) + 5 - 8 * (((x - HIGH) \div 2) % 2)
        /\ XorOf[<<9, 2 * (x - HIGH)>>] = 2 * (x - HIGH) + 9 - 16 * (((x - HIGH) \div 4) % 2)
        /\ XorOf[<<29, 2 * (x - HIGH)>>] = 2 * (x - HIGH) + 29 - 8 * (((x - HIGH) \div 2) % 8)
    BY <2>1, XorSmall
  <2> QED BY <1>3, <2>3, <2>4, LowValues DEF Folded
<1> QED BY <1>2, <1>3

\* The power n is v, and no power from 1 to n is 1.
Reached(n, v) == Power[n] = v /\ \A j \in 1..n : Power[j] # 1

LEMMA OneMore ==
  ASSUME NEW n \in Nat, NEW v, Reached(n, v), NEW w, w = TimesX(v), w # 1
  PROVE  Reached(n + 1, w)
<1>1. Power[n + 1] = w
  BY PowerIs DEF Reached
<1>2. ASSUME NEW j \in 1..n + 1 PROVE Power[j] # 1
  <2>1. CASE j = n + 1
    BY <1>1, <2>1
  <2>2. CASE j # n + 1
    <3>1. j \in 1..n
      BY <2>2
    <3> QED BY <3>1 DEF Reached
  <2> QED BY <2>1, <2>2
<1> QED BY <1>1, <1>2 DEF Reached

\* The first six powers, and eight that follow the power v: none is 1.
First(a, b, c, d, e, f) ==
  /\ a = TimesX(1) /\ b = TimesX(a) /\ c = TimesX(b) /\ d = TimesX(c)
  /\ e = TimesX(d) /\ f = TimesX(e) /\ 1 \notin {a, b, c, d, e, f}

Goes(v, a, b, c, d, e, f, g, h) ==
  /\ a = TimesX(v) /\ b = TimesX(a) /\ c = TimesX(b) /\ d = TimesX(c)
  /\ e = TimesX(d) /\ f = TimesX(e) /\ g = TimesX(f) /\ h = TimesX(g)
  /\ 1 \notin {a, b, c, d, e, f, g, h}

LEMMA SixFirst ==
  ASSUME NEW a, NEW b, NEW c, NEW d, NEW e, NEW f, First(a, b, c, d, e, f)
  PROVE  Reached(6, f)
<1>1. Reached(0, 1)
  BY PowerIs DEF Reached
<1>2. Reached(0 + 1, a)
  BY <1>1, OneMore DEF First
<1>3. Reached(1 + 1, b)
  BY <1>2, OneMore DEF First
<1>4. Reached(2 + 1, c)
  BY <1>3, OneMore DEF First
<1>5. Reached(3 + 1, d)
  BY <1>4, OneMore DEF First
<1>6. Reached(4 + 1, e)
  BY <1>5, OneMore DEF First
<1>7. Reached(5 + 1, f)
  BY <1>6, OneMore DEF First
<1> QED BY <1>7

LEMMA EightMore ==
  ASSUME NEW n \in Nat, NEW v, Reached(n, v), NEW a, NEW b, NEW c, NEW d, NEW e, NEW f, NEW g,
         NEW h, Goes(v, a, b, c, d, e, f, g, h)
  PROVE  Reached(n + 8, h)
<1>1. Reached(n + 2, b)
  <2>1. Reached(n + 1, a)
    BY OneMore DEF Goes
  <2>2. Reached((n + 1) + 1, b)
    BY <2>1, OneMore DEF Goes
  <2>3. (n + 1) + 1 = n + 2
    OBVIOUS
  <2> QED BY <2>2, <2>3
<1>2. Reached(n + 4, d)
  <2>1. Reached((n + 2) + 1, c)
    BY <1>1, OneMore DEF Goes
  <2>2. Reached(((n + 2) + 1) + 1, d)
    BY <2>1, OneMore DEF Goes
  <2>3. ((n + 2) + 1) + 1 = n + 4
    OBVIOUS
  <2> QED BY <2>2, <2>3
<1>3. Reached(n + 6, f)
  <2>1. Reached((n + 4) + 1, e)
    BY <1>2, OneMore DEF Goes
  <2>2. Reached(((n + 4) + 1) + 1, f)
    BY <2>1, OneMore DEF Goes
  <2>3. ((n + 4) + 1) + 1 = n + 6
    OBVIOUS
  <2> QED BY <2>2, <2>3
<1>4. Reached((n + 6) + 1, g)
  BY <1>3, OneMore DEF Goes
<1>5. Reached(((n + 6) + 1) + 1, h)
  BY <1>4, OneMore DEF Goes
<1>6. ((n + 6) + 1) + 1 = n + 8
  OBVIOUS
<1> QED BY <1>5, <1>6

\* Size by size, the powers are gone through one by one.
LEMMA Order2 == ASSUME GF_BITS = 2 PROVE Reached(2, 3)
<1>1. HIGH = 2
  BY SmallTwos DEF HIGH
<1>2. \A x \in 0..3 : TimesX(x) = IF x < 2 THEN 2 * x ELSE 2 * (x - 2) + 3 - 4 * ((x - 2) % 2)
  BY <1>1, TimesXIs DEF Folded
<1>3. Reached(0, 1) /\ TimesX(1) = 2 /\ TimesX(2) = 3
  BY <1>2, PowerIs DEF Reached
<1>4. Reached(0 + 1, 2)
  BY <1>3, OneMore
<1>5. Reached(1 + 1, 3)
  BY <1>3, <1>4, OneMore
<1> QED BY <1>5

LEMMA Order3 == ASSUME GF_BITS = 3 PROVE Reached(6, 5)
<1>1. HIGH = 4
  BY SmallTwos DEF HIGH
<1>2. \A x \in 0..7 : TimesX(x) = IF x < 4 THEN 2 * x
                                ELSE 2 * (x - 4) + 3 - 4 * ((x - 4) % 2)
  BY <1>1, TimesXIs DEF Folded
<1>3. First(2, 4, 3, 6, 7, 5)
  BY <1>2 DEF First
<1>4. Reached(6, 5)
  BY <1>3, SixFirst
<1> QED BY <1>4

LEMMA Order4 == ASSUME GF_BITS = 4 PROVE Reached(14, 9)
<1>1. HIGH = 8
  BY SmallTwos DEF HIGH
<1>2. \A x \in 0..15 : TimesX(x) = IF x < 8 THEN 2 * x
                                ELSE 2 * (x - 8) + 3 - 4 * ((x - 8) % 2)
  BY <1>1, TimesXIs DEF Folded
<1>3. First(2, 4, 8, 3, 6, 12)
  BY <1>2 DEF First
<1>4. Reached(6, 12)
  BY <1>3, SixFirst
<1>5. Goes(12, 11, 5, 10, 7, 14, 15, 13, 9)
  BY <1>2 DEF Goes
<1> QED BY <1>4, <1>5, EightMore

LEMMA Order5 == ASSUME GF_BITS = 5 PROVE Reached(30, 18)
<1>1. HIGH = 16
  BY SmallTwos DEF HIGH
<1>2. \A x \in 0..31 : TimesX(x) = IF x < 16 THEN 2 * x
                                ELSE 2 * (x - 16) + 5 - 8 * (((x - 16) \div 2) % 2)
  BY <1>1, TimesXIs DEF Folded
<1>3. First(2, 4, 8, 16, 5, 10)
  BY <1>2 DEF First
<1>4. Reached(6, 10)
  BY <1>3, SixFirst
<1>5. /\ Goes(10, 20, 13, 26, 17, 7, 14, 28, 29)
      /\ Goes(29, 31, 27, 19, 3, 6, 12, 24, 21)
      /\ Goes(21, 15, 30, 25, 23, 11, 22, 9, 18)
  BY <1>2 DEF Goes
<1>6. Reached(14, 29)
  BY <1>4, <1>5, EightMore
<1>7. Reached(22, 21)
  BY <1>6, <1>5, EightMore
<1> QED BY <1>7, <1>5, EightMore

LEMMA Order6 == ASSUME GF_BITS = 6 PROVE Reached(62, 33)
<1>1. HIGH = 32
  BY SmallTwos DEF HIGH
<1>2. \A x \in 0..63 : TimesX(x) = IF x < 32 THEN 2 * x
                                ELSE 2 * (x - 32) + 3 - 4 * ((x - 32) % 2)
  BY <1>1, TimesXIs DEF Folded
<1>3. First(2, 4, 8, 16, 32, 3)
  BY <1>2 DEF First
<1>4. Reached(6, 3)
  BY <1>3, SixFirst
<1>5. /\ Goes(3, 6, 12, 24, 48, 35, 5, 10, 20)
      /\ Goes(20, 40, 19, 38, 15, 30, 60, 59, 53)
      /\ Goes(53, 41, 17, 34, 7, 14, 28, 56, 51)
      /\ Goes(51, 37, 9, 18, 36, 11, 22, 44, 27)
      /\ Goes(27, 54, 47, 29, 58, 55, 45, 25, 50)
      /\ Goes(50, 39, 13, 26, 52, 43, 21, 42, 23)
      /\ Goes(23, 46, 31, 62, 63, 61, 57, 49, 33)
  BY <1>2 DEF Goes
<1>6. Reached(14, 20)
  BY <1>4, <1>5, EightMore
<1>7. Reached(22, 53)
  BY <1>6, <1>5, EightMore
<1>8. Reached(30, 51)
  BY <1>7, <1>5, EightMore
<1>9. Reached(38, 27)
  BY <1>8, <1>5, EightMore
<1>10. Reached(46, 50)
  BY <1>9, <1>5, EightMore
<1>11. Reached(54, 23)
  BY <1>10, <1>5, EightMore
<1> QED BY <1>11, <1>5, EightMore

LEMMA Order7 == ASSUME GF_BITS = 7 PROVE Reached(126, 68)
<1>1. HIGH = 64
  BY SmallTwos DEF HIGH
<1>2. \A x \in 0..127 : TimesX(x) = IF x < 64 THEN 2 * x
                                ELSE 2 * (x - 64) + 9 - 16 * (((x - 64) \div 4) % 2)
  BY <1>1, TimesXIs DEF Folded
<1>3. First(2, 4, 8, 16, 32, 64)
  BY <1>2 DEF First
<1>4. Reached(6, 64)
  BY <1>3, SixFirst
<1>5. /\ Goes(64, 9, 18, 36, 72, 25, 50, 100, 65)
      /\ Goes(65, 11, 22, 44, 88, 57, 114, 109, 83)
      /\ Goes(83, 47, 94, 53, 106, 93, 51, 102, 69)
      /\ Goes(69, 3, 6, 12, 24, 48, 96, 73, 27)
      /\ Goes(27, 54, 108, 81, 43, 86, 37, 74, 29)
      /\ Goes(29, 58, 116, 97, 75, 31, 62, 124, 113)
      /\ Goes(113, 107, 95, 55, 110, 85, 35, 70, 5)
      /\ Goes(5, 10, 20, 40, 80, 41, 82, 45, 90)
      /\ Goes(90, 61, 122, 125, 115, 111, 87, 39, 78)
      /\ Goes(78, 21, 42, 84, 33, 66, 13, 26, 52)
      /\ Goes(52, 104, 89, 59, 118, 101, 67, 15, 30)
      /\ Goes(30, 60, 120, 121, 123, 127, 119, 103, 71)
      /\ Goes(71, 7, 14, 28, 56, 112, 105, 91, 63)
      /\ Goes(63, 126, 117, 99, 79, 23, 46, 92, 49)
      /\ Goes(49, 98, 77, 19, 38, 76, 17, 34, 68)
  BY <1>2 DEF Goes
<1>6. Reached(14, 65)
  BY <1>4, <1>5, EightMore
<1>7. Reached(22, 83)
  BY <1>6, <1>5, EightMore
<1>8. Reached(30, 69)
  BY <1>7, <1>5, EightMore
<1>9. Reached(38, 27)
  BY <1>8, <1>5, EightMore
<1>10. Reached(46, 29)
  BY <1>9, <1>5, EightMore
<1>11. Reached(54, 113)
  BY <1>10, <1>5, EightMore
<1>12. Reached(62, 5)
  BY <1>11, <1>5, EightMore
<1>13. Reached(70, 90)
  BY <1>12, <1>5, EightMore
<1>14. Reached(78, 78)
  BY <1>13, <1>5, EightMore
<1>15. Reached(86, 52)
  BY <1>14, <1>5, EightMore
<1>16. Reached(94, 30)
  BY <1>15, <1>5, EightMore
<1>17. Reached(102, 71)
  BY <1>16, <1>5, EightMore
<1>18. Reached(110, 63)
  BY <1>17, <1>5, EightMore
<1>19. Reached(118, 49)
  BY <1>18, <1>5, EightMore
<1> QED BY <1>19, <1>5, EightMore

LEMMA Order8 == ASSUME GF_BITS = 8 PROVE Reached(254, 142)
<1>1. HIGH = 128
  BY SmallTwos DEF HIGH
<1>2. \A x \in 0..255 : TimesX(x) = IF x < 128 THEN 2 * x
                                ELSE 2 * (x - 128) + 29 - 8 * (((x - 128) \div 2) % 8)
  BY <1>1, TimesXIs DEF Folded
<1>3. First(2, 4, 8, 16, 32, 64)
  BY <1>2 DEF First
<1>4. Reached(6, 64)
  BY <1>3, SixFirst
<1>5. /\ Goes(64, 128, 29, 58, 116, 232, 205, 135, 19)
      /\ Goes(19, 38, 76, 152, 45, 90, 180, 117, 234)
      /\ Goes(234, 201, 143, 3, 6, 12, 24, 48, 96)
      /\ Goes(96, 192, 157, 39, 78, 156, 37, 74, 148)
      /\ Goes(148, 53, 106, 212, 181, 119, 238, 193, 159)
      /\ Goes(159, 35, 70, 140, 5, 10, 20, 40, 80)
      /\ Goes(80, 160, 93, 186, 105, 210, 185, 111, 222)
      /\ Goes(222, 161, 95, 190, 97, 194, 153, 47, 94)
      /\ Goes(94, 188, 101, 202, 137, 15, 30, 60, 120)
      /\ Goes(120, 240, 253, 231, 211, 187, 107, 214, 177)
      /\ Goes(177, 127, 254, 225, 223, 163, 91, 182, 113)
      /\ Goes(113, 226, 217, 175, 67, 134, 17, 34, 68)
      /\ Goes(68, 136, 13, 26, 52, 104, 208, 189, 103)
      /\ Goes(103, 206, 129, 31, 62, 124, 248, 237, 199)
      /\ Goes(199, 147, 59, 118, 236, 197, 151, 51, 102)
      /\ Goes(102, 204, 133, 23, 46, 92, 184, 109, 218)
      /\ Goes(218, 169, 79, 158, 33, 66, 132, 21, 42)
      /\ Goes(42, 84, 168, 77, 154, 41, 82, 164, 85)
      /\ Goes(85, 170, 73, 146, 57, 114, 228, 213, 183)
      /\ Goes(183, 115, 230, 209, 191, 99, 198, 145, 63)
      /\ Goes(63, 126, 252, 229, 215, 179, 123, 246, 241)
      /\ Goes(241, 255, 227, 219, 171, 75, 150, 49, 98)
      /\ Goes(98, 196, 149, 55, 110, 220, 165, 87, 174)
      /\ Goes(174, 65, 130, 25, 50, 100, 200, 141, 7)
      /\ Goes(7, 14, 28, 56, 112, 224, 221, 167, 83)
      /\ Goes(83, 166, 81, 162, 89, 178, 121, 242, 249)
      /\ Goes(249, 239, 195, 155, 43, 86, 172, 69, 138)
      /\ Goes(138, 9, 18, 36, 72, 144, 61, 122, 244)
      /\ Goes(244, 245, 247, 243, 251, 235, 203, 139, 11)
      /\ Goes(11, 22, 44, 88, 176, 125, 250, 233, 207)
      /\ Goes(207, 131, 27, 54, 108, 216, 173, 71, 142)
  BY <1>2 DEF Goes
<1>6. Reached(14, 19)
  BY <1>4, <1>5, EightMore
<1>7. Reached(22, 234)
  BY <1>6, <1>5, EightMore
<1>8. Reached(30, 96)
  BY <1>7, <1>5, EightMore
<1>9. Reached(38, 148)
  BY <1>8, <1>5, EightMore
<1>10. Reached(46, 159)
  BY <1>9, <1>5, EightMore
<1>11. Reached(54, 80)
  BY <1>10, <1>5, EightMore
<1>12. Reached(62, 222)
  BY <1>11, <1>5, EightMore
<1>13. Reached(70, 94)
  BY <1>12, <1>5, EightMore
<1>14. Reached(78, 120)
  BY <1>13, <1>5, EightMore
<1>15. Reached(86, 177)
  BY <1>14, <1>5, EightMore
<1>16. Reached(94, 113)
  BY <1>15, <1>5, EightMore
<1>17. Reached(102, 68)
  BY <1>16, <1>5, EightMore
<1>18. Reached(110, 103)
  BY <1>17, <1>5, EightMore
<1>19. Reached(118, 199)
  BY <1>18, <1>5, EightMore
<1>20. Reached(126, 102)
  BY <1>19, <1>5, EightMore
<1>21. Reached(134, 218)
  BY <1>20, <1>5, EightMore
<1>22. Reached(142, 42)
  BY <1>21, <1>5, EightMore
<1>23. Reached(150, 85)
  BY <1>22, <1>5, EightMore
<1>24. Reached(158, 183)
  BY <1>23, <1>5, EightMore
<1>25. Reached(166, 63)
  BY <1>24, <1>5, EightMore
<1>26. Reached(174, 241)
  BY <1>25, <1>5, EightMore
<1>27. Reached(182, 98)
  BY <1>26, <1>5, EightMore
<1>28. Reached(190, 174)
  BY <1>27, <1>5, EightMore
<1>29. Reached(198, 7)
  BY <1>28, <1>5, EightMore
<1>30. Reached(206, 83)
  BY <1>29, <1>5, EightMore
<1>31. Reached(214, 249)
  BY <1>30, <1>5, EightMore
<1>32. Reached(222, 138)
  BY <1>31, <1>5, EightMore
<1>33. Reached(230, 244)
  BY <1>32, <1>5, EightMore
<1>34. Reached(238, 11)
  BY <1>33, <1>5, EightMore
<1>35. Reached(246, 207)
  BY <1>34, <1>5, EightMore
<1> QED BY <1>35, <1>5, EightMore

LEMMA NoneIsOne == \A j \in 1..GF_SIZE - 1 : Power[j] # 1
<1>1. GF_BITS \in {2, 3, 4, 5, 6, 7, 8}
  BY FecAssumption
<1>2. GF_SIZE = 2 * Two[GF_BITS - 1] - 1
  BY FieldSizes DEF HIGH
<1>3. CASE GF_BITS = 2
  <2>1. GF_SIZE - 1 = 2
    BY <1>2, <1>3, SmallTwos
  <2> QED BY <1>3, <2>1, Order2 DEF Reached
<1>4. CASE GF_BITS = 3
  <2>1. GF_SIZE - 1 = 6
    BY <1>2, <1>4, SmallTwos
  <2> QED BY <1>4, <2>1, Order3 DEF Reached
<1>5. CASE GF_BITS = 4
  <2>1. GF_SIZE - 1 = 14
    BY <1>2, <1>5, SmallTwos
  <2> QED BY <1>5, <2>1, Order4 DEF Reached
<1>6. CASE GF_BITS = 5
  <2>1. GF_SIZE - 1 = 30
    BY <1>2, <1>6, SmallTwos
  <2> QED BY <1>6, <2>1, Order5 DEF Reached
<1>7. CASE GF_BITS = 6
  <2>1. GF_SIZE - 1 = 62
    BY <1>2, <1>7, SmallTwos
  <2> QED BY <1>7, <2>1, Order6 DEF Reached
<1>8. CASE GF_BITS = 7
  <2>1. GF_SIZE - 1 = 126
    BY <1>2, <1>8, SmallTwos
  <2> QED BY <1>8, <2>1, Order7 DEF Reached
<1>9. CASE GF_BITS = 8
  <2>1. GF_SIZE - 1 = 254
    BY <1>2, <1>9, SmallTwos
  <2> QED BY <1>9, <2>1, Order8 DEF Reached
<1> QED BY <1>1, <1>3, <1>4, <1>5, <1>6, <1>7, <1>8, <1>9

\* The powers below GF_SIZE are the elements but 0, each once.
LEMMA PowersDistinct ==
  /\ \A i \in 0..GF_SIZE - 1 : Power[i] \in gf \ {0}
  /\ \A x \in gf \ {0} : \E i \in 0..GF_SIZE - 1 : Power[i] = x
  /\ \A i, j \in 0..GF_SIZE - 1 : Power[i] = Power[j] => i = j
<1> DEFINE f == [i \in 0..GF_SIZE - 1 |-> Power[i]]
           N == {n \in Nat : Power[n] # 0}
           C == {n \in Nat : \A d \in Nat : Power[n + d] = Power[n] => Power[d] = 1}
<1>1. GF_SIZE \in Nat \ {0} /\ gf = 0..GF_SIZE /\ 0 \in gf
  BY FieldSizes
<1>2. TimesX(0) = 0
  BY <1>1, FieldSizes, TimesXIn
<1>3. ASSUME NEW n \in Nat, NEW m \in Nat, Power[n + 1] = Power[m + 1] PROVE Power[n] = Power[m]
  <2>1. /\ Power[n + 1] = TimesX(Power[n]) /\ Power[m + 1] = TimesX(Power[m])
        /\ Power[n] \in gf /\ Power[m] \in gf
    BY PowerIs
  <2> QED BY <1>3, <2>1, TimesXInjective
<1>4. Nat \subseteq N
  <2>1. 0 \in N
    BY PowerIs
  <2>2. ASSUME NEW n \in Nat, n \in N PROVE n + 1 \in N
    <3>1. Power[n + 1] = TimesX(Power[n]) /\ Power[n] \in gf /\ Power[n] # 0
      BY <2>2, PowerIs
    <3>2. Power[n + 1] # 0
      BY <1>1, <1>2, <3>1, TimesXInjective
    <3> QED BY <3>2
  <2> HIDE DEF N
  <2> QED BY <2>1, <2>2, Induction
<1>5. Nat \subseteq C
  <2>1. 0 \in C
    BY PowerIs
  <2>2. ASSUME NEW n \in Nat, n \in C PROVE n + 1 \in C
    <3> SUFFICES ASSUME NEW d \in Nat, Power[(n + 1) + d] = Power[n + 1] PROVE Power[d] = 1
      OBVIOUS
    <3>1. (n + 1) + d = (n + d) + 1 /\ n + d \in Nat
      OBVIOUS
    <3>2. Power[n + d] = Power[n]
      BY <1>3, <3>1
    <3> QED BY <2>2, <3>2
  <2> HIDE DEF C
  <2> QED BY <2>1, <2>2, Induction
<1>6. ASSUME NEW i \in 0..GF_SIZE - 1, NEW j \in 0..GF_SIZE - 1, Power[i] = Power[j]
      PROVE  ~(i < j)
  <2> SUFFICES ASSUME i < j PROVE FALSE
    OBVIOUS
  <2>1. i \in Nat /\ j - i \in Nat /\ i + (j - i) = j /\ j - i \in 1..GF_SIZE - 1
    BY <1>1
  <2>2. Power[j - i] = 1
    BY <1>5, <1>6, <2>1
  <2> QED BY <2>1, <2>2, NoneIsOne
<1>7. \A i, j \in 0..GF_SIZE - 1 : Power[i] = Power[j] => i = j
  BY <1>1, <1>6
<1>8. \A i \in 0..GF_SIZE - 1 : Power[i] \in gf \ {0}
  <2> SUFFICES ASSUME NEW i \in 0..GF_SIZE - 1 PROVE Power[i] \in gf /\ Power[i] # 0
    OBVIOUS
  <2>1. i \in Nat
    BY <1>1
  <2> QED BY <1>4, <2>1, PowerIs
<1> HIDE DEF N, C
<1>9. f \in Injection(0..GF_SIZE - 1, gf \ {0})
  BY <1>7, <1>8 DEF Injection, IsInjective
<1>10. /\ Cardinality(0..GF_SIZE - 1) = GF_SIZE
       /\ IsFiniteSet(gf \ {0}) /\ Cardinality(gf \ {0}) = GF_SIZE
  <2>1. gf \ {0} = 1..GF_SIZE
    BY <1>1
  <2>2. Cardinality(0..GF_SIZE - 1) = GF_SIZE
    BY <1>1, FS_Interval
  <2>3. IsFiniteSet(1..GF_SIZE) /\ Cardinality(1..GF_SIZE) = GF_SIZE
    BY <1>1, FS_Interval
  <2> QED BY <2>1, <2>2, <2>3
<1>11. f \in Surjection(0..GF_SIZE - 1, gf \ {0})
  BY <1>9, <1>10, FS_Injection
<1>12. \A x \in gf \ {0} : \E i \in 0..GF_SIZE - 1 : f[i] = x
  BY <1>11 DEF Surjection
<1> QED BY <1>7, <1>8, <1>12

\* Every polynomial of allPp is primitive: the powers of alpha that generate_gf
\* computes run through every element but 0.
THEOREM PolynomialsPrimitive == Primitive
<1>1. GF_SIZE \in Nat \ {0}
  BY FieldSizes
<1>2. \A i \in 0..GF_SIZE - 1 : gf_exp[i] = Power[i]
  <2>1. \A i \in 0..GF_SIZE - 1 : i \in 0..2 * GF_SIZE - 1 /\ i < GF_SIZE
    BY <1>1
  <2> QED BY <2>1, ExpIs
<1>3. {gf_exp[i] : i \in 0..GF_SIZE - 1} = {Power[i] : i \in 0..GF_SIZE - 1}
  BY <1>2
<1>4. {Power[i] : i \in 0..GF_SIZE - 1} = gf \ {0}
  BY PowersDistinct
<1> QED BY <1>3, <1>4 DEF Primitive

-----------------------------------------------------------------------------
(* Powers, logarithms and products *)

\* The powers repeat after GF_SIZE of them.
LEMMA PowersTurn == \A i \in Nat : Power[i + GF_SIZE] = Power[i]
<1>1. GF_SIZE \in Nat \ {0} /\ 0 \in gf /\ GF_SIZE - 1 \in 0..GF_SIZE - 1
      /\ (GF_SIZE - 1) + 1 = GF_SIZE /\ GF_SIZE - 1 \in Nat
  BY FieldSizes
<1>2. TimesX(0) = 0
  BY <1>1, FieldSizes, TimesXIn
<1>3. Power[GF_SIZE] = TimesX(Power[GF_SIZE - 1])
  BY <1>1, PowerIs
<1>4. Power[GF_SIZE - 1] \in gf \ {0}
  BY <1>1, PowersDistinct
<1>5. Power[GF_SIZE] # 0 /\ Power[GF_SIZE] \in gf
  BY <1>1, <1>2, <1>3, <1>4, TimesXInjective, PowerIs
<1>6. PICK i \in 0..GF_SIZE - 1 : Power[i] = Power[GF_SIZE]
  BY <1>5, PowersDistinct
<1>7. i = 0
  <2> SUFFICES ASSUME i # 0 PROVE FALSE
    OBVIOUS
  <2>1. i - 1 \in 0..GF_SIZE - 1 /\ i - 1 \in Nat /\ (i - 1) + 1 = i /\ i - 1 # GF_SIZE - 1
    BY <1>1
  <2>2. Power[i] = TimesX(Power[i - 1]) /\ Power[i - 1] \in gf
    BY <2>1, PowerIs
  <2>3. Power[i - 1] = Power[GF_SIZE - 1]
    BY <1>3, <1>4, <1>6, <2>2, TimesXInjective
  <2> QED BY <1>1, <2>1, <2>3, PowersDistinct
<1> DEFINE T == {n \in Nat : Power[n + GF_SIZE] = Power[n]}
<1>8. 0 \in T
  BY <1>1, <1>6, <1>7
<1>9. ASSUME NEW n \in Nat, n \in T PROVE n + 1 \in T
  <2>1. n + GF_SIZE \in Nat /\ (n + 1) + GF_SIZE = (n + GF_SIZE) + 1
    BY <1>1
  <2>2. Power[(n + GF_SIZE) + 1] = TimesX(Power[n + GF_SIZE]) /\ Power[n + 1] = TimesX(Power[n])
    BY <2>1, PowerIs
  <2> QED BY <1>9, <2>1, <2>2
<1>10. Nat \subseteq T
  <2> HIDE DEF T
  <2> QED BY <1>8, <1>9, Induction
<1> QED BY <1>10

\* Any power is one of the first.
LEMMA PowerReduced ==
  ASSUME NEW i \in Nat
  PROVE  \E a \in 0..GF_SIZE - 1 : \A j \in Nat : Power[i + j] = Power[a + j]
<1> DEFINE Same(n, a) == \A j \in Nat : Power[n + j] = Power[a + j]
           T == {n \in Nat : \E a \in 0..GF_SIZE - 1 : Same(n, a)}
<1>1. GF_SIZE \in Nat \ {0} /\ 0 \in 0..GF_SIZE - 1
  BY FieldSizes
<1>2. Same(0, 0)
  OBVIOUS
<1>3. ASSUME NEW n \in Nat, NEW a \in Nat, Same(n, a) PROVE Same(n + 1, a + 1)
  <2> SUFFICES ASSUME NEW j \in Nat PROVE Power[(n + 1) + j] = Power[(a + 1) + j]
    OBVIOUS
  <2>1. j + 1 \in Nat /\ (n + 1) + j = n + (j + 1) /\ (a + 1) + j = a + (j + 1)
    OBVIOUS
  <2> QED BY <1>3, <2>1
<1>4. ASSUME NEW n \in Nat, Same(n, GF_SIZE) PROVE Same(n, 0)
  <2> SUFFICES ASSUME NEW j \in Nat PROVE Power[n + j] = Power[0 + j]
    OBVIOUS
  <2>1. GF_SIZE + j = j + GF_SIZE /\ 0 + j = j
    BY <1>1
  <2> QED BY <1>4, <2>1, PowersTurn
<1> HIDE DEF Same
<1>5. 0 \in T
  BY <1>1, <1>2
<1>6. ASSUME NEW n \in Nat, n \in T PROVE n + 1 \in T
  <2>1. PICK a \in 0..GF_SIZE - 1 : Same(n, a)
    BY <1>6
  <2>2. Same(n + 1, a + 1)
    BY <1>3, <2>1
  <2>3. a + 1 \in 0..GF_SIZE - 1 \/ a + 1 = GF_SIZE
    BY <1>1
  <2>4. n + 1 \in Nat
    OBVIOUS
  <2>5. CASE a + 1 = GF_SIZE
    <3>1. Same(n + 1, 0)
      BY <1>4, <2>2, <2>4, <2>5
    <3> QED BY <1>1, <2>4, <3>1
  <2> QED BY <2>2, <2>3, <2>4, <2>5
<1>7. Nat \subseteq T
  <2> HIDE DEF T
  <2> QED BY <1>5, <1>6, Induction
<1> QED BY <1>7 DEF Same

\* The logarithm of an element, and the power it is of.
LEMMA LogIs ==
  ASSUME NEW x \in gf \ {0}
  PROVE  /\ gf_log[x] \in 0..GF_SIZE - 1 /\ Power[gf_log[x]] = x
         /\ \A i \in 0..GF_SIZE - 1 : Power[i] = x => gf_log[x] = i
<1>1. GF_SIZE \in Nat \ {0}
  BY FieldSizes
<1>2. \A i \in 0..GF_SIZE - 1 : gf_exp[i] = Power[i]
  <2>1. \A i \in 0..GF_SIZE - 1 : i \in 0..2 * GF_SIZE - 1 /\ i < GF_SIZE
    BY <1>1
  <2> QED BY <2>1, ExpIs
<1>3. PICK i \in 0..GF_SIZE - 1 : Power[i] = x
  BY PowersDistinct
<1>4. gf_log[x] = CHOOSE j \in 0..GF_SIZE - 1 : gf_exp[j] = x
  BY DEF gf_log
<1>5. gf_log[x] \in 0..GF_SIZE - 1 /\ gf_exp[gf_log[x]] = x
  BY <1>2, <1>3, <1>4
<1> QED BY <1>2, <1>5, PowersDistinct

\* The reduction modulo GF_SIZE, where the table of products needs it.
LEMMA ModnnIs ==
  ASSUME NEW x \in Nat, x < 2 * GF_SIZE
  PROVE  modnn[x] = IF x < GF_SIZE THEN x ELSE x - GF_SIZE
<1> DEFINE Next(n) == ((n - GF_SIZE) \div (GF_SIZE + 1)) + ((n - GF_SIZE) % (GF_SIZE + 1))
           base == [n \in Nat |-> n]
           next == [n \in Nat |-> IF n < GF_SIZE THEN n ELSE Next(n)]
           h == [p \in Nat \X Nat |-> p[1]]
<1>1. GF_SIZE \in Nat \ {0}
  BY FieldSizes
<1>2. ASSUME NEW n \in Nat, ~(n < GF_SIZE) PROVE Next(n) \in Nat /\ Next(n) < n
  <2>1. PICK y \in Nat, m \in Nat \ {0} : y = n - GF_SIZE /\ m = GF_SIZE + 1 /\ y < n
    BY <1>1, <1>2
  <2>2. PICK q \in Nat, r \in Nat : q = y \div m /\ r = y % m /\ y = m * q + r
    BY Remainders
  <2>3. m * q = (m - 1) * q + q /\ (m - 1) * q \in Nat
    BY <2>1
  <2>4. q + r <= y
    BY <2>1, <2>2, <2>3
  <2> QED BY <2>1, <2>2, <2>4
<1> HIDE DEF Next
<1>3. /\ base \in [Nat -> Nat] /\ next \in [Nat -> Nat] /\ h \in [Nat \X Nat -> Nat]
      /\ \A n \in Nat \ (0..GF_SIZE - 1) : base[next[n]] < base[n]
  BY <1>1, <1>2
<1>4. /\ \A n \in 0..GF_SIZE - 1 : base[n] = n
      /\ \A n \in Nat \ (0..GF_SIZE - 1) : next[n] = Next(n)
      /\ \A v, n \in Nat : h[<<v, n>>] = v
  BY <1>1
<1> HIDE DEF base, next, h
<1>5. PICK F \in [Nat -> Nat] : Calls(F, Nat, base, next, h, 0..GF_SIZE - 1)
  BY <1>3, RecursionExists
<1>6. ASSUME NEW n \in Nat PROVE F[n] = IF n < GF_SIZE THEN n ELSE F[Next(n)]
  <2>1. F[n] = IF n \in 0..GF_SIZE - 1 THEN base[n] ELSE h[<<F[next[n]], n>>]
    BY <1>5 DEF Calls
  <2>2. CASE n < GF_SIZE
    <3>1. n \in 0..GF_SIZE - 1
      BY <1>1, <2>2
    <3> QED BY <1>4, <2>1, <2>2, <3>1
  <2>3. CASE ~(n < GF_SIZE)
    <3>1. n \notin 0..GF_SIZE - 1
      BY <1>1, <2>3
    <3>2. next[n] = Next(n) /\ F[Next(n)] \in Nat
      BY <1>2, <1>4, <1>5, <2>3, <3>1
    <3>3. h[<<F[Next(n)], n>>] = F[Next(n)]
      BY <1>4, <3>2
    <3> QED BY <2>1, <2>3, <3>1, <3>2, <3>3
  <2> QED BY <2>2, <2>3
<1>7. F = [n \in Nat |-> IF n < GF_SIZE THEN n ELSE F[Next(n)]]
  BY <1>5, <1>6
<1>8. modnn = [n \in Nat |-> IF n < GF_SIZE THEN n ELSE modnn[Next(n)]]
  BY <1>7 DEF modnn, Next
<1>9. CASE x < GF_SIZE
  BY <1>8, <1>9
<1>10. CASE ~(x < GF_SIZE)
  <2>1. PICK y \in Nat, m \in Nat \ {0} : y = x - GF_SIZE /\ m = GF_SIZE + 1 /\ y < m /\ y < GF_SIZE
    BY <1>1, <1>10
  <2>2. y \div m = 0 /\ y % m = y
    <3>1. y % m = y
      BY <2>1, SmallRemainder
    <3>2. PICK q \in Nat : q = y \div m /\ y = m * q + y
      BY <3>1, Remainders
    <3>3. CASE q = 0
      BY <3>1, <3>2, <3>3
    <3>4. CASE q # 0
      <4>1. PICK b \in Nat : q = b + 1
        <5> q - 1 \in Nat /\ q = (q - 1) + 1
          BY <3>4
        <5> QED OBVIOUS
      <4>2. m * (b + 1) = m * b + m /\ m * b \in Nat
        OBVIOUS
      <4>3. y = (m * b + m) + y
        BY <3>2, <4>1, <4>2
      <4> QED BY <4>2, <4>3
    <3> QED BY <3>3, <3>4
  <2>3. Next(x) = y
    BY <2>1, <2>2 DEF Next
  <2>4. modnn[x] = modnn[y] /\ modnn[y] = y
    BY <1>8, <1>10, <2>1, <2>3
  <2> QED BY <1>10, <2>1, <2>4
<1> QED BY <1>9, <1>10

-----------------------------------------------------------------------------
(* The table of products is the multiplication of a field *)

LEMMA MulPowers ==
  ASSUME NEW i \in Nat, NEW j \in Nat
  PROVE  gf_mul(Power[i], Power[j]) = Power[i + j] /\ Power[i] \in gf \ {0}
<1>1. GF_SIZE \in Nat \ {0}
  BY FieldSizes
<1>2. PICK a \in 0..GF_SIZE - 1 : \A k \in Nat : Power[i + k] = Power[a + k]
  BY PowerReduced
<1>3. PICK b \in 0..GF_SIZE - 1 : \A k \in Nat : Power[j + k] = Power[b + k]
  BY PowerReduced
<1>4. Power[i] = Power[a] /\ Power[j] = Power[b]
  <2>1. i + 0 = i /\ a + 0 = a /\ j + 0 = j /\ b + 0 = b /\ 0 \in Nat
    OBVIOUS
  <2> QED BY <1>2, <1>3, <2>1
<1>5. Power[a] \in gf \ {0} /\ Power[b] \in gf \ {0}
  BY PowersDistinct
<1>6. gf_log[Power[a]] = a /\ gf_log[Power[b]] = b
  BY <1>5, LogIs
<1>7. gf_mul(Power[a], Power[b]) = gf_exp[modnn[a + b]]
  BY <1>5, <1>6 DEF gf_mul, gf_mul_table
<1>8. gf_exp[modnn[a + b]] = Power[a + b]
  <2>1. a + b \in Nat /\ a + b < 2 * GF_SIZE
    BY <1>1
  <2>2. CASE a + b < GF_SIZE
    <3>1. modnn[a + b] = a + b /\ a + b \in 0..2 * GF_SIZE - 1
      BY <1>1, <2>1, <2>2, ModnnIs
    <3> QED BY <2>2, <3>1, ExpIs
  <2>3. CASE ~(a + b < GF_SIZE)
    <3>1. PICK c \in Nat : c = a + b - GF_SIZE
      BY <1>1, <2>3
    <3>2. modnn[a + b] = c /\ c \in 0..2 * GF_SIZE - 1 /\ c < GF_SIZE /\ a + b = c + GF_SIZE
      BY <1>1, <2>1, <2>3, <3>1, ModnnIs
    <3>3. gf_exp[c] = Power[c]
      BY <3>2, ExpIs
    <3> QED BY <3>2, <3>3, PowersTurn
  <2> QED BY <2>2, <2>3
<1>9. Power[i + j] = Power[a + b]
  <2>1. Power[i + j] = Power[a + j] /\ Power[j + a] = Power[b + a]
    BY <1>2, <1>3
  <2>2. a + j = j + a /\ a + b = b + a
    OBVIOUS
  <2> QED BY <2>1, <2>2
<1> QED BY <1>4, <1>5, <1>7, <1>8, <1>9

LEMMA IsPower ==
  ASSUME NEW x \in gf, x # 0
  PROVE  \E i \in Nat : x = Power[i]
<1>1. PICK i \in 0..GF_SIZE - 1 : Power[i] = x
  BY PowersDistinct
<1> QED BY <1>1

LEMMA MulLaws ==
  ASSUME NEW x \in gf, NEW y \in gf
  PROVE  /\ gf_mul(x, y) \in gf /\ gf_mul(x, y) = gf_mul(y, x)
         /\ gf_mul(x, 0) = 0 /\ gf_mul(0, x) = 0
         /\ gf_mul(x, 1) = x /\ gf_mul(1, x) = x
         /\ gf_mul(x, y) = 0 => x = 0 \/ y = 0
<1>1. 0 \in gf /\ 1 \in gf /\ Power[0] = 1 /\ 1 # 0
  BY FieldSizes, PowerIs
<1>2. \A u, v \in gf : u = 0 \/ v = 0 => gf_mul(u, v) = 0
  BY DEF gf_mul, gf_mul_table
<1>3. ASSUME NEW u \in gf, u # 0 PROVE gf_mul(u, 1) = u /\ gf_mul(1, u) = u
  <2>1. PICK i \in Nat : u = Power[i]
    BY <1>3, IsPower
  <2>2. gf_mul(Power[i], Power[0]) = Power[i + 0] /\ gf_mul(Power[0], Power[i]) = Power[0 + i]
    BY MulPowers
  <2>3. i + 0 = i /\ 0 + i = i
    OBVIOUS
  <2> QED BY <1>1, <2>1, <2>2, <2>3
<1>4. ASSUME x # 0, y # 0
      PROVE  gf_mul(x, y) \in gf \ {0} /\ gf_mul(x, y) = gf_mul(y, x)
  <2>1. PICK i \in Nat, j \in Nat : x = Power[i] /\ y = Power[j]
    BY <1>4, IsPower
  <2>2. /\ gf_mul(Power[i], Power[j]) = Power[i + j] /\ gf_mul(Power[j], Power[i]) = Power[j + i]
        /\ i + j = j + i /\ i + j \in Nat
    BY MulPowers
  <2>3. Power[i + j] \in gf \ {0}
    BY <2>2, MulPowers
  <2> QED BY <2>1, <2>2, <2>3
<1>5. gf_mul(x, 0) = 0 /\ gf_mul(0, x) = 0 /\ gf_mul(0, 1) = 0 /\ gf_mul(1, 0) = 0
  BY <1>1, <1>2
<1>6. x = 0 \/ y = 0 => gf_mul(x, y) = 0 /\ gf_mul(y, x) = 0
  BY <1>2
<1> QED BY <1>1, <1>3, <1>4, <1>5, <1>6

LEMMA MulAssoc ==
  ASSUME NEW x \in gf, NEW y \in gf, NEW z \in gf
  PROVE  gf_mul(gf_mul(x, y), z) = gf_mul(x, gf_mul(y, z))
<1>1. CASE x # 0 /\ y # 0 /\ z # 0
  <2>1. PICK i \in Nat, j \in Nat, k \in Nat : x = Power[i] /\ y = Power[j] /\ z = Power[k]
    BY <1>1, IsPower
  <2>2. i + j \in Nat /\ j + k \in Nat /\ (i + j) + k = i + (j + k)
    OBVIOUS
  <2>3. /\ gf_mul(Power[i], Power[j]) = Power[i + j] /\ gf_mul(Power[j], Power[k]) = Power[j + k]
        /\ gf_mul(Power[i + j], Power[k]) = Power[(i + j) + k]
        /\ gf_mul(Power[i], Power[j + k]) = Power[i + (j + k)]
    BY <2>2, MulPowers
  <2> QED BY <2>1, <2>2, <2>3
<1>2. CASE x = 0
  <2>1. gf_mul(0, y) = 0 /\ gf_mul(0, z) = 0 /\ gf_mul(y, z) \in gf
    BY MulLaws
  <2>2. gf_mul(0, gf_mul(y, z)) = 0
    BY <2>1, MulLaws
  <2> QED BY <1>2, <2>1, <2>2
<1>3. CASE y = 0
  <2>1. gf_mul(x, 0) = 0 /\ gf_mul(0, z) = 0
    BY MulLaws
  <2> QED BY <1>3, <2>1
<1>4. CASE z = 0
  <2>1. gf_mul(y, 0) = 0 /\ gf_mul(x, 0) = 0 /\ gf_mul(x, y) \in gf
    BY MulLaws
  <2>2. gf_mul(gf_mul(x, y), 0) = 0
    BY <2>1, MulLaws
  <2> QED BY <1>4, <2>1, <2>2
<1> QED BY <1>1, <1>2, <1>3, <1>4

\* Multiplication by a power of alpha is that by alpha, as often.
LEMMA MulNextPower ==
  ASSUME NEW x \in gf, NEW i \in Nat
  PROVE  gf_mul(x, Power[i + 1]) = TimesX(gf_mul(x, Power[i]))
<1>1. Power[i + 1] \in gf /\ Power[i] \in gf /\ TimesX(0) = 0
  <2>1. 0 \in gf /\ 0 < HIGH
    BY FieldSizes
  <2>2. TimesX(0) = 2 * 0
    BY <2>1, TimesXIn
  <2> QED BY <2>2, PowerIs
<1>2. CASE x = 0
  BY <1>1, <1>2, MulLaws
<1>3. CASE x # 0
  <2>1. PICK j \in Nat : x = Power[j]
    BY <1>3, IsPower
  <2>2. j + (i + 1) = (j + i) + 1 /\ j + i \in Nat
    OBVIOUS
  <2>3. gf_mul(Power[j], Power[i + 1]) = Power[j + (i + 1)]
    BY MulPowers
  <2>4. gf_mul(Power[j], Power[i]) = Power[j + i]
    BY MulPowers
  <2>5. Power[(j + i) + 1] = TimesX(Power[j + i])
    BY <2>2, PowerIs
  <2> QED BY <2>1, <2>2, <2>3, <2>4, <2>5
<1> QED BY <1>2, <1>3

LEMMA Distributes ==
  ASSUME NEW x \in gf, NEW y \in gf, NEW z \in gf
  PROVE  /\ gf_mul(z, Xor(x, y)) = Xor(gf_mul(z, x), gf_mul(z, y))
         /\ gf_mul(Xor(x, y), z) = Xor(gf_mul(x, z), gf_mul(y, z))
<1> DEFINE T == {i \in Nat : gf_mul(Xor(x, y), Power[i])
                               = Xor(gf_mul(x, Power[i]), gf_mul(y, Power[i]))}
<1>1. Xor(x, y) \in gf /\ 0 \in gf
  BY FieldSizes, XorLaws
<1>2. 0 \in T
  <2>1. gf_mul(Xor(x, y), 1) = Xor(x, y) /\ gf_mul(x, 1) = x /\ gf_mul(y, 1) = y
    BY <1>1, MulLaws
  <2> QED BY <2>1, PowerIs
<1>3. ASSUME NEW i \in Nat, i \in T PROVE i + 1 \in T
  <2>1. /\ gf_mul(Xor(x, y), Power[i + 1]) = TimesX(gf_mul(Xor(x, y), Power[i]))
        /\ gf_mul(x, Power[i + 1]) = TimesX(gf_mul(x, Power[i]))
        /\ gf_mul(y, Power[i + 1]) = TimesX(gf_mul(y, Power[i]))
    BY <1>1, MulNextPower
  <2>2. gf_mul(x, Power[i]) \in gf /\ gf_mul(y, Power[i]) \in gf
    BY MulLaws, PowerIs
  <2>3. TimesX(Xor(gf_mul(x, Power[i]), gf_mul(y, Power[i])))
          = Xor(TimesX(gf_mul(x, Power[i])), TimesX(gf_mul(y, Power[i])))
    BY <2>2, TimesXLinear
  <2> QED BY <1>3, <2>1, <2>3
<1>4. Nat \subseteq T
  <2> HIDE DEF T
  <2> QED BY <1>2, <1>3, Induction
<1>5. gf_mul(Xor(x, y), z) = Xor(gf_mul(x, z), gf_mul(y, z))
  <2>1. CASE z = 0
    <3>1. gf_mul(Xor(x, y), 0) = 0 /\ gf_mul(x, 0) = 0 /\ gf_mul(y, 0) = 0 /\ Xor(0, 0) = 0
      BY <1>1, MulLaws, XorLaws
    <3> QED BY <2>1, <3>1
  <2>2. CASE z # 0
    <3>1. PICK i \in Nat : z = Power[i]
      BY <2>2, IsPower
    <3>2. i \in T
      BY <1>4
    <3> QED BY <3>1, <3>2
  <2> QED BY <2>1, <2>2
<1>6. /\ gf_mul(Xor(x, y), z) = gf_mul(z, Xor(x, y))
      /\ gf_mul(x, z) = gf_mul(z, x) /\ gf_mul(y, z) = gf_mul(z, y)
  BY <1>1, MulLaws
<1> QED BY <1>5, <1>6

LEMMA InverseIs ==
  ASSUME NEW x \in gf, x # 0
  PROVE  /\ inverse[x] \in gf /\ inverse[x] # 0
         /\ gf_mul(x, inverse[x]) = 1 /\ gf_mul(inverse[x], x) = 1
<1>1. GF_SIZE \in Nat \ {0} /\ 0 \in gf /\ 1 \in gf /\ 1 # 0
  BY FieldSizes
<1>2. inverse[x] \in gf /\ gf_mul(x, inverse[x]) = 1
  <2>1. CASE x = 1
    <3>1. inverse[x] = 1 /\ gf_mul(1, 1) = 1
      BY <1>1, <2>1, MulLaws DEF inverse
    <3> QED BY <1>1, <2>1, <3>1
  <2>2. CASE x # 1
    <3>1. PICK i \in 0..GF_SIZE - 1 : i = gf_log[x] /\ Power[i] = x
      BY LogIs
    <3>2. i # 0
      BY <2>2, <3>1, PowerIs
    <3>3. PICK j \in Nat : j = GF_SIZE - i /\ j < GF_SIZE /\ j \in 0..2 * GF_SIZE - 1 /\ i + j = GF_SIZE
      BY <1>1, <3>2
    <3>4. inverse[x] = gf_exp[j]
      BY <2>2, <3>1, <3>3 DEF inverse
    <3>5. gf_exp[j] = Power[j] /\ Power[j] \in gf
      BY <3>3, ExpIs, PowerIs
    <3>6. gf_mul(Power[i], Power[j]) = Power[i + j]
      BY MulPowers
    <3>7. Power[0 + GF_SIZE] = Power[0] /\ 0 + GF_SIZE = GF_SIZE
      BY <1>1, PowersTurn
    <3>8. Power[GF_SIZE] = 1
      BY <3>7, PowerIs
    <3> QED BY <3>1, <3>3, <3>4, <3>5, <3>6, <3>8
  <2> QED BY <2>1, <2>2
<1>3. gf_mul(inverse[x], x) = 1 /\ inverse[x] # 0
  BY <1>1, <1>2, MulLaws
<1> QED BY <1>2, <1>3

\* A number is the exclusive or of its last bit and the others.
LEMMA LastBit ==
  ASSUME NEW y \in gf
  PROVE  /\ y \div 2 \in gf /\ y \div 2 < HIGH /\ y % 2 \in {0, 1}
         /\ y = Xor(y % 2, TimesX(y \div 2))
<1>1. HIGH \in Nat /\ gf = 0..2 * HIGH - 1 /\ 0 \in gf /\ 1 \in gf
  BY FieldSizes
<1>2. PICK a \in Nat, b \in {0, 1} : a = y \div 2 /\ b = y % 2 /\ y = 2 * a + b
  <2>1. y \in Nat
    BY <1>1
  <2> QED BY <2>1, Halved
<1>3. a \in gf /\ a < HIGH /\ 2 * a \in gf /\ b \in gf
  BY <1>1, <1>2
<1>4. TimesX(a) = 2 * a
  BY <1>3, TimesXIn
<1>5. Xor(b, 2 * a) = y
  <2>1. Xor(b, 2 * a) = XorOf[<<b, 2 * a>>] /\ b \in Nat /\ 2 * a \in Nat
    BY <1>3, XorLaws
  <2>2. b \div 2 = 0 /\ (2 * a) \div 2 = a /\ (b + 2 * a) % 2 = b
    BY <1>2
  <2>3. XorOf[<<b, 2 * a>>] = 2 * XorOf[<<b \div 2, (2 * a) \div 2>>] + ((b + 2 * a) % 2)
    BY <2>1, XorBits
  <2>4. XorOf[<<0, a>>] = Xor(0, a) /\ Xor(0, a) = a
    BY <1>1, <1>3, XorLaws
  <2>5. XorOf[<<b, 2 * a>>] = 2 * a + b
    BY <2>2, <2>3, <2>4
  <2> QED BY <1>2, <2>1, <2>5
<1> QED BY <1>2, <1>3, <1>4, <1>5

\* The tables are those of the polynomials modulo that of allPp.
LEMMA ProductIs ==
  ASSUME NEW x \in gf, NEW y \in gf
  PROVE  Product[<<x, y>>] = IF y = 0 THEN 0
                             ELSE Xor(IF y % 2 = 1 THEN x ELSE 0, TimesX(Product[<<x, y \div 2>>]))
<1> DEFINE P == gf \X gf
           B == {p \in P : p[2] = 0}
           base == [p \in P |-> 0]
           next == [p \in P |-> <<p[1], p[2] \div 2>>]
           h == [q \in gf \X P |-> Xor(IF q[2][2] % 2 = 1 THEN q[2][1] ELSE 0, TimesX(q[1]))]
           measure == [p \in P |-> p[2]]
<1>1. HIGH \in Nat /\ gf = 0..2 * HIGH - 1 /\ 0 \in gf
  BY FieldSizes
<1>2. \A v \in gf : v \div 2 \in gf
  BY LastBit
<1>3. base \in [P -> gf] /\ next \in [P -> P]
  BY <1>1, <1>2
<1>4. measure \in [P -> Nat]
  BY <1>1
<1>5. h \in [gf \X P -> gf]
  <2> SUFFICES ASSUME NEW q \in gf \X P
               PROVE  Xor(IF q[2][2] % 2 = 1 THEN q[2][1] ELSE 0, TimesX(q[1])) \in gf
    OBVIOUS
  <2>1. (IF q[2][2] % 2 = 1 THEN q[2][1] ELSE 0) \in gf /\ TimesX(q[1]) \in gf
    BY <1>1, TimesXIn
  <2> QED BY <2>1, XorLaws
<1>6. ASSUME NEW p \in P \ B PROVE measure[next[p]] < measure[p]
  <2>1. PICK u \in gf, v \in gf : p = <<u, v>> /\ v # 0
    OBVIOUS
  <2>2. <<u, v \div 2>> \in P /\ v \in Nat
    BY <1>1, <1>2
  <2>3. next[p] = <<u, v \div 2>> /\ measure[p] = v
    BY <2>1
  <2>4. measure[<<u, v \div 2>>] = v \div 2
    BY <2>2
  <2>5. v \div 2 < v
    BY <2>1, <2>2
  <2> QED BY <2>3, <2>4, <2>5
<1>7. /\ \A u, v \in gf : /\ next[<<u, v>>] = <<u, v \div 2>> /\ base[<<u, v>>] = 0
                          /\ <<u, v>> \in B <=> v = 0
      /\ \A u, v, w \in gf : h[<<w, <<u, v>>>>] = Xor(IF v % 2 = 1 THEN u ELSE 0, TimesX(w))
  OBVIOUS
<1> HIDE DEF B, base, next, h, measure
<1>8. PICK F \in [P -> gf] : Calls(F, P, base, next, h, B)
  BY <1>3, <1>4, <1>5, <1>6, RecursionExists
<1>9. ASSUME NEW u \in gf, NEW v \in gf
      PROVE  F[<<u, v>>] = IF v = 0 THEN 0
                           ELSE Xor(IF v % 2 = 1 THEN u ELSE 0, TimesX(F[<<u, v \div 2>>]))
  <2>1. F[<<u, v>>] = IF <<u, v>> \in B THEN base[<<u, v>>]
                      ELSE h[<<F[next[<<u, v>>]], <<u, v>>>>]
    BY <1>8 DEF Calls
  <2>2. F[<<u, v \div 2>>] \in gf
    BY <1>2, <1>8
  <2> QED BY <1>7, <2>1, <2>2, SMTT(30)
<1>10. ASSUME NEW p \in P
       PROVE  F[p] = IF p[2] = 0 THEN 0
                     ELSE Xor(IF p[2] % 2 = 1 THEN p[1] ELSE 0, TimesX(F[<<p[1], p[2] \div 2>>]))
  <2>1. p = <<p[1], p[2]>> /\ p[1] \in gf /\ p[2] \in gf
    OBVIOUS
  <2> QED BY <1>9, <2>1
<1>11. F = [p \in P |-> IF p[2] = 0 THEN 0
                        ELSE Xor(IF p[2] % 2 = 1 THEN p[1] ELSE 0,
                                 TimesX(F[<<p[1], p[2] \div 2>>]))]
  BY <1>8, <1>10
<1>12. Product = [p \in P |-> IF p[2] = 0 THEN 0
                              ELSE Xor(IF p[2] % 2 = 1 THEN p[1] ELSE 0,
                                       TimesX(Product[<<p[1], p[2] \div 2>>]))]
  BY <1>11 DEF Product
<1>13. <<x, y>> \in P
  OBVIOUS
<1> HIDE DEF P
<1> QED BY <1>12, <1>13

LEMMA MulIsProduct ==
  ASSUME NEW x \in gf, NEW y \in gf
  PROVE  gf_mul(x, y) = Product[<<x, y>>]
<1> DEFINE T == {n \in Nat : \A v \in gf : v < n => gf_mul(x, v) = Product[<<x, v>>]}
<1>1. gf = 0..2 * HIGH - 1 /\ HIGH \in Nat /\ 0 \in gf /\ 1 \in gf
  BY FieldSizes
<1>2. 0 \in T
  BY <1>1
<1>3. ASSUME NEW v \in gf PROVE gf_mul(x, TimesX(v)) = TimesX(gf_mul(x, v))
  <2>1. CASE v = 0
    <3>1. TimesX(0) = 2 * 0 /\ 2 * 0 = 0
      <4>1. 0 < HIGH
        BY FieldSizes
      <4> QED BY <1>1, <4>1, TimesXIn
    <3>2. gf_mul(x, 0) = 0
      BY MulLaws
    <3> QED BY <2>1, <3>1, <3>2
  <2>2. CASE v # 0
    <3>1. PICK i \in Nat : v = Power[i]
      BY <2>2, IsPower
    <3>2. TimesX(v) = Power[i + 1]
      BY <3>1, PowerIs
    <3> QED BY <3>1, <3>2, MulNextPower
  <2> QED BY <2>1, <2>2
<1>4. ASSUME NEW v \in gf, v # 0, gf_mul(x, v \div 2) = Product[<<x, v \div 2>>]
      PROVE  gf_mul(x, v) = Product[<<x, v>>]
  <2>1. /\ v \div 2 \in gf /\ v % 2 \in {0, 1} /\ v = Xor(v % 2, TimesX(v \div 2))
        /\ v % 2 \in gf /\ TimesX(v \div 2) \in gf
    BY <1>1, LastBit, TimesXIn
  <2>2. gf_mul(x, Xor(v % 2, TimesX(v \div 2)))
          = Xor(gf_mul(x, v % 2), gf_mul(x, TimesX(v \div 2)))
    BY <2>1, Distributes
  <2>3. gf_mul(x, TimesX(v \div 2)) = TimesX(Product[<<x, v \div 2>>])
    BY <1>3, <1>4, <2>1
  <2>4. gf_mul(x, v % 2) = IF v % 2 = 1 THEN x ELSE 0
    <3>1. gf_mul(x, 0) = 0 /\ gf_mul(x, 1) = x
      BY MulLaws
    <3> QED BY <2>1, <3>1
  <2>5. Product[<<x, v>>] = Xor(IF v % 2 = 1 THEN x ELSE 0, TimesX(Product[<<x, v \div 2>>]))
    BY <1>4, ProductIs
  <2> QED BY <2>1, <2>2, <2>3, <2>4, <2>5
<1>5. ASSUME NEW n \in Nat, n \in T PROVE n + 1 \in T
  <2> SUFFICES ASSUME NEW v \in gf, v < n + 1 PROVE gf_mul(x, v) = Product[<<x, v>>]
    OBVIOUS
  <2>1. CASE v = 0
    <3>1. Product[<<x, 0>>] = 0 /\ gf_mul(x, 0) = 0
      BY <1>1, ProductIs, MulLaws
    <3> QED BY <2>1, <3>1
  <2>2. CASE v # 0
    <3>1. v \div 2 \in gf /\ v \div 2 < n
      <4>1. v \div 2 < v /\ v \in Nat /\ v \div 2 \in Nat
        BY <1>1, <2>2
      <4> QED BY <4>1, LastBit
    <3>2. gf_mul(x, v \div 2) = Product[<<x, v \div 2>>]
      BY <1>5, <3>1
    <3> QED BY <1>4, <2>2, <3>2
  <2> QED BY <2>1, <2>2
<1>6. Nat \subseteq T
  <2> HIDE DEF T
  <2> QED BY <1>2, <1>5, Induction
<1>7. y + 1 \in Nat /\ y < y + 1
  BY <1>1
<1>8. y + 1 \in T
  <2> HIDE DEF T
  <2> QED BY <1>6, <1>7
<1> QED BY <1>7, <1>8

\* The table of products and the table of inverses that init_mul_table and
\* generate_gf make from the powers of alpha are right, for every size of the
\* field: the powers are all elements but 0, products are those of polynomials,
\* and every element but 0 has its inverse.
THEOREM TablesAreAField == TablesDescribeField
<1>1. 0 \in gf
  BY FieldSizes
<1>2. \A x, y \in gf : gf_mul(x, y) = Product[<<x, y>>]
  BY MulIsProduct
<1>3. \A x \in gf \ {0} : gf_mul(x, inverse[x]) = 1
  BY InverseIs
<1> QED BY <1>2, <1>3, PolynomialsPrimitive DEF TablesDescribeField
=============================================================================
