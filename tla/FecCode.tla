------------------------------- MODULE FecCode -------------------------------
(***************************************************************************)
(* The forward error correction code of fec.c: arithmetic in GF(2^GF_BITS) *)
(* by tables, inversion of a matrix by Gauss-Jordan elimination, and the   *)
(* systematic code whose parity coefficient of column col in row row is    *)
(* 1/(row - col).  The program fixes GF_BITS = 8 and UNROLL = 16; both are *)
(* constants here so that every erasure can be tried on a small field.     *)
(* Arrays keep the indices of the C code and start at 0.                   *)
(***************************************************************************)
EXTENDS Integers, Sequences, FiniteSets, SequencesExt

CONSTANTS GF_BITS, \* logarithm of the size of the field
          UNROLL   \* symbols handled by one turn of the unrolled loops

ASSUME FecAssumption == GF_BITS \in 2..8 /\ UNROLL \in Nat \ {0}

\* 1 << n
Two[n \in Nat] == IF n = 0 THEN 1 ELSE 2 * Two[n - 1]

GF_SIZE == Two[GF_BITS] - 1

\* Half of the field: the numbers of the parity rows have this bit, those of
\* the data columns do not (the literal 128 of the code).
HIGH == Two[GF_BITS - 1]

gf == 0..GF_SIZE

\* The exclusive or of two numbers: addition and subtraction of the field.
XorOf[p \in Nat \X Nat] ==
  IF p = <<0, 0>> THEN 0
  ELSE 2 * XorOf[<<p[1] \div 2, p[2] \div 2>>] + ((p[1] + p[2]) % 2)

XorTable == [p \in gf \X gf |-> XorOf[p]]

Xor(x, y) == XorTable[<<x, y>>]

-----------------------------------------------------------------------------
(* Tables *)

\* Coefficients of the primitive polynomials of degree 1 to 8, constant first.
allPp == << <<>>, <<1,1,1>>, <<1,1,0,1>>, <<1,1,0,0,1>>, <<1,0,1,0,0,1>>,
            <<1,1,0,0,0,0,1>>, <<1,0,0,1,0,0,0,1>>, <<1,0,1,1,1,0,0,0,1>> >>

\* Sum of the powers below i that occur in the polynomial; at GF_BITS, alpha^GF_BITS.
LowPowers[i \in 0..GF_BITS] ==
  IF i = 0 THEN 0 ELSE LowPowers[i - 1] + allPp[GF_BITS][i] * Two[i - 1]

\* Multiplication by alpha: a bit shifted out is alpha^GF_BITS.
TimesX(x) == IF x < HIGH THEN 2 * x ELSE Xor(LowPowers[GF_BITS], Xor(x, HIGH) * 2)

\* The loops of generate_gf: each power of alpha from the one before.
Power[i \in Nat] ==
  IF i < GF_BITS THEN Two[i]
  ELSE IF i = GF_BITS THEN LowPowers[GF_BITS]
  ELSE TimesX(Power[i - 1])

\* The second half is a copy that spares a reduction.
gf_exp == [i \in 0..2 * GF_SIZE - 1 |-> Power[i % GF_SIZE]]

gf_log == [x \in gf |-> IF x = 0 THEN GF_SIZE
                        ELSE CHOOSE i \in 0..GF_SIZE - 1 : gf_exp[i] = x]

\* The inverse table with the index its comment has, one too low.
InverseMutant == [x \in gf |-> IF x \in {0, 1} THEN x ELSE gf_exp[GF_SIZE - gf_log[x] - 1]]

inverse == [x \in gf |-> IF x \in {0, 1} THEN x ELSE gf_exp[GF_SIZE - gf_log[x]]]

\* x % GF_SIZE without a division.
modnn[x \in Nat] ==
  IF x < GF_SIZE THEN x
  ELSE LET y == x - GF_SIZE
       IN  modnn[(y \div (GF_SIZE + 1)) + (y % (GF_SIZE + 1))]

gf_mul_table ==
  [p \in gf \X gf |-> IF p[1] = 0 \/ p[2] = 0 THEN 0
                     ELSE gf_exp[modnn[gf_log[p[1]] + gf_log[p[2]]]]]

gf_mul(x, y) == gf_mul_table[<<x, y>>]

-----------------------------------------------------------------------------
(* Blocks: one symbol stands for a block, for every operation treats the *)
(* symbols of a block alike and apart                                    *)

\* Where the turns of the unrolled loop start: a whole turn must fit.
Turns(size) == {p \in 0..size : p % UNROLL = 0 /\ p < size - UNROLL + 1}

UnrolledPart(size) == {p + j : p \in Turns(size), j \in 0..UNROLL - 1}

\* The positions left to the final loop.
FinalPart(size) == UNROLL * Cardinality(Turns(size))..size - 1

\* dst + c * src and c * src.
addmul(dst, src, c) == IF c = 0 THEN dst ELSE Xor(dst, gf_mul(c, src))
mul(src, c) == IF c = 0 THEN 0 ELSE gf_mul(c, src)

-----------------------------------------------------------------------------
(* invert_mat: matrices of order k are sequences of rows *)

\* The sequence of E(1), ..., E(n).
Listed(n, E(_)) == <<>> \o [i \in 1..n |-> E(i)]

Matrix(k, E(_, _)) == Listed(k, LAMBDA r : Listed(k, LAMBDA c : E(r, c)))

\* Where the pivot of a column is taken: on the diagonal if it can be, else at
\* the first non-zero element of a row and a column not used before; <<>> when
\* there is none.
Pivot(m, k, used, col) ==
  LET free == {p \in (1..k) \X (1..k) : p[1] \notin used /\ p[2] \notin used
                                        /\ m[p[1]][p[2]] # 0}
      Before(p, q) == p[1] < q[1] \/ (p[1] = q[1] /\ p[2] <= q[2])
  IN  IF col \notin used /\ m[col][col] # 0 THEN <<col, col>>
      ELSE IF free = {} THEN <<>>
      ELSE CHOOSE p \in free : \A q \in free : Before(p, q)

Exchanged(i, a, b) == IF i = a THEN b ELSE IF i = b THEN a ELSE i

SwapRows(m, k, a, b) == Matrix(k, LAMBDA r, c : m[Exchanged(r, a, b)][c])
SwapColumns(m, k, a, b) == Matrix(k, LAMBDA r, c : m[r][Exchanged(c, a, b)])

\* The pivot row divided by the pivot, whose place takes the inverse.
Normalise(m, k, icol) ==
  LET pivot == m[icol][icol]
  IN  IF pivot = 1 THEN m
      ELSE Matrix(k, LAMBDA r, c :
                       IF r # icol THEN m[r][c]
                       ELSE gf_mul(inverse[pivot], IF c = icol THEN 1 ELSE m[r][c]))

\* Multiples of the pivot row removed from the other rows, unless the pivot row
\* is the identity's.
Eliminate(m, k, icol) ==
  IF \A c \in 1..k : m[icol][c] = IF c = icol THEN 1 ELSE 0 THEN m
  ELSE Matrix(k, LAMBDA r, c :
                   IF r = icol THEN m[r][c]
                   ELSE addmul(IF c = icol THEN 0 ELSE m[r][c], m[icol][c], m[r][icol]))

\* The columns swapped back, first pivot first.
UndoSwapsMutant(m, k, pivots) ==
  LET Undone[i \in 0..k] == IF i = 0 THEN m
                            ELSE SwapColumns(Undone[i - 1], k, pivots[i][1], pivots[i][2])
  IN  Undone[k]

\* The columns swapped back, last pivot first.
UndoSwaps(m, k, pivots) ==
  LET Undone[i \in 1..k + 1] == IF i = k + 1 THEN m
                                ELSE SwapColumns(Undone[i + 1], k, pivots[i][1], pivots[i][2])
  IN  Undone[1]

\* The turns of the loop over the columns.
Turn(st, k, col) ==
  LET pivot == Pivot(st.m, k, st.used, col)
  IN  IF ~st.ok \/ pivot = <<>> THEN [st EXCEPT !.ok = FALSE]
      ELSE [m |-> Eliminate(Normalise(SwapRows(st.m, k, pivot[1], pivot[2]),
                                      k, pivot[2]), k, pivot[2]),
            used |-> st.used \cup {pivot[2]},
            pivots |-> Append(st.pivots, pivot),
            ok |-> TRUE]

\* The inverse of a matrix; "ok" is FALSE for the non-zero result of the code.
invert_mat(src, k) ==
  LET After[col \in 0..k] ==
        IF col = 0 THEN [m |-> src, used |-> {}, pivots |-> <<>>, ok |-> TRUE]
        ELSE Turn(After[col - 1], k, col)
      st == After[k]
  IN  [ok |-> st.ok, m |-> IF st.ok THEN UndoSwaps(st.m, k, st.pivots) ELSE st.m]

-----------------------------------------------------------------------------
(* Encoding and decoding of a group: data blocks are numbered from 0 *)

\* A parity block: the first data block sets it, the others are added.
fec_encode(data, n, row) ==
  LET Sum[col \in 0..n - 1] ==
        IF col = 0 THEN mul(data[0], inverse[Xor(HIGH, row)])
        ELSE addmul(Sum[col - 1], data[col], inverse[Xor(row, Xor(HIGH, col))])
  IN  IF n = 0 THEN 0 ELSE Sum[n - 1]

\* The parity blocks less what the data blocks that arrived contribute to them.
reduce(data, n, fec, fecNos, erased) ==
  Listed(Len(fec), LAMBDA j :
    LET Rest[col \in 0..n] ==
          IF col = 0 THEN fec[j]
          ELSE IF col - 1 \in Range(erased) THEN Rest[col - 1]
          ELSE addmul(Rest[col - 1], data[col - 1],
                      inverse[Xor(Xor(fecNos[j], col - 1), HIGH)])
    IN  Rest[n])

\* The part of the code for the parity rows at hand and the erased columns.
MiniMatrix(fecNos, erased) ==
  Matrix(Len(erased), LAMBDA r, c : inverse[Xor(HIGH + fecNos[r], erased[c])])

\* The erased blocks, from the reduced parity and the inverse of that part.
resolve(fec, fecNos, erased) ==
  LET k == Len(erased)
      matrix == invert_mat(MiniMatrix(fecNos, erased), k).m
  IN  Listed(k, LAMBDA row :
        LET Sum[col \in 1..k] ==
              IF col = 1 THEN mul(fec[1], matrix[row][1])
              ELSE addmul(Sum[col - 1], fec[col], matrix[row][col])
        IN  Sum[k])

\* erased_blocks: the places in their group of blocks that did not arrive, in order.
Ascending(places) ==
  CHOOSE s \in [1..Cardinality(places) -> places] : \A i, j \in DOMAIN s : i < j => s[i] < s[j]

fec_decode(data, n, fec, fecNos, erased) ==
  LET repaired == resolve(reduce(data, n, fec, fecNos, erased), fecNos, erased)
  IN  [b \in 0..n - 1 |-> IF b \in Range(erased)
                          THEN repaired[CHOOSE i \in DOMAIN erased : erased[i] = b]
                          ELSE data[b]]

-----------------------------------------------------------------------------
(* What the code promises *)

\* The polynomial of the table is primitive: the powers of alpha run through
\* every element but 0 (allPp, generate_gf).
Primitive == {gf_exp[i] : i \in 0..GF_SIZE - 1} = gf \ {0}

\* The product of two polynomials modulo that of the table, bit by bit.
Product[p \in gf \X gf] ==
  IF p[2] = 0 THEN 0
  ELSE Xor(IF p[2] % 2 = 1 THEN p[1] ELSE 0, TimesX(Product[<<p[1], p[2] \div 2>>]))

\* The tables describe a field: multiplication is that of polynomials modulo
\* the primitive one, whose powers of x never repeat, and every element but 0
\* has the inverse the table gives (generate_gf, init_mul_table).
TablesDescribeField ==
  /\ Primitive
  /\ \A x, y \in gf : gf_mul(x, y) = Product[<<x, y>>]
  /\ \A x \in gf \ {0} : gf_mul(x, inverse[x]) = 1

\* The unrolled loop and the final loop of addmul and mul visit every symbol of
\* a block, and none twice, whatever the size of the block.
LoopsVisitEverySymbolOnce ==
  \A size \in 0..3 * UNROLL :
    /\ UnrolledPart(size) \cup FinalPart(size) = 0..size - 1
    /\ UnrolledPart(size) \cap FinalPart(size) = {}

\* f[1] + ... + f[n] in the field.
Total(f, n) ==
  LET Sum[i \in 0..n] == IF i = 0 THEN 0 ELSE Xor(Sum[i - 1], f[i])
  IN  Sum[n]

Dot(u, v, k) == Total([i \in 1..k |-> gf_mul(u[i], v[i])], k)

\* invert_mat fails exactly on the matrices that send a non-zero vector to
\* zero, and otherwise returns the matrix whose product with its argument is
\* the identity, whatever rows it had to exchange.
InvertsExactly(src, k) ==
  LET singular == \E v \in [1..k -> gf] :
                    (\E i \in 1..k : v[i] # 0) /\ \A r \in 1..k : Dot(src[r], v, k) = 0
      inverted == invert_mat(src, k)
  IN  /\ inverted.ok = ~singular
      /\ inverted.ok =>
           \A r, c \in 1..k :
             Dot(src[r], [i \in 1..k |-> inverted.m[i][c]], k) = IF r = c THEN 1 ELSE 0

\* The matrices of zeros and ones need every kind of pivot search.
InversionIsExact(k) ==
  \A src \in [1..k -> [1..k -> {0, 1}]] : InvertsExactly(src, k)

\* Any r parity blocks of a group, in whatever order they arrived, repair any r
\* lost data blocks of it (manual, --fec), whatever the place of those holds.
AnyParityRepairsAnyErasure(most) ==
  \A n \in 1..most, redundancy \in 1..most :
    LET data == [b \in 0..n - 1 |-> (3 * b + 1) % (GF_SIZE + 1)]
        parity == [row \in 0..redundancy - 1 |-> fec_encode(data, n, row)]
    IN  \A lost \in SUBSET (0..n - 1) :
          \A rows \in {s \in [1..Cardinality(lost) -> 0..redundancy - 1] : IsInjective(s)} :
            fec_decode([b \in 0..n - 1 |-> IF b \in lost THEN GF_SIZE ELSE data[b]], n,
                       [j \in DOMAIN rows |-> parity[rows[j]]], rows,
                       Ascending(lost)) = data
=============================================================================
