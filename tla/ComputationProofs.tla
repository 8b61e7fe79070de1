-------------------------- MODULE ComputationProofs --------------------------
(***************************************************************************)
(* The computations behind a review, for every size: the sums of amounts   *)
(* of any number of bytes in any base, the check of a key path and its     *)
(* text, BLAKE-256 over pieces of any lengths, and the decimal text of     *)
(* amounts of any number of bytes.                                         *)
(***************************************************************************)
EXTENDS AmountSums, AmountDisplay, KeyPath, HashBuffer, Induction, SequenceTheorems

-----------------------------------------------------------------------------
\* The recursive functions of AmountSums.

\* v computes the values of the first bytes of x.
Evaluates(v, x) ==
  v = [k \in 0 .. Width |-> IF k = 0 THEN 0 ELSE v[k - 1] * ByteValues + x[k]]

\* The value of the first k bytes, and what it adds up to.
LEMMA ValueExists ==
  ASSUME NEW x \in Amounts
  PROVE  \E v : Evaluates(v, x)
  <1> DEFINE step == [p \in Nat \X (1 .. Width) |-> p[1] * ByteValues + x[p[2]]]
  <1>1. Width \in Nat /\ ByteValues \in Nat
    BY SumsAssumption
  <1>2. \A k \in 1 .. Width : x[k] \in Nat
    BY <1>1 DEF Amounts, Bytes
  <1>3. step \in [Nat \X (1 .. Width) -> Nat]
    BY <1>1, <1>2
  <1>4. \A n \in Nat, k \in 1 .. Width : step[<<n, k>>] = n * ByteValues + x[k]
    OBVIOUS
  <1> HIDE DEF step
  <1>9. PICK g \in [0 .. Width -> Nat] : Iterates(g, 0, step, Width)
    <2>1. 0 \in Nat
      OBVIOUS
    <2>2. QED
      BY <1>1, <1>3, <2>1, RecursionExists, Zenon
  <1>5. g[0] = 0 /\ \A k \in 1 .. Width : g[k] = step[<<g[k - 1], k>>]
    BY <1>9 DEF Iterates
  <1>6. ASSUME NEW k \in 0 .. Width
        PROVE  g[k] = IF k = 0 THEN 0 ELSE g[k - 1] * ByteValues + x[k]
    <2>1. CASE k = 0
      BY <1>5, <2>1
    <2>2. CASE k # 0
      <3>1. k \in 1 .. Width /\ k - 1 \in 0 .. Width
        BY <2>2, <1>1
      <3>2. g[k - 1] \in Nat
        BY <3>1, <1>5
      <3>3. QED
        BY <3>1, <3>2, <1>4, <1>5, <2>2
    <2>3. QED
      BY <2>1, <2>2
  <1>7. Evaluates(g, x)
    BY <1>5, <1>6 DEF Evaluates
  <1>8. QED
    BY <1>7

\* The value of the first k bytes, for every k.
Values(v, x) ==
  /\ v \in [0 .. Width -> Nat]
  /\ v[0] = 0
  /\ \A k \in 1 .. Width : v[k] = v[k - 1] * ByteValues + x[k]

LEMMA ValueSteps ==
  ASSUME NEW x \in Amounts
  PROVE  \E v : Values(v, x) /\ ValueOf(x) = v[Width]
  <1> DEFINE v == CHOOSE v : Evaluates(v, x)
             T == {n \in Nat : n <= Width => v[n] \in Nat}
  <1>1. Evaluates(v, x)
    BY ValueExists
  <1>2. ValueOf(x) = v[Width]
    BY Zenon DEF ValueOf, Evaluates
  <1> HIDE DEF v
  <1>3. Width \in Nat /\ ByteValues \in Nat
    BY SumsAssumption
  <1>4. \A k \in 1 .. Width : x[k] \in Nat
    BY <1>3 DEF Amounts, Bytes
  <1>5. v[0] = 0 /\ \A k \in 1 .. Width : v[k] = v[k - 1] * ByteValues + x[k]
    <2>1. ASSUME NEW k \in 0 .. Width
          PROVE  v[k] = IF k = 0 THEN 0 ELSE v[k - 1] * ByteValues + x[k]
      BY <1>1, Zenon DEF Evaluates
    <2>2. 0 \in 0 .. Width /\ \A k \in 1 .. Width : k \in 0 .. Width /\ k # 0
      BY <1>3
    <2>3. QED
      BY <2>1, <2>2
  <1>6. 0 \in T
    BY <1>5
  <1>7. ASSUME NEW n \in Nat, n \in T
        PROVE  n + 1 \in T
    <2>1. SUFFICES ASSUME n + 1 <= Width
                   PROVE  v[n + 1] \in Nat
      OBVIOUS
    <2>2. n + 1 \in 1 .. Width /\ (n + 1) - 1 = n
      BY <2>1, <1>3
    <2>3. v[n] \in Nat
      BY <1>7, <2>1, <1>3
    <2>4. v[n + 1] = v[n] * ByteValues + x[n + 1] /\ x[n + 1] \in Nat
      BY <1>4, <1>5, <2>2
    <2>5. QED
      BY <2>3, <2>4, <1>3
  <1> HIDE DEF T
  <1>8. Nat \subseteq T
    BY <1>6, <1>7, NaturalsIn
  <1>9. ASSUME NEW k \in 0 .. Width
        PROVE  v[k] \in Nat
    BY <1>8, <1>3 DEF T
  <1>10. v = [k \in 0 .. Width |-> v[k]]
    BY <1>1, Zenon DEF Evaluates
  <1>11. v \in [0 .. Width -> Nat]
    BY <1>9, <1>10
  <1>12. QED
    BY <1>2, <1>5, <1>11 DEF Values

-----------------------------------------------------------------------------
\* Sums, byte by byte: c[k] is what is carried into byte k, c[0] what is carried
\* out of the first.
Carries(t, c, x, y) ==
  /\ c \in [0 .. Width -> {0, 1}]
  /\ c[Width] = 0
  /\ \A k \in 1 .. Width : x[k] + y[k] + c[k] = t[k] + ByteValues * c[k - 1]

\* A product grows with its factor.
LEMMA ProductGrows ==
  ASSUME NEW a \in Nat, NEW b \in Nat, NEW m \in Nat, a <= b
  PROVE  a * m <= b * m
  <1>1. b = a + (b - a) /\ b - a \in Nat
    OBVIOUS
  <1>2. (a + (b - a)) * m = a * m + (b - a) * m
    BY <1>1, Distribute
  <1>3. (b - a) * m \in Nat /\ a * m \in Nat
    BY <1>1
  <1>4. QED
    BY <1>1, <1>2, <1>3

\* The largest amount.
AllOnes == [i \in 1 .. Width |-> ByteValues - 1]

LEMMA AllOnesType == AllOnes \in Amounts /\ Zero \in Amounts
  <1>1. ByteValues \in Nat /\ ByteValues >= 1
    BY SumsAssumption
  <1>2. 0 \in Bytes /\ ByteValues - 1 \in Bytes
    BY <1>1 DEF Bytes
  <1>3. QED
    BY <1>2 DEF AllOnes, Zero, Amounts

LEMMA ValueBound ==
  ASSUME NEW x \in Amounts
  PROVE  ValueOf(x) \in Nat /\ AmountSpan \in Nat /\ ValueOf(x) < AmountSpan
  <1>1. PICK v : Values(v, x) /\ ValueOf(x) = v[Width]
    BY ValueSteps
  <1>2. PICK w : Values(w, AllOnes) /\ ValueOf(AllOnes) = w[Width]
    BY ValueSteps, AllOnesType
  <1>3. Width \in Nat /\ ByteValues \in Nat
    BY SumsAssumption
  <1> DEFINE T == {n \in Nat : n <= Width => v[n] <= w[n]}
  <1>4. 0 \in T
    BY <1>1, <1>2 DEF Values
  <1>5. ASSUME NEW n \in Nat, n \in T
        PROVE  n + 1 \in T
    <2>1. SUFFICES ASSUME n + 1 <= Width
                   PROVE  v[n + 1] <= w[n + 1]
      OBVIOUS
    <2>2. n + 1 \in 1 .. Width /\ n \in 0 .. Width /\ (n + 1) - 1 = n
      BY <2>1, <1>3
    <2>3. v[n] \in Nat /\ w[n] \in Nat /\ v[n] <= w[n]
      BY <1>1, <1>2, <1>5, <2>1, <2>2, <1>3 DEF Values
    <2>4. x[n + 1] \in Nat /\ x[n + 1] <= ByteValues - 1
      BY <2>2, <1>3 DEF Amounts, Bytes
    <2>5. v[n] * ByteValues <= w[n] * ByteValues
      BY <2>3, <1>3, ProductGrows
    <2>6. v[n + 1] = v[n] * ByteValues + x[n + 1]
      BY <1>1, <2>2 DEF Values
    <2>7. w[n + 1] = w[n] * ByteValues + (ByteValues - 1)
      BY <1>2, <2>2 DEF Values, AllOnes
    <2>8. v[n] * ByteValues \in Nat /\ w[n] * ByteValues \in Nat
      BY <2>3, <1>3
    <2>9. QED
      BY <2>4, <2>5, <2>6, <2>7, <2>8, <1>3
  <1> HIDE DEF T
  <1>6. Nat \subseteq T
    BY <1>4, <1>5, NaturalsIn
  <1>7. v[Width] <= w[Width]
    BY <1>6, <1>3 DEF T
  <1>8. v[Width] \in Nat /\ w[Width] \in Nat
    BY <1>1, <1>2, <1>3 DEF Values
  <1>9. AmountSpan = w[Width] + 1
    BY <1>2 DEF AmountSpan, AllOnes
  <1>10. QED
    BY <1>1, <1>7, <1>8, <1>9

\* Carried byte by byte, the sum is that of the values, up to one span.
LEMMA CarriedSum ==
  ASSUME NEW x \in Amounts, NEW y \in Amounts, NEW t \in Amounts, NEW c, Carries(t, c, x, y)
  PROVE  ValueOf(x) + ValueOf(y) = ValueOf(t) + IF c[0] = 1 THEN AmountSpan ELSE 0
  <1>1. PICK a : Values(a, x) /\ ValueOf(x) = a[Width]
    BY ValueSteps
  <1>2. PICK b : Values(b, y) /\ ValueOf(y) = b[Width]
    BY ValueSteps
  <1>3. PICK v : Values(v, t) /\ ValueOf(t) = v[Width]
    BY ValueSteps
  <1>4. PICK w : Values(w, AllOnes) /\ ValueOf(AllOnes) = w[Width]
    BY ValueSteps, AllOnesType
  <1>5. Width \in Nat /\ ByteValues \in Nat
    BY SumsAssumption
  <1> DEFINE over(k) == IF c[0] = 1 THEN w[k] + 1 ELSE 0
             T == {n \in Nat : n <= Width => a[n] + b[n] + c[n] = v[n] + over(n)}
  <1>6. 0 \in T
    <2>1. c[0] \in {0, 1}
      BY <1>5 DEF Carries
    <2>2. a[0] = 0 /\ b[0] = 0 /\ v[0] = 0 /\ w[0] = 0
      BY <1>1, <1>2, <1>3, <1>4 DEF Values
    <2>3. QED
      BY <2>1, <2>2
  <1>7. ASSUME NEW n \in Nat, n \in T
        PROVE  n + 1 \in T
    <2>1. SUFFICES ASSUME n + 1 <= Width
                   PROVE  a[n + 1] + b[n + 1] + c[n + 1] = v[n + 1] + over(n + 1)
      OBVIOUS
    <2>2. n + 1 \in 1 .. Width /\ n \in 0 .. Width /\ (n + 1) - 1 = n /\ n + 1 \in 0 .. Width
      BY <2>1, <1>5
    <2>3. a[n] \in Nat /\ b[n] \in Nat /\ v[n] \in Nat /\ w[n] \in Nat
      BY <1>1, <1>2, <1>3, <1>4, <2>2 DEF Values
    <2>4. c[n] \in Nat /\ c[n + 1] \in Nat
      BY <2>2 DEF Carries
    <2>5. x[n + 1] \in Nat /\ y[n + 1] \in Nat /\ t[n + 1] \in Nat
      BY <2>2, <1>5 DEF Amounts, Bytes
    <2>6. a[n] + b[n] + c[n] = v[n] + over(n)
      BY <1>7, <2>1, <1>5
    <2>7. a[n + 1] = a[n] * ByteValues + x[n + 1]
      BY <1>1, <2>2 DEF Values
    <2>8. b[n + 1] = b[n] * ByteValues + y[n + 1]
      BY <1>2, <2>2 DEF Values
    <2>9. v[n + 1] = v[n] * ByteValues + t[n + 1]
      BY <1>3, <2>2 DEF Values
    <2>10. w[n + 1] = w[n] * ByteValues + (ByteValues - 1)
      BY <1>4, <2>2 DEF Values, AllOnes
    <2>11. x[n + 1] + y[n + 1] + c[n + 1] = t[n + 1] + ByteValues * c[n]
      BY <2>2 DEF Carries
    <2>12. (a[n] + b[n] + c[n]) * ByteValues
             = a[n] * ByteValues + b[n] * ByteValues + ByteValues * c[n]
      BY <2>3, <2>4, <1>5
    <2>13. over(n) \in Nat /\ (v[n] + over(n)) * ByteValues = v[n] * ByteValues + over(n) * ByteValues
      BY <2>3, <1>5
    <2>14. over(n) * ByteValues = over(n + 1)
      <3>1. CASE c[0] = 1
        <4>1. (w[n] + 1) * ByteValues = w[n] * ByteValues + ByteValues
          BY <2>3, <1>5
        <4>2. QED
          BY <3>1, <4>1, <2>3, <2>10, <1>5
      <3>2. CASE c[0] # 1
        BY <3>2, <1>5
      <3>3. QED
        BY <3>1, <3>2
    <2> DEFINE an == a[n] * ByteValues
               bn == b[n] * ByteValues
               vn == v[n] * ByteValues
               cn == ByteValues * c[n]
               on == over(n + 1)
    <2>15. an \in Int /\ bn \in Int /\ vn \in Int /\ cn \in Int /\ on \in Int
      BY <2>3, <2>4, <1>5, <2>13, <2>14
    <2>16. an + bn + cn = vn + on
      BY <2>6, <2>12, <2>13, <2>14
    <2>17. /\ a[n + 1] = an + x[n + 1] /\ b[n + 1] = bn + y[n + 1] /\ v[n + 1] = vn + t[n + 1]
           /\ x[n + 1] + y[n + 1] + c[n + 1] = t[n + 1] + cn
      BY <2>7, <2>8, <2>9, <2>11
    <2> HIDE DEF an, bn, vn, cn, on
    <2>18. a[n + 1] + b[n + 1] + c[n + 1] = v[n + 1] + on
      BY <2>4, <2>5, <2>15, <2>16, <2>17
    <2>19. QED
      BY <2>18 DEF on
  <1> HIDE DEF T
  <1>8. Nat \subseteq T
    BY <1>6, <1>7, NaturalsIn
  <1>9. a[Width] + b[Width] + c[Width] = v[Width] + over(Width)
    BY <1>8, <1>5 DEF T
  <1>10. c[Width] = 0
    BY DEF Carries
  <1>11. a[Width] \in Nat /\ b[Width] \in Nat
    BY <1>1, <1>2, <1>5 DEF Values
  <1>12. AmountSpan = w[Width] + 1
    BY <1>4 DEF AmountSpan, AllOnes
  <1>13. QED
    BY <1>1, <1>2, <1>3, <1>9, <1>10, <1>11, <1>12

-----------------------------------------------------------------------------
\* The recursions of the two loops.  After i turns the last i bytes are final.
Settles(t) ==
  /\ t \in [0 .. Width -> Amounts]
  /\ \A i \in 1 .. Width, j \in 1 .. Width : j # Width + 1 - i => t[i][j] = t[i - 1][j]

LEMMA Settled ==
  ASSUME NEW t, Settles(t), NEW k \in 1 .. Width
  PROVE  t[Width][k] = t[Width + 1 - k][k]
  <1> DEFINE T == {n \in Nat : n <= k - 1 => t[Width + 1 - k + n][k] = t[Width + 1 - k][k]}
  <1>1. Width \in Nat /\ Width + 1 - k \in 1 .. Width
    BY SumsAssumption
  <1>2. 0 \in T
    BY <1>1
  <1>3. ASSUME NEW n \in Nat, n \in T
        PROVE  n + 1 \in T
    <2>1. SUFFICES ASSUME n + 1 <= k - 1
                   PROVE  t[Width + 1 - k + (n + 1)][k] = t[Width + 1 - k][k]
      OBVIOUS
    <2> DEFINE i == Width + 1 - k + (n + 1)
    <2>2. i \in 1 .. Width /\ k # Width + 1 - i /\ i - 1 = Width + 1 - k + n
      BY <2>1, <1>1
    <2>3. t[i][k] = t[i - 1][k]
      BY <2>2 DEF Settles
    <2>4. t[Width + 1 - k + n][k] = t[Width + 1 - k][k]
      BY <1>3, <2>1
    <2>5. QED
      BY <2>2, <2>3, <2>4
  <1> HIDE DEF T
  <1>4. Nat \subseteq T
    BY <1>2, <1>3, NaturalsIn
  <1>5. k - 1 \in T /\ Width + 1 - k + (k - 1) = Width
    BY <1>1, <1>4
  <1>6. QED
    BY <1>5 DEF T

SumResult == [target : Amounts, carry : {0, 1}]

Adds(r, a, b) ==
  r = [i \in 0 .. Width |-> IF i = 0 THEN [target |-> Zero, carry |-> 0]
                            ELSE SumByte(a, b, r[i - 1], Width + 1 - i)]

\* From r to s byte k of the sum of a and b is set.
SumStep(a, b, r, s, k) ==
  /\ s \in SumResult
  /\ a[k] + b[k] + r.carry = s.target[k] + ByteValues * s.carry
  /\ \A j \in 1 .. Width : j # k => s.target[j] = r.target[j]

\* One byte of a sum.
LEMMA SumByteIs ==
  ASSUME NEW a \in Amounts, NEW b \in Amounts, NEW r \in SumResult, NEW k \in 1 .. Width
  PROVE  SumStep(a, b, r, SumByte(a, b, r, k), k)
  <1> DEFINE val == a[k] + b[k] + r.carry
             s == SumByte(a, b, r, k)
  <1>1. ByteValues \in Nat /\ ByteValues >= 2
    BY SumsAssumption
  <1>2. a[k] \in 0 .. ByteValues - 1 /\ b[k] \in 0 .. ByteValues - 1 /\ r.carry \in {0, 1}
    BY DEF Amounts, Bytes, SumResult
  <1>3. val \in Nat /\ val < 2 * ByteValues
    BY <1>1, <1>2
  <1> HIDE DEF val
  <1>4. /\ val % ByteValues \in Bytes
        /\ val = (val % ByteValues) + ByteValues * (IF val >= ByteValues THEN 1 ELSE 0)
    <2>1. CASE val >= ByteValues
      <3>1. val = ByteValues * 1 + (val - ByteValues) /\ val - ByteValues \in 0 .. ByteValues - 1
        BY <1>1, <1>3, <2>1
      <3>2. val % ByteValues = val - ByteValues
        BY <1>1, <3>1, UniqueRemainder
      <3>3. QED
        BY <1>1, <1>3, <2>1, <3>1, <3>2 DEF Bytes
    <2>2. CASE ~(val >= ByteValues)
      <3>1. val % ByteValues = val
        BY <1>1, <1>3, <2>2
      <3>2. QED
        BY <1>1, <1>3, <2>2, <3>1 DEF Bytes
    <2>3. QED
      BY <2>1, <2>2
  <1>5. /\ s.target = [r.target EXCEPT ![k] = val % ByteValues]
        /\ s.carry = IF val >= ByteValues THEN 1 ELSE 0
        /\ s = [target |-> s.target, carry |-> s.carry]
    BY DEF SumByte, val
  <1>6. r.target \in [1 .. Width -> Bytes]
    BY DEF SumResult, Amounts
  <1> HIDE DEF s
  <1>7. s.target \in Amounts /\ s.target[k] = val % ByteValues
    BY <1>4, <1>5, <1>6 DEF Amounts
  <1>8. \A j \in 1 .. Width : j # k => s.target[j] = r.target[j]
    BY <1>5, <1>6
  <1>9. s \in SumResult
    BY <1>5, <1>7 DEF SumResult
  <1>10. val = s.target[k] + ByteValues * s.carry
    BY <1>4, <1>5, <1>7
  <1>11. SumStep(a, b, r, s, k)
    BY <1>8, <1>9, <1>10 DEF val, SumStep
  <1>12. QED
    BY <1>11 DEF s

LEMMA AddsExists ==
  ASSUME NEW a \in Amounts, NEW b \in Amounts
  PROVE  \E r : Adds(r, a, b)
  <1> DEFINE zero == [target |-> Zero, carry |-> 0]
             step == [p \in SumResult \X (1 .. Width) |-> SumByte(a, b, p[1], Width + 1 - p[2])]
  <1>1. Width \in Nat
    BY SumsAssumption
  <1>2. zero \in SumResult
    BY AllOnesType DEF SumResult
  <1>3. \A i \in 1 .. Width : Width + 1 - i \in 1 .. Width
    BY <1>1
  <1>4. ASSUME NEW p \in SumResult \X (1 .. Width)
        PROVE  SumByte(a, b, p[1], Width + 1 - p[2]) \in SumResult
    <2>1. p[1] \in SumResult /\ Width + 1 - p[2] \in 1 .. Width
      BY <1>3
    <2>2. SumStep(a, b, p[1], SumByte(a, b, p[1], Width + 1 - p[2]), Width + 1 - p[2])
      BY <2>1, SumByteIs, Zenon
    <2>3. QED
      BY <2>2, Zenon DEF SumStep
  <1>5. step \in [SumResult \X (1 .. Width) -> SumResult]
    BY <1>4
  <1>6. \A r \in SumResult, i \in 1 .. Width : step[<<r, i>>] = SumByte(a, b, r, Width + 1 - i)
    OBVIOUS
  <1> HIDE DEF step, zero
  <1>7. PICK g \in [0 .. Width -> SumResult] : Iterates(g, zero, step, Width)
    BY <1>1, <1>2, <1>5, RecursionExists, Zenon
  <1>8. g[0] = zero /\ \A k \in 1 .. Width : g[k] = step[<<g[k - 1], k>>]
    BY <1>7 DEF Iterates
  <1>9. ASSUME NEW k \in 0 .. Width
        PROVE  g[k] = IF k = 0 THEN zero ELSE SumByte(a, b, g[k - 1], Width + 1 - k)
    <2>1. CASE k = 0
      BY <1>8, <2>1
    <2>2. CASE k # 0
      <3>1. k \in 1 .. Width /\ k - 1 \in 0 .. Width
        BY <2>2, <1>1
      <3>2. g[k - 1] \in SumResult
        BY <3>1, <1>7
      <3>3. QED
        BY <3>1, <3>2, <1>6, <1>8, <2>2
    <2>3. QED
      BY <2>1, <2>2
  <1>10. g = [k \in 0 .. Width |-> g[k]]
    BY <1>7
  <1>11. Adds(g, a, b)
    BY <1>9, <1>10, Zenon DEF Adds, zero
  <1>12. QED
    BY <1>11

\* transaction_amount_add_be adds: what it leaves and its carry are the sum.
LEMMA AddBeSums ==
  ASSUME NEW a \in Amounts, NEW b \in Amounts
  PROVE  /\ AddBe(a, b).target \in Amounts /\ AddBe(a, b).carry \in {0, 1}
         /\ ValueOf(a) + ValueOf(b)
              = ValueOf(AddBe(a, b).target) + IF AddBe(a, b).carry = 1 THEN AmountSpan ELSE 0
  <1> DEFINE r == CHOOSE r : Adds(r, a, b)
             T == {n \in Nat : n <= Width => r[n] \in SumResult}
  <1>1. Adds(r, a, b)
    BY AddsExists
  <1>2. AddBe(a, b) = r[Width]
    BY Zenon DEF AddBe, Adds
  <1> HIDE DEF r
  <1>3. Width \in Nat
    BY SumsAssumption
  <1>4. ASSUME NEW k \in 0 .. Width
        PROVE  r[k] = IF k = 0 THEN [target |-> Zero, carry |-> 0]
                      ELSE SumByte(a, b, r[k - 1], Width + 1 - k)
    BY <1>1, Zenon DEF Adds
  <1>5. 0 \in T
    <2>1. 0 \in 0 .. Width
      BY <1>3
    <2>2. r[0] = [target |-> Zero, carry |-> 0]
      BY <2>1, <1>4
    <2>3. QED
      BY <2>2, AllOnesType DEF SumResult
  <1>6. ASSUME NEW n \in Nat, n \in T
        PROVE  n + 1 \in T
    <2>1. SUFFICES ASSUME n + 1 <= Width
                   PROVE  r[n + 1] \in SumResult
      OBVIOUS
    <2>2. n + 1 \in 0 .. Width /\ n + 1 # 0 /\ (n + 1) - 1 = n /\ Width + 1 - (n + 1) \in 1 .. Width
      BY <2>1, <1>3
    <2>3. r[n] \in SumResult
      BY <1>6, <2>1, <1>3
    <2>4. r[n + 1] = SumByte(a, b, r[n], Width + 1 - (n + 1))
      BY <1>4, <2>2
    <2>5. SumStep(a, b, r[n], r[n + 1], Width + 1 - (n + 1))
      BY <2>2, <2>3, <2>4, SumByteIs, Zenon
    <2>6. QED
      BY <2>5, Zenon DEF SumStep
  <1> HIDE DEF T
  <1>7. Nat \subseteq T
    BY <1>5, <1>6, NaturalsIn
  <1>8. ASSUME NEW k \in 0 .. Width
        PROVE  r[k] \in SumResult
    BY <1>3, <1>7 DEF T
  <1>9. ASSUME NEW i \in 1 .. Width
        PROVE  /\ Width + 1 - i \in 1 .. Width /\ i - 1 \in 0 .. Width
               /\ SumStep(a, b, r[i - 1], r[i], Width + 1 - i)
    <2>1. Width + 1 - i \in 1 .. Width /\ i - 1 \in 0 .. Width /\ i \in 0 .. Width /\ i # 0
      BY <1>3
    <2>2. r[i - 1] \in SumResult /\ r[i] = SumByte(a, b, r[i - 1], Width + 1 - i)
      BY <2>1, <1>4, <1>8
    <2>3. QED
      BY <2>1, <2>2, SumByteIs, Zenon
  <1> DEFINE t == [i \in 0 .. Width |-> r[i].target]
             c == [k \in 0 .. Width |-> r[Width - k].carry]
  <1>10. Settles(t)
    <2>1. t \in [0 .. Width -> Amounts]
      BY <1>8 DEF SumResult
    <2>2. ASSUME NEW i \in 1 .. Width, NEW j \in 1 .. Width, j # Width + 1 - i
          PROVE  t[i][j] = t[i - 1][j]
      <3>1. r[i].target[j] = r[i - 1].target[j]
        BY <1>9, <2>2 DEF SumStep
      <3>2. i \in 0 .. Width /\ i - 1 \in 0 .. Width
        BY <1>3
      <3>3. QED
        BY <3>1, <3>2
    <2> HIDE DEF t
    <2>3. QED
      BY <2>1, <2>2 DEF Settles
  <1>11. Carries(t[Width], c, a, b)
    <2>1. \A k \in 0 .. Width : Width - k \in 0 .. Width
      BY <1>3
    <2>2. c \in [0 .. Width -> {0, 1}]
      BY <2>1, <1>8 DEF SumResult
    <2>3. c[Width] = 0
      <3>1. 0 \in 0 .. Width /\ Width \in 0 .. Width /\ Width - Width = 0
        BY <1>3
      <3>2. r[0].carry = 0
        BY <3>1, <1>4
      <3>3. QED
        BY <3>1, <3>2
    <2>4. ASSUME NEW k \in 1 .. Width
          PROVE  a[k] + b[k] + c[k] = t[Width][k] + ByteValues * c[k - 1]
      <3> DEFINE i == Width + 1 - k
      <3>1. /\ i \in 1 .. Width /\ Width + 1 - i = k /\ i - 1 = Width - k /\ i = Width - (k - 1)
            /\ k \in 0 .. Width /\ k - 1 \in 0 .. Width /\ i \in 0 .. Width
        BY <1>3
      <3>2. t[Width][k] = t[i][k] /\ t[i] = r[i].target
        <4>1. t[i] = r[i].target
          BY <3>1
        <4>2. QED
          BY <4>1, <1>10, Settled
      <3>3. c[k] = r[i - 1].carry /\ c[k - 1] = r[i].carry
        BY <3>1
      <3> HIDE DEF i, t, c
      <3>4. a[k] + b[k] + r[i - 1].carry = r[i].target[k] + ByteValues * r[i].carry
        BY <3>1, <1>9 DEF SumStep
      <3>5. QED
        BY <3>2, <3>3, <3>4
    <2> HIDE DEF t, c
    <2>5. QED
      BY <2>2, <2>3, <2>4 DEF Carries
  <1>12. t[Width] = r[Width].target /\ c[0] = r[Width].carry
    <2>1. 0 \in 0 .. Width /\ Width \in 0 .. Width /\ Width - 0 = Width
      BY <1>3
    <2>2. QED
      BY <2>1
  <1>13. r[Width] \in SumResult
    BY <1>3, <1>8
  <1> HIDE DEF t, c
  <1>14. t[Width] \in Amounts /\ c[0] \in {0, 1}
    BY <1>12, <1>13 DEF SumResult
  <1>15. ValueOf(a) + ValueOf(b) = ValueOf(t[Width]) + IF c[0] = 1 THEN AmountSpan ELSE 0
    BY <1>11, <1>14, CarriedSum
  <1>16. QED
    BY <1>2, <1>12, <1>14, <1>15

-----------------------------------------------------------------------------
DifferenceResult == [target : Amounts, borrow : {0, 1}]

Subtracts(r, a, b) ==
  r = [i \in 0 .. Width |-> IF i = 0 THEN [target |-> Zero, borrow |-> 0]
                            ELSE DifferenceByte(a, b, r[i - 1], Width + 1 - i)]

\* From r to s byte k of the difference of a and b is set.
DifferenceStep(a, b, r, s, k) ==
  /\ s \in DifferenceResult
  /\ b[k] + s.target[k] + r.borrow = a[k] + ByteValues * s.borrow
  /\ \A j \in 1 .. Width : j # k => s.target[j] = r.target[j]

\* One byte of a difference.
LEMMA DifferenceByteIs ==
  ASSUME NEW a \in Amounts, NEW b \in Amounts, NEW r \in DifferenceResult, NEW k \in 1 .. Width
  PROVE  DifferenceStep(a, b, r, DifferenceByte(a, b, r, k), k)
  <1> DEFINE t == Borrowed(r.borrow, a[k], b[k])
             s == DifferenceByte(a, b, r, k)
             d == IF t.a < b[k] THEN t.a + ByteValues - b[k] ELSE (t.a - b[k]) % ByteValues
             owed == IF t.a < b[k] THEN 1 ELSE t.borrow
  <1>1. ByteValues \in Nat /\ ByteValues >= 2
    BY SumsAssumption
  <1>2. a[k] \in 0 .. ByteValues - 1 /\ b[k] \in 0 .. ByteValues - 1 /\ r.borrow \in {0, 1}
    BY DEF Amounts, Bytes, DifferenceResult
  <1>3. /\ r.borrow = 0 => t.a = a[k] /\ t.borrow = 0
        /\ r.borrow = 1 /\ a[k] <= b[k] => t.a = a[k] + ByteValues - 1 /\ t.borrow = 1
        /\ r.borrow = 1 /\ ~(a[k] <= b[k]) => t.a = a[k] - 1 /\ t.borrow = 0
    BY <1>2 DEF Borrowed
  <1>4. s = [target |-> [r.target EXCEPT ![k] = d], borrow |-> owed]
    BY DEF DifferenceByte
  <1> HIDE DEF t, s
  <1>5. \A n \in 0 .. ByteValues - 1 : n % ByteValues = n
    BY <1>1
  <1>6. d \in 0 .. ByteValues - 1 /\ owed \in {0, 1} /\ b[k] + d + r.borrow = a[k] + ByteValues * owed
    <2>1. CASE r.borrow = 0
      <3>1. CASE a[k] < b[k]
        BY <1>1, <1>2, <1>3, <2>1, <3>1
      <3>2. CASE ~(a[k] < b[k])
        <4>1. (a[k] - b[k]) % ByteValues = a[k] - b[k]
          BY <1>1, <1>2, <1>5, <3>2
        <4>2. QED
          BY <1>1, <1>2, <1>3, <2>1, <3>2, <4>1
      <3>3. QED
        BY <3>1, <3>2
    <2>2. CASE r.borrow = 1
      <3>1. CASE a[k] <= b[k]
        <4>1. (a[k] + ByteValues - 1 - b[k]) % ByteValues = a[k] + ByteValues - 1 - b[k]
          BY <1>1, <1>2, <1>5, <3>1
        <4>2. t.a = a[k] + ByteValues - 1 /\ t.borrow = 1
          BY <1>3, <2>2, <3>1
        <4>3. ~(t.a < b[k])
          BY <1>1, <1>2, <4>2
        <4>4. d = a[k] + ByteValues - 1 - b[k] /\ owed = 1
          <5>1. d = (t.a - b[k]) % ByteValues /\ owed = t.borrow
            BY <4>3, Zenon
          <5> HIDE DEF d, owed
          <5>2. QED
            BY <1>1, <1>2, <4>1, <4>2, <5>1
        <4> HIDE DEF d, owed
        <4>5. QED
          BY <1>1, <1>2, <2>2, <3>1, <4>4
      <3>2. CASE ~(a[k] <= b[k])
        <4>1. (a[k] - 1 - b[k]) % ByteValues = a[k] - 1 - b[k]
          BY <1>1, <1>2, <1>5, <3>2
        <4>2. QED
          BY <1>1, <1>2, <1>3, <2>2, <3>2, <4>1
      <3>3. QED
        BY <3>1, <3>2
    <2>3. QED
      BY <1>2, <2>1, <2>2
  <1> HIDE DEF d, owed
  <1>7. r.target \in [1 .. Width -> Bytes]
    BY DEF DifferenceResult, Amounts
  <1>8. s.target = [r.target EXCEPT ![k] = d] /\ s.borrow = owed
    BY <1>4
  <1>9. s.target \in Amounts /\ s.target[k] = d
    BY <1>6, <1>7, <1>8 DEF Amounts, Bytes
  <1>10. \A j \in 1 .. Width : j # k => s.target[j] = r.target[j]
    BY <1>7, <1>8
  <1>11. s \in DifferenceResult
    BY <1>4, <1>6, <1>8, <1>9 DEF DifferenceResult
  <1>12. b[k] + s.target[k] + r.borrow = a[k] + ByteValues * s.borrow
    BY <1>6, <1>8, <1>9
  <1>13. DifferenceStep(a, b, r, s, k)
    BY <1>10, <1>11, <1>12 DEF DifferenceStep
  <1>14. QED
    BY <1>13 DEF s

LEMMA SubtractsExists ==
  ASSUME NEW a \in Amounts, NEW b \in Amounts
  PROVE  \E r : Subtracts(r, a, b)
  <1> DEFINE zero == [target |-> Zero, borrow |-> 0]
             step == [p \in DifferenceResult \X (1 .. Width) |-> DifferenceByte(a, b, p[1], Width + 1 - p[2])]
  <1>1. Width \in Nat
    BY SumsAssumption
  <1>2. zero \in DifferenceResult
    BY AllOnesType DEF DifferenceResult
  <1>3. \A i \in 1 .. Width : Width + 1 - i \in 1 .. Width
    BY <1>1
  <1>4. ASSUME NEW p \in DifferenceResult \X (1 .. Width)
        PROVE  DifferenceByte(a, b, p[1], Width + 1 - p[2]) \in DifferenceResult
    <2>1. p[1] \in DifferenceResult /\ Width + 1 - p[2] \in 1 .. Width
      BY <1>3
    <2>2. DifferenceStep(a, b, p[1], DifferenceByte(a, b, p[1], Width + 1 - p[2]), Width + 1 - p[2])
      BY <2>1, DifferenceByteIs, Zenon
    <2>3. QED
      BY <2>2, Zenon DEF DifferenceStep
  <1>5. step \in [DifferenceResult \X (1 .. Width) -> DifferenceResult]
    BY <1>4
  <1>6. \A r \in DifferenceResult, i \in 1 .. Width : step[<<r, i>>] = DifferenceByte(a, b, r, Width + 1 - i)
    OBVIOUS
  <1> HIDE DEF step, zero
  <1>7. PICK g \in [0 .. Width -> DifferenceResult] : Iterates(g, zero, step, Width)
    BY <1>1, <1>2, <1>5, RecursionExists, Zenon
  <1>8. g[0] = zero /\ \A k \in 1 .. Width : g[k] = step[<<g[k - 1], k>>]
    BY <1>7 DEF Iterates
  <1>9. ASSUME NEW k \in 0 .. Width
        PROVE  g[k] = IF k = 0 THEN zero ELSE DifferenceByte(a, b, g[k - 1], Width + 1 - k)
    <2>1. CASE k = 0
      BY <1>8, <2>1
    <2>2. CASE k # 0
      <3>1. k \in 1 .. Width /\ k - 1 \in 0 .. Width
        BY <2>2, <1>1
      <3>2. g[k - 1] \in DifferenceResult
        BY <3>1, <1>7
      <3>3. QED
        BY <3>1, <3>2, <1>6, <1>8, <2>2
    <2>3. QED
      BY <2>1, <2>2
  <1>10. g = [k \in 0 .. Width |-> g[k]]
    BY <1>7
  <1>11. Subtracts(g, a, b)
    BY <1>9, <1>10, Zenon DEF Subtracts, zero
  <1>12. QED
    BY <1>11

\* transaction_amount_sub_be subtracts: what it leaves, less its borrow, is the
\* difference.
LEMMA SubBeSubtracts ==
  ASSUME NEW a \in Amounts, NEW b \in Amounts
  PROVE  /\ SubBe(a, b).target \in Amounts /\ SubBe(a, b).borrow \in {0, 1}
         /\ ValueOf(b) + ValueOf(SubBe(a, b).target)
              = ValueOf(a) + IF SubBe(a, b).borrow = 1 THEN AmountSpan ELSE 0
  <1> DEFINE r == CHOOSE r : Subtracts(r, a, b)
             T == {n \in Nat : n <= Width => r[n] \in DifferenceResult}
  <1>1. Subtracts(r, a, b)
    BY SubtractsExists
  <1>2. SubBe(a, b) = r[Width]
    BY Zenon DEF SubBe, Subtracts
  <1> HIDE DEF r
  <1>3. Width \in Nat
    BY SumsAssumption
  <1>4. ASSUME NEW k \in 0 .. Width
        PROVE  r[k] = IF k = 0 THEN [target |-> Zero, borrow |-> 0]
                      ELSE DifferenceByte(a, b, r[k - 1], Width + 1 - k)
    BY <1>1, Zenon DEF Subtracts
  <1>5. 0 \in T
    <2>1. 0 \in 0 .. Width
      BY <1>3
    <2>2. r[0] = [target |-> Zero, borrow |-> 0]
      BY <2>1, <1>4
    <2>3. QED
      BY <2>2, AllOnesType DEF DifferenceResult
  <1>6. ASSUME NEW n \in Nat, n \in T
        PROVE  n + 1 \in T
    <2>1. SUFFICES ASSUME n + 1 <= Width
                   PROVE  r[n + 1] \in DifferenceResult
      OBVIOUS
    <2>2. n + 1 \in 0 .. Width /\ n + 1 # 0 /\ (n + 1) - 1 = n /\ Width + 1 - (n + 1) \in 1 .. Width
      BY <2>1, <1>3
    <2>3. r[n] \in DifferenceResult
      BY <1>6, <2>1, <1>3
    <2>4. r[n + 1] = DifferenceByte(a, b, r[n], Width + 1 - (n + 1))
      BY <1>4, <2>2
    <2>5. DifferenceStep(a, b, r[n], r[n + 1], Width + 1 - (n + 1))
      BY <2>2, <2>3, <2>4, DifferenceByteIs, Zenon
    <2>6. QED
      BY <2>5, Zenon DEF DifferenceStep
  <1> HIDE DEF T
  <1>7. Nat \subseteq T
    BY <1>5, <1>6, NaturalsIn
  <1>8. ASSUME NEW k \in 0 .. Width
        PROVE  r[k] \in DifferenceResult
    BY <1>3, <1>7 DEF T
  <1>9. ASSUME NEW i \in 1 .. Width
        PROVE  /\ Width + 1 - i \in 1 .. Width /\ i - 1 \in 0 .. Width
               /\ DifferenceStep(a, b, r[i - 1], r[i], Width + 1 - i)
    <2>1. Width + 1 - i \in 1 .. Width /\ i - 1 \in 0 .. Width /\ i \in 0 .. Width /\ i # 0
      BY <1>3
    <2>2. r[i - 1] \in DifferenceResult /\ r[i] = DifferenceByte(a, b, r[i - 1], Width + 1 - i)
      BY <2>1, <1>4, <1>8
    <2>3. QED
      BY <2>1, <2>2, DifferenceByteIs, Zenon
  <1> DEFINE t == [i \in 0 .. Width |-> r[i].target]
             c == [k \in 0 .. Width |-> r[Width - k].borrow]
  <1>10. Settles(t)
    <2>1. t \in [0 .. Width -> Amounts]
      BY <1>8 DEF DifferenceResult
    <2>2. ASSUME NEW i \in 1 .. Width, NEW j \in 1 .. Width, j # Width + 1 - i
          PROVE  t[i][j] = t[i - 1][j]
      <3>1. r[i].target[j] = r[i - 1].target[j]
        BY <1>9, <2>2 DEF DifferenceStep
      <3>2. i \in 0 .. Width /\ i - 1 \in 0 .. Width
        BY <1>3
      <3>3. QED
        BY <3>1, <3>2
    <2> HIDE DEF t
    <2>3. QED
      BY <2>1, <2>2 DEF Settles
  <1>11. Carries(a, c, b, t[Width])
    <2>1. \A k \in 0 .. Width : Width - k \in 0 .. Width
      BY <1>3
    <2>2. c \in [0 .. Width -> {0, 1}]
      BY <2>1, <1>8 DEF DifferenceResult
    <2>3. c[Width] = 0
      <3>1. 0 \in 0 .. Width /\ Width \in 0 .. Width /\ Width - Width = 0
        BY <1>3
      <3>2. r[0].borrow = 0
        BY <3>1, <1>4
      <3>3. QED
        BY <3>1, <3>2
    <2>4. ASSUME NEW k \in 1 .. Width
          PROVE  b[k] + t[Width][k] + c[k] = a[k] + ByteValues * c[k - 1]
      <3> DEFINE i == Width + 1 - k
      <3>1. /\ i \in 1 .. Width /\ Width + 1 - i = k /\ i - 1 = Width - k /\ i = Width - (k - 1)
            /\ k \in 0 .. Width /\ k - 1 \in 0 .. Width /\ i \in 0 .. Width
        BY <1>3
      <3>2. t[Width][k] = t[i][k] /\ t[i] = r[i].target
        <4>1. t[i] = r[i].target
          BY <3>1
        <4>2. QED
          BY <4>1, <1>10, Settled
      <3>3. c[k] = r[i - 1].borrow /\ c[k - 1] = r[i].borrow
        BY <3>1
      <3> HIDE DEF i, t, c
      <3>4. b[k] + r[i].target[k] + r[i - 1].borrow = a[k] + ByteValues * r[i].borrow
        BY <3>1, <1>9 DEF DifferenceStep
      <3>5. QED
        BY <3>2, <3>3, <3>4
    <2> HIDE DEF t, c
    <2>5. QED
      BY <2>2, <2>3, <2>4 DEF Carries
  <1>12. t[Width] = r[Width].target /\ c[0] = r[Width].borrow
    <2>1. 0 \in 0 .. Width /\ Width \in 0 .. Width /\ Width - 0 = Width
      BY <1>3
    <2>2. QED
      BY <2>1
  <1>13. r[Width] \in DifferenceResult
    BY <1>3, <1>8
  <1> HIDE DEF t, c
  <1>14. t[Width] \in Amounts /\ c[0] \in {0, 1}
    BY <1>12, <1>13 DEF DifferenceResult
  <1>15. ValueOf(b) + ValueOf(t[Width]) = ValueOf(a) + IF c[0] = 1 THEN AmountSpan ELSE 0
    BY <1>11, <1>14, CarriedSum
  <1>16. QED
    BY <1>2, <1>12, <1>14, <1>15

-----------------------------------------------------------------------------
\* The totals are amounts, and the parser gave up for a reason.
SumsInv ==
  /\ transactionAmount \in Amounts /\ totalOutputAmount \in Amounts
  /\ failed \in BOOLEAN
  /\ inputs.count \in Nat /\ inputs.sum \in Nat
  /\ outputs.count \in Nat /\ outputs.sum \in Nat
  /\ SumsExact /\ FeesExact

LEMMA ZeroIsZero == ValueOf(Zero) = 0
  <1>1. PICK v : Values(v, Zero) /\ ValueOf(Zero) = v[Width]
    BY ValueSteps, AllOnesType
  <1>2. Width \in Nat /\ ByteValues \in Nat
    BY SumsAssumption
  <1> DEFINE T == {n \in Nat : n <= Width => v[n] = 0}
  <1>3. 0 \in T
    BY <1>1 DEF Values
  <1>4. ASSUME NEW n \in Nat, n \in T
        PROVE  n + 1 \in T
    <2>1. SUFFICES ASSUME n + 1 <= Width
                   PROVE  v[n + 1] = 0
      OBVIOUS
    <2>2. n + 1 \in 1 .. Width /\ (n + 1) - 1 = n
      BY <2>1, <1>2
    <2>3. v[n] = 0
      BY <1>2, <1>4, <2>1
    <2>4. v[n + 1] = v[n] * ByteValues + 0
      BY <1>1, <2>2 DEF Values, Zero
    <2>5. QED
      BY <2>3, <2>4, <1>2
  <1> HIDE DEF T
  <1>5. Nat \subseteq T
    BY <1>3, <1>4, NaturalsIn
  <1>6. QED
    BY <1>1, <1>2, <1>5 DEF T

\* The start of a transaction.
LEMMA NothingYet ==
  /\ Zero \in Amounts /\ ValueOf(Zero) = 0
  /\ 0 % AmountSpan = 0 /\ ~(0 >= AmountSpan)
  /\ Nothing.count = 0 /\ Nothing.sum = 0
  <1>1. AmountSpan \in Nat /\ 0 < AmountSpan
    BY ZeroIsZero, ValueBound, AllOnesType
  <1>2. 0 % AmountSpan = 0 /\ ~(0 >= AmountSpan)
    BY <1>1
  <1>3. QED
    BY <1>2, ZeroIsZero, AllOnesType DEF Nothing

LEMMA SumsPreserved ==
  ASSUME SumsInv, [SumsNext]_sumsVars
  PROVE  SumsInv'
  <1> DEFINE got == ValueOf(transactionAmount)
             paid == ValueOf(totalOutputAmount)
  <1>1. /\ transactionAmount \in Amounts /\ totalOutputAmount \in Amounts /\ failed \in BOOLEAN
        /\ inputs.count \in Nat /\ inputs.sum \in Nat /\ outputs.count \in Nat /\ outputs.sum \in Nat
    BY DEF SumsInv
  <1>2. /\ ~failed => got = inputs.sum
        /\ inputs.sum >= AmountSpan => failed
        /\ paid = outputs.sum % AmountSpan
    BY DEF SumsInv, SumsExact
  <1>3. got \in Nat /\ paid \in Nat /\ AmountSpan \in Nat /\ got < AmountSpan /\ paid < AmountSpan
    BY <1>1, ValueBound
  <1>4. ASSUME NEW amount \in Amounts, AddInput(amount)
        PROVE  SumsInv'
    <2> DEFINE sum == AddBe(transactionAmount, amount)
               new == ValueOf(sum.target)
               more == ValueOf(amount)
    <2>1. /\ ~failed /\ fees = NoFees
          /\ transactionAmount' = sum.target /\ failed' = (sum.carry = 1)
          /\ inputs' = [count |-> inputs.count + 1, sum |-> inputs.sum + more]
          /\ UNCHANGED <<totalOutputAmount, fees, outputs>>
      BY <1>4 DEF AddInput, Plus
    <2>2. more \in Nat
      BY ValueBound
    <2>3. /\ sum.target \in Amounts /\ sum.carry \in {0, 1}
          /\ got + more = new + IF sum.carry = 1 THEN AmountSpan ELSE 0
      BY <1>1, AddBeSums
    <2> HIDE DEF sum
    <2>4. new \in Nat /\ new < AmountSpan
      BY <2>3, ValueBound
    <2>5. ValueOf(transactionAmount') = new
      BY <2>1
    <2> HIDE DEF new, more, got, paid
    <2>6. inputs'.sum = inputs.sum + more /\ inputs'.count = inputs.count + 1
      BY <2>1
    <2>7. got = inputs.sum
      BY <1>2, <2>1
    <2>8. failed' \in BOOLEAN
      BY <2>1
    <2>9. /\ ~failed' => new = inputs'.sum
          /\ inputs'.sum >= AmountSpan => failed'
          /\ failed' => inputs'.sum >= AmountSpan
      <3>1. CASE sum.carry = 1
        <4>1. failed'
          BY <2>1, <3>1, Zenon
        <4>2. got + more = new + AmountSpan
          BY <2>3, <3>1
        <4>3. QED
          BY <4>1, <4>2, <1>1, <1>3, <2>2, <2>4, <2>6, <2>7
      <3>2. CASE sum.carry # 1
        <4>1. ~failed'
          BY <2>1, <3>2, Zenon
        <4>2. got + more = new
          BY <2>3, <2>4, <3>2
        <4>3. QED
          BY <4>1, <4>2, <1>1, <1>3, <2>2, <2>4, <2>6, <2>7
      <3>3. QED
        BY <3>1, <3>2
    <2>10. SumsExact'
      BY <2>1, <2>5, <2>9, <1>2 DEF SumsExact, paid
    <2>11. FeesExact'
      BY <2>1, <2>9 DEF FeesExact
    <2>12. inputs'.count \in Nat /\ inputs'.sum \in Nat
      BY <1>1, <2>2, <2>6
    <2>13. QED
      BY <1>1, <2>1, <2>3, <2>8, <2>10, <2>11, <2>12 DEF SumsInv
  <1>5. ASSUME NEW amount \in Amounts, AddOutput(amount)
        PROVE  SumsInv'
    <2> DEFINE sum == AddBe(totalOutputAmount, amount)
               new == ValueOf(sum.target)
               more == ValueOf(amount)
    <2>1. /\ ~failed /\ fees = NoFees
          /\ totalOutputAmount' = sum.target
          /\ outputs' = [count |-> outputs.count + 1, sum |-> outputs.sum + more]
          /\ UNCHANGED <<transactionAmount, fees, failed, inputs>>
      BY <1>5 DEF AddOutput, Plus
    <2>2. more \in Nat
      BY ValueBound
    <2>3. /\ sum.target \in Amounts /\ sum.carry \in {0, 1}
          /\ paid + more = new + IF sum.carry = 1 THEN AmountSpan ELSE 0
      BY <1>1, AddBeSums
    <2> HIDE DEF sum
    <2>4. new \in Nat /\ new < AmountSpan
      BY <2>3, ValueBound
    <2>5. ValueOf(totalOutputAmount') = new
      BY <2>1
    <2> HIDE DEF new, more, got, paid
    <2>6. outputs'.sum = outputs.sum + more /\ outputs'.count = outputs.count + 1
      BY <2>1
    <2>7. new = (outputs.sum + more) % AmountSpan
      <3>1. AmountSpan \in Nat \ {0}
        BY <1>3
      <3>2. (paid + more) % AmountSpan = (outputs.sum + more) % AmountSpan
        BY <1>1, <1>2, <2>2, <3>1, ModAdd
      <3>3. PICK q \in {0, 1} : paid + more = AmountSpan * q + new
        <4>1. CASE sum.carry = 1
          <5>1. paid + more = AmountSpan * 1 + new
            BY <1>3, <2>3, <2>4, <4>1
          <5>2. QED
            BY <5>1
        <4>2. CASE sum.carry # 1
          <5>1. paid + more = AmountSpan * 0 + new
            BY <1>3, <2>3, <2>4, <4>2
          <5>2. QED
            BY <5>1
        <4>3. QED
          BY <4>1, <4>2
      <3>4. (AmountSpan * q + new) % AmountSpan = new
        BY <2>4, <3>1, UniqueRemainder
      <3>5. QED
        BY <3>2, <3>3, <3>4
    <2>8. SumsExact'
      BY <2>1, <2>5, <2>6, <2>7, <1>2 DEF SumsExact, got
    <2>9. FeesExact'
      BY <2>1 DEF FeesExact
    <2>10. outputs'.count \in Nat /\ outputs'.sum \in Nat
      BY <1>1, <2>2, <2>6
    <2>11. QED
      BY <1>1, <2>1, <2>3, <2>8, <2>9, <2>10 DEF SumsInv
  <1>6. CASE PrepareFees
    <2> DEFINE difference == SubBe(transactionAmount, totalOutputAmount)
               left == ValueOf(difference.target)
    <2>1. /\ ~failed /\ fees = NoFees
          /\ failed' = (difference.borrow = 1)
          /\ fees' = IF difference.borrow = 1 THEN NoFees ELSE difference.target
          /\ UNCHANGED <<transactionAmount, totalOutputAmount, inputs, outputs>>
      BY <1>6 DEF PrepareFees
    <2>2. /\ difference.target \in Amounts /\ difference.borrow \in {0, 1}
          /\ paid + left = got + IF difference.borrow = 1 THEN AmountSpan ELSE 0
      BY <1>1, SubBeSubtracts
    <2> HIDE DEF difference
    <2>3. left \in Nat /\ left < AmountSpan
      BY <2>2, ValueBound
    <2>4. fees' # NoFees => ValueOf(fees') = left /\ difference.borrow # 1
      BY <2>1
    <2>5. got = inputs.sum
      BY <1>2, <2>1
    <2> HIDE DEF left, got, paid
    <2>6. failed' => paid > inputs.sum
      BY <1>1, <1>3, <2>1, <2>2, <2>3, <2>5
    <2>7. fees' # NoFees => ValueOf(fees') + paid = inputs.sum
      BY <1>1, <1>3, <2>2, <2>3, <2>4, <2>5
    <2>8. inputs.sum < AmountSpan
      BY <1>3, <2>5
    <2>9. SumsExact'
      BY <1>1, <1>2, <1>3, <2>1, <2>5, <2>8 DEF SumsExact, got, paid
    <2>10. FeesExact'
      BY <2>1, <2>6, <2>7 DEF FeesExact, paid
    <2>11. failed' \in BOOLEAN
      BY <2>1
    <2>12. QED
      BY <1>1, <2>1, <2>9, <2>10, <2>11 DEF SumsInv
  <1>7. CASE NextTransaction
    <2>1. /\ transactionAmount' = Zero /\ totalOutputAmount' = Zero /\ fees' = NoFees
          /\ failed' = FALSE /\ inputs' = Nothing /\ outputs' = Nothing
      BY <1>7 DEF NextTransaction
    <2>2. failed' \in BOOLEAN /\ ~failed'
      BY <2>1, Zenon
    <2>3. QED
      BY <2>1, <2>2, NothingYet DEF SumsInv, SumsExact, FeesExact
  <1>8. CASE UNCHANGED sumsVars
    BY <1>8 DEF sumsVars, SumsInv, SumsExact, FeesExact
  <1>9. QED
    BY <1>4, <1>5, <1>6, <1>7, <1>8 DEF SumsNext

LEMMA SumsInvariance == SumsSpec => []SumsInv
  <1>1. SumsInit => SumsInv
    <2>1. SUFFICES ASSUME SumsInit PROVE SumsInv
      OBVIOUS
    <2>2. failed \in BOOLEAN /\ ~failed
      BY <2>1, Zenon DEF SumsInit
    <2>3. QED
      BY <2>1, <2>2, NothingYet DEF SumsInit, SumsInv, SumsExact, FeesExact
  <1>2. SumsInv /\ [SumsNext]_sumsVars => SumsInv'
    BY SumsPreserved
  <1>3. QED
    BY <1>1, <1>2, PTL DEF SumsSpec

\* However many bytes an amount has, the total of the inputs is their sum until
\* the parser fails, and it fails when they overflow (transaction_amount_add_be).
THEOREM TotalsAreSums == SumsSpec => []SumsExact
  <1>1. SumsInv => SumsExact
    BY DEF SumsInv
  <1>2. QED
    BY <1>1, SumsInvariance, PTL

\* The fees are what is left of the inputs, and are refused exactly when nothing
\* is: no carry and no borrow is lost (transaction_amount_sub_be, prepare_fees).
THEOREM FeesAreDifferences == SumsSpec => []FeesExact
  <1>1. SumsInv => FeesExact
    BY DEF SumsInv
  <1>2. QED
    BY <1>1, SumsInvariance, PTL

-----------------------------------------------------------------------------
\* A path the guard passes without a warning.
LEMMA UsualShape ==
  ASSUME NEW p \in Seq(AllLevels), NEW isChange \in BOOLEAN, ~Unusual(p, isChange)
  PROVE  /\ Len(p) = 5
         /\ p[1].hardened /\ p[3].hardened
         /\ ~p[4].hardened /\ ~p[5].hardened
         /\ p[3].number <= 100 /\ p[4].number <= 1 /\ p[5].number <= 50000
  <1>1. Len(p) = 5
    BY DEF Unusual
  <1>2. \A i \in 1 .. 5 : p[i] \in AllLevels
    BY <1>1, ElementOfSeq
  <1>3. \A i \in 1 .. 5 : p[i].hardened \in BOOLEAN /\ p[i].number \in Nat
    <2>1. \A n \in Numbers : n \in Nat
      BY DEF Numbers
    <2>2. \A i \in 1 .. 5 : p[i].hardened \in BOOLEAN /\ p[i].number \in Numbers
      BY <1>2 DEF AllLevels
    <2>3. QED
      BY <2>1, <2>2
  <1>4. \A i \in 1 .. 5 : Flipped(p[i]) = [hardened |-> ~p[i].hardened, number |-> p[i].number]
    <2>1. TAKE i \in 1 .. 5
    <2>2. PICK h \in BOOLEAN, n \in Numbers : p[i] = [hardened |-> h, number |-> n]
      BY <1>2, <2>1 DEF AllLevels
    <2>3. QED
      BY <2>2 DEF Flipped
  <1>5. PICK purpose \in {44, 49, 84} : Is(Flipped(p[1]), purpose)
    BY DEF Unusual
  <1>6. ~Exceeds(Flipped(p[3]), 100) /\ ~Exceeds(p[5], 50000)
    BY DEF Unusual, MAX_BIP44_ACCOUNT_RECOMMENDED, MAX_BIP44_ADDRESS_INDEX_RECOMMENDED
  <1>7. Is(p[4], IF isChange THEN 1 ELSE 0)
    BY DEF Unusual
  <1>8. 1 \in 1 .. 5 /\ 3 \in 1 .. 5 /\ 4 \in 1 .. 5 /\ 5 \in 1 .. 5
    OBVIOUS
  <1>9. Flipped(p[1]).hardened = ~p[1].hardened /\ Flipped(p[3]).hardened = ~p[3].hardened
        /\ Flipped(p[3]).number = p[3].number
    BY <1>8, <1>4
  <1>10. p[1].hardened
    BY <1>5, <1>9 DEF Is
  <1>11. p[3].hardened /\ p[3].number <= 100
    <2>1. ~(p[3].number > 100) /\ p[3].number \in Nat
      BY <1>3, <1>6, <1>8, <1>9 DEF Exceeds
    <2>2. ~Flipped(p[3]).hardened
      BY <1>6 DEF Exceeds
    <2>3. p[3].hardened
      BY <2>2, <1>9
    <2>4. QED
      BY <2>1, <2>3
  <1>12. ~p[4].hardened /\ p[4].number <= 1
    BY <1>3, <1>7, <1>8 DEF Is
  <1>13. ~p[5].hardened /\ p[5].number <= 50000
    BY <1>3, <1>6, <1>8 DEF Exceeds
  <1>14. QED
    BY <1>1, <1>10, <1>11, <1>12, <1>13

\* Every path the guard lets pass has the shape of BIP 44, whatever paths a host
\* sends (bip44_derivation_guard).
THEOREM UsualPathsAreBip44 == PathSpec => []UsualIsBip44
  <1> DEFINE Sent == path \in Paths \cup {<<>>}
  <1>1. PathInit => Sent
    BY DEF PathInit
  <1>2. Sent /\ [PathNext]_pathVars => Sent'
    BY DEF PathNext, PrintStart, PrintLevel, PrintEnd, NextPath, pathVars
  <1>3. Sent => UsualIsBip44
    <2>1. SUFFICES ASSUME Sent, NEW isChange \in BOOLEAN, ~Unusual(path, isChange)
                   PROVE  /\ Len(path) = 5
                          /\ path[1].hardened /\ path[3].hardened
                          /\ ~path[4].hardened /\ ~path[5].hardened
                          /\ path[3].number <= 100 /\ path[4].number <= 1
                          /\ path[5].number <= 50000
      BY DEF UsualIsBip44
    <2>2. path \in Seq(AllLevels)
      <3>1. <<>> \in Seq(AllLevels)
        OBVIOUS
      <3>2. QED
        BY <2>1, <3>1, KeyPathAssumption, Zenon
    <2>3. QED
      BY <2>1, <2>2, UsualShape
  <1>4. QED
    BY <1>1, <1>2, <1>3, PTL DEF PathSpec

-----------------------------------------------------------------------------
\* The text of a path.  f holds what was read after each symbol.

Start == [levels |-> <<>>, level |-> NoLevel]

Tells(f, text) ==
  f = [k \in 0 .. Len(text) |-> IF k = 0 THEN Start ELSE ReadSymbol(f[k - 1], text[k])]

Told(text, r) == \E f : Tells(f, text) /\ f[Len(text)] = r

\* Nothing tells nothing.
LEMMA NothingTold == Told(<<>>, Start)
<1> DEFINE f == [k \in 0 .. 0 |-> Start]
<1>1. Len(<<>>) = 0 /\ f[0] = Start
  OBVIOUS
<1>2. f = [k \in 0 .. 0 |-> IF k = 0 THEN Start ELSE ReadSymbol(f[k - 1], <<>>[k])]
  OBVIOUS
<1>3. QED
  BY <1>1, <1>2 DEF Told, Tells

\* One symbol more.
LEMMA MoreTold ==
  ASSUME NEW text \in Seq(Nat), NEW c \in Nat, NEW r, Told(text, r)
  PROVE  Told(Append(text, c), ReadSymbol(r, c))
<1> DEFINE n == Len(text)
           more == Append(text, c)
<1>1. n \in Nat /\ Len(more) = n + 1 /\ more[n + 1] = c /\ \A k \in 1 .. n : more[k] = text[k]
  BY AppendProperties, LenProperties
<1>2. PICK f : f = [k \in 0 .. n |-> IF k = 0 THEN Start ELSE ReadSymbol(f[k - 1], text[k])]
               /\ f[n] = r
  BY DEF Told, Tells
<1> DEFINE g == [k \in 0 .. n + 1 |-> IF k = n + 1 THEN ReadSymbol(r, c) ELSE f[k]]
<1>3. \A k \in 0 .. n : f[k] = IF k = 0 THEN Start ELSE ReadSymbol(f[k - 1], text[k])
  BY <1>2, Zenon
<1> HIDE DEF more, n
<1>4. ASSUME NEW k \in 0 .. n + 1
      PROVE  g[k] = IF k = 0 THEN Start ELSE ReadSymbol(g[k - 1], more[k])
  <2>1. CASE k = n + 1
    <3>1. g[k] = ReadSymbol(r, c) /\ k # 0 /\ k - 1 = n /\ n \in 0 .. n + 1 /\ n # n + 1
      BY <1>1, <2>1
    <3>2. g[n] = r
      BY <1>2, <3>1
    <3>3. QED
      BY <1>1, <2>1, <3>1, <3>2
  <2>2. CASE k \in 1 .. n
    <3>1. g[k] = f[k] /\ k - 1 \in 0 .. n /\ k - 1 # n + 1 /\ k - 1 \in 0 .. n + 1 /\ k # 0 /\ k \in 0 .. n
      BY <1>1, <2>2
    <3>2. g[k - 1] = f[k - 1] /\ more[k] = text[k]
      BY <1>1, <2>2, <3>1
    <3>3. QED
      BY <1>3, <3>1, <3>2
  <2>3. CASE k = 0
    <3>1. g[0] = f[0] /\ 0 \in 0 .. n
      BY <1>1
    <3>2. QED
      BY <1>3, <2>3, <3>1
  <2>4. QED
    BY <1>1, <2>1, <2>2, <2>3
<1>5. g = [k \in 0 .. n + 1 |-> IF k = 0 THEN Start ELSE ReadSymbol(g[k - 1], more[k])]
  BY <1>4
<1>6. g[n + 1] = ReadSymbol(r, c)
  BY <1>1
<1> HIDE DEF g
<1>7. Tells(g, more) /\ g[Len(more)] = ReadSymbol(r, c)
  BY <1>1, <1>5, <1>6 DEF Tells
<1>8. QED
  BY <1>7 DEF Told, more

\* What a text tells is what is read back.
LEMMA ToldIsRead ==
  ASSUME NEW text \in Seq(Nat), NEW r, Told(text, r)
  PROVE  ReadBack(text) = r.levels
<1> DEFINE n == Len(text)
           h == CHOOSE f : Tells(f, text)
<1>1. n \in Nat
  BY LenProperties
<1>2. PICK f : Tells(f, text) /\ f[n] = r
  BY DEF Told
<1>3. Tells(h, text)
  BY <1>2
<1>4. ReadBack(text) = h[n].levels
  BY Zenon DEF ReadBack, Tells, Start
<1> HIDE DEF h
<1> DEFINE T == {k \in Nat : k \in 0 .. n => h[k] = f[k]}
<1>5. \A k \in 0 .. n :
        /\ f[k] = IF k = 0 THEN Start ELSE ReadSymbol(f[k - 1], text[k])
        /\ h[k] = IF k = 0 THEN Start ELSE ReadSymbol(h[k - 1], text[k])
  BY <1>2, <1>3, Zenon DEF Tells
<1>6. 0 \in T
  <2>1. 0 \in 0 .. n
    BY <1>1
  <2>2. QED
    BY <1>5, <2>1
<1>7. ASSUME NEW k \in Nat, k \in T PROVE k + 1 \in T
  <2>1. SUFFICES ASSUME k + 1 \in 0 .. n PROVE h[k + 1] = f[k + 1]
    OBVIOUS
  <2>2. k \in 0 .. n /\ k + 1 # 0 /\ (k + 1) - 1 = k
    BY <1>1, <2>1
  <2>3. h[k] = f[k]
    BY <1>7, <2>2
  <2>4. QED
    BY <1>5, <2>1, <2>2, <2>3
<1>8. n \in T
  <2> HIDE DEF T
  <2>1. QED
    BY <1>1, <1>6, <1>7, NaturalsIn
<1>9. h[n] = r
  BY <1>1, <1>2, <1>8
<1>10. QED
  BY <1>4, <1>9

-----------------------------------------------------------------------------
\* The digits of a number below 2^31.

\* The powers are those of ten.
LEMMA Powers ==
  /\ PowerOfTen(0) = 1 /\ PowerOfTen(1) = 10 /\ PowerOfTen(2) = 100 /\ PowerOfTen(3) = 1000
  /\ PowerOfTen(4) = 10000 /\ PowerOfTen(5) = 100000 /\ PowerOfTen(6) = 1000000
  /\ PowerOfTen(7) = 10000000 /\ PowerOfTen(8) = 100000000 /\ PowerOfTen(9) = 1000000000
BY SMT DEF PowerOfTen, Tens

\* A number has a width.
LEMMA WidthIs ==
  ASSUME NEW n \in Numbers
  PROVE  LET w == DecimalWidth(n)
         IN  w \in 1 .. 10 /\ (w < 10 => n < PowerOfTen(w))
<1> DEFINE Fits(w) == (w < 10 => n < PowerOfTen(w)) /\ (w > 1 => n >= PowerOfTen(w - 1))
<1>0. /\ 1 - 1 = 0 /\ 2 - 1 = 1 /\ 3 - 1 = 2 /\ 4 - 1 = 3 /\ 5 - 1 = 4 /\ 6 - 1 = 5 /\ 7 - 1 = 6
      /\ 8 - 1 = 7 /\ 9 - 1 = 8 /\ 10 - 1 = 9
  OBVIOUS
<1>1. \E w \in 1 .. 10 : Fits(w)
  <2>1. CASE n < 10
    <3>1. Fits(1) /\ 1 \in 1 .. 10
      BY <2>1, Powers, SMT
    <3>2. QED
      BY <3>1
  <2>2. CASE 10 <= n /\ n < 100
    <3>1. Fits(2) /\ 2 \in 1 .. 10
      BY <1>0, <2>2, Powers, SMT
    <3>2. QED
      BY <3>1
  <2>3. CASE 100 <= n /\ n < 1000
    <3>1. Fits(3) /\ 3 \in 1 .. 10
      BY <1>0, <2>3, Powers, SMT
    <3>2. QED
      BY <3>1
  <2>4. CASE 1000 <= n /\ n < 10000
    <3>1. Fits(4) /\ 4 \in 1 .. 10
      BY <1>0, <2>4, Powers, SMT
    <3>2. QED
      BY <3>1
  <2>5. CASE 10000 <= n /\ n < 100000
    <3>1. Fits(5) /\ 5 \in 1 .. 10
      BY <1>0, <2>5, Powers, SMT
    <3>2. QED
      BY <3>1
  <2>6. CASE 100000 <= n /\ n < 1000000
    <3>1. Fits(6) /\ 6 \in 1 .. 10
      BY <1>0, <2>6, Powers, SMT
    <3>2. QED
      BY <3>1
  <2>7. CASE 1000000 <= n /\ n < 10000000
    <3>1. Fits(7) /\ 7 \in 1 .. 10
      BY <1>0, <2>7, Powers, SMT
    <3>2. QED
      BY <3>1
  <2>8. CASE 10000000 <= n /\ n < 100000000
    <3>1. Fits(8) /\ 8 \in 1 .. 10
      BY <1>0, <2>8, Powers, SMT
    <3>2. QED
      BY <3>1
  <2>9. CASE 100000000 <= n /\ n < 1000000000
    <3>1. Fits(9) /\ 9 \in 1 .. 10
      BY <1>0, <2>9, Powers, SMT
    <3>2. QED
      BY <3>1
  <2>10. CASE 1000000000 <= n
    <3>1. Fits(10) /\ 10 \in 1 .. 10
      BY <1>0, <2>10, Powers, SMT
    <3>2. QED
      BY <3>1
  <2>11. QED
    BY <2>1, <2>2, <2>3, <2>4, <2>5, <2>6, <2>7, <2>8, <2>9, <2>10, SMT DEF Numbers
<1>2. DecimalWidth(n) = CHOOSE w \in 1 .. 10 : Fits(w)
  BY DEF DecimalWidth
<1> HIDE DEF Fits
<1>3. DecimalWidth(n) \in 1 .. 10 /\ Fits(DecimalWidth(n))
  BY <1>1, <1>2
<1>4. QED
  BY <1>3 DEF Fits

\* The number of the first i digits of w.
Part(n, w, i) == IF i = 0 THEN 0 ELSE n \div PowerOfTen(w - i)

\* The next digit is the one it lacks.
LEMMA TenTimes ==
  ASSUME NEW n \in Nat, NEW k \in 0 .. 8
  PROVE  n \div PowerOfTen(k) = (n \div PowerOfTen(k + 1)) * 10 + ((n \div PowerOfTen(k)) % 10)
<1>1. k \in {0, 1, 2, 3, 4, 5, 6, 7, 8}
  OBVIOUS
<1>2. CASE k = 0
  <2>1. n \div 1 = (n \div 10) * 10 + ((n \div 1) % 10)
    BY SMT
  <2>2. 0 + 1 = 1
    BY SMT
  <2>3. QED
    BY <1>2, <2>1, <2>2, Powers, SMT
<1>3. CASE k = 1
  <2>1. n \div 10 = (n \div 100) * 10 + ((n \div 10) % 10)
    BY SMT
  <2>2. 1 + 1 = 2
    BY SMT
  <2>3. QED
    BY <1>3, <2>1, <2>2, Powers, SMT
<1>4. CASE k = 2
  <2>1. n \div 100 = (n \div 1000) * 10 + ((n \div 100) % 10)
    BY SMT
  <2>2. 2 + 1 = 3
    BY SMT
  <2>3. QED
    BY <1>4, <2>1, <2>2, Powers, SMT
<1>5. CASE k = 3
  <2>1. n \div 1000 = (n \div 10000) * 10 + ((n \div 1000) % 10)
    BY SMT
  <2>2. 3 + 1 = 4
    BY SMT
  <2>3. QED
    BY <1>5, <2>1, <2>2, Powers, SMT
<1>6. CASE k = 4
  <2>1. n \div 10000 = (n \div 100000) * 10 + ((n \div 10000) % 10)
    BY SMT
  <2>2. 4 + 1 = 5
    BY SMT
  <2>3. QED
    BY <1>6, <2>1, <2>2, Powers, SMT
<1>7. CASE k = 5
  <2>1. n \div 100000 = (n \div 1000000) * 10 + ((n \div 100000) % 10)
    BY SMT
  <2>2. 5 + 1 = 6
    BY SMT
  <2>3. QED
    BY <1>7, <2>1, <2>2, Powers, SMT
<1>8. CASE k = 6
  <2>1. n \div 1000000 = (n \div 10000000) * 10 + ((n \div 1000000) % 10)
    BY SMT
  <2>2. 6 + 1 = 7
    BY SMT
  <2>3. QED
    BY <1>8, <2>1, <2>2, Powers, SMT
<1>9. CASE k = 7
  <2>1. n \div 10000000 = (n \div 100000000) * 10 + ((n \div 10000000) % 10)
    BY SMT
  <2>2. 7 + 1 = 8
    BY SMT
  <2>3. QED
    BY <1>9, <2>1, <2>2, Powers, SMT
<1>10. CASE k = 8
  <2>1. n \div 100000000 = (n \div 1000000000) * 10 + ((n \div 100000000) % 10)
    BY SMT
  <2>2. 8 + 1 = 9
    BY SMT
  <2>3. QED
    BY <1>10, <2>1, <2>2, Powers, SMT
<1>11. QED
  BY <1>1, <1>2, <1>3, <1>4, <1>5, <1>6, <1>7, <1>8, <1>9, <1>10

\* The first digit is all that is left at its place.
LEMMA FirstDigit ==
  ASSUME NEW n \in Numbers, NEW w \in 1 .. 10, w < 10 => n < PowerOfTen(w)
  PROVE  n \div PowerOfTen(w - 1) = (n \div PowerOfTen(w - 1)) % 10
<1>1. w \in {1, 2, 3, 4, 5, 6, 7, 8, 9, 10}
  OBVIOUS
<1>2. CASE w = 1
  <2>1. 1 - 1 = 0 /\ PowerOfTen(0) = 1 /\ n \in Nat /\ n < 10
    BY <1>2, Powers, SMT DEF Numbers
  <2>2. n \div 1 = (n \div 1) % 10
    BY <2>1, SMT
  <2>3. QED
    BY <1>2, <2>1, <2>2
<1>3. CASE w = 2
  <2>1. 2 - 1 = 1 /\ PowerOfTen(1) = 10 /\ n \in Nat /\ n < 100
    BY <1>3, Powers, SMT DEF Numbers
  <2>2. n \div 10 = (n \div 10) % 10
    BY <2>1, SMT
  <2>3. QED
    BY <1>3, <2>1, <2>2
<1>4. CASE w = 3
  <2>1. 3 - 1 = 2 /\ PowerOfTen(2) = 100 /\ n \in Nat /\ n < 1000
    BY <1>4, Powers, SMT DEF Numbers
  <2>2. n \div 100 = (n \div 100) % 10
    BY <2>1, SMT
  <2>3. QED
    BY <1>4, <2>1, <2>2
<1>5. CASE w = 4
  <2>1. 4 - 1 = 3 /\ PowerOfTen(3) = 1000 /\ n \in Nat /\ n < 10000
    BY <1>5, Powers, SMT DEF Numbers
  <2>2. n \div 1000 = (n \div 1000) % 10
    BY <2>1, SMT
  <2>3. QED
    BY <1>5, <2>1, <2>2
<1>6. CASE w = 5
  <2>1. 5 - 1 = 4 /\ PowerOfTen(4) = 10000 /\ n \in Nat /\ n < 100000
    BY <1>6, Powers, SMT DEF Numbers
  <2>2. n \div 10000 = (n \div 10000) % 10
    BY <2>1, SMT
  <2>3. QED
    BY <1>6, <2>1, <2>2
<1>7. CASE w = 6
  <2>1. 6 - 1 = 5 /\ PowerOfTen(5) = 100000 /\ n \in Nat /\ n < 1000000
    BY <1>7, Powers, SMT DEF Numbers
  <2>2. n \div 100000 = (n \div 100000) % 10
    BY <2>1, SMT
  <2>3. QED
    BY <1>7, <2>1, <2>2
<1>8. CASE w = 7
  <2>1. 7 - 1 = 6 /\ PowerOfTen(6) = 1000000 /\ n \in Nat /\ n < 10000000
    BY <1>8, Powers, SMT DEF Numbers
  <2>2. n \div 1000000 = (n \div 1000000) % 10
    BY <2>1, SMT
  <2>3. QED
    BY <1>8, <2>1, <2>2
<1>9. CASE w = 8
  <2>1. 8 - 1 = 7 /\ PowerOfTen(7) = 10000000 /\ n \in Nat /\ n < 100000000
    BY <1>9, Powers, SMT DEF Numbers
  <2>2. n \div 10000000 = (n \div 10000000) % 10
    BY <2>1, SMT
  <2>3. QED
    BY <1>9, <2>1, <2>2
<1>10. CASE w = 9
  <2>1. 9 - 1 = 8 /\ PowerOfTen(8) = 100000000 /\ n \in Nat /\ n < 1000000000
    BY <1>10, Powers, SMT DEF Numbers
  <2>2. n \div 100000000 = (n \div 100000000) % 10
    BY <2>1, SMT
  <2>3. QED
    BY <1>10, <2>1, <2>2
<1>11. CASE w = 10
  <2>1. 10 - 1 = 9 /\ PowerOfTen(9) = 1000000000 /\ n \in Nat /\ n < 2147483648
    BY <1>11, Powers, SMT DEF Numbers
  <2>2. n \div 1000000000 = (n \div 1000000000) % 10
    BY <2>1, SMT
  <2>3. QED
    BY <1>11, <2>1, <2>2
<1>12. QED
  BY <1>1, <1>2, <1>3, <1>4, <1>5, <1>6, <1>7, <1>8, <1>9, <1>10, <1>11

\* A digit more.
LEMMA PartStep ==
  ASSUME NEW n \in Numbers, NEW w \in 1 .. 10, w < 10 => n < PowerOfTen(w), NEW i \in 0 .. w - 1
  PROVE  /\ Part(n, w, i + 1) = Part(n, w, i) * 10 + ((n \div PowerOfTen(w - (i + 1))) % 10)
         /\ (n \div PowerOfTen(w - (i + 1))) % 10 \in 0 .. 9
<1> DEFINE k == w - (i + 1)
           d == (n \div PowerOfTen(k)) % 10
<1>1. k \in 0 .. 9 /\ i + 1 # 0
  OBVIOUS
<1>21. i = 0 => k = w - 1
  OBVIOUS
<1>22. i # 0 => k \in 0 .. 8 /\ w - i = k + 1
  OBVIOUS
<1> HIDE DEF k
<1>2. k \in {0, 1, 2, 3, 4, 5, 6, 7, 8, 9} /\ n \in Nat
  BY <1>1, SMT DEF Numbers
<1>3. PowerOfTen(k) \in Nat \ {0}
  BY <1>2, Powers, SMT
<1>4. n \div PowerOfTen(k) \in Nat
  <2> DEFINE p == PowerOfTen(k)
  <2>1. p \in Nat \ {0}
    BY <1>3
  <2> HIDE DEF p
  <2>2. n \div p \in Nat
    BY <1>2, <2>1
  <2>3. QED
    BY <2>2 DEF p
<1>5. d \in 0 .. 9
  BY <1>4
<1>6. Part(n, w, i + 1) = n \div PowerOfTen(k)
  BY <1>1 DEF Part, k
<1>7. Part(n, w, i) * 10 + d = n \div PowerOfTen(k)
  <2>1. CASE i = 0
    <3>1. Part(n, w, i) = 0
      BY <2>1 DEF Part
    <3>2. d = n \div PowerOfTen(k)
      BY <1>21, <2>1, FirstDigit
    <3>3. QED
      BY <1>5, <3>1, <3>2
  <2>2. CASE i # 0
    <3>1. Part(n, w, i) = n \div PowerOfTen(k + 1)
      BY <1>22, <2>2 DEF Part
    <3>2. QED
      BY <1>2, <1>22, <2>2, <3>1, TenTimes
  <2>3. QED
    BY <2>1, <2>2
<1> HIDE DEF d
<1>8. QED
  BY <1>5, <1>6, <1>7 DEF d, k

-----------------------------------------------------------------------------
\* Reading a level.

Reading(levels, hardened, number) ==
  [levels |-> levels, level |-> [hardened |-> hardened, number |-> number]]

\* What each symbol does.
LEMMA Symbols ==
  ASSUME NEW l, NEW h \in BOOLEAN, NEW m \in Nat
  PROVE  /\ \A d \in 0 .. 9 : ReadSymbol(Reading(l, h, m), d) = Reading(l, h, m * 10 + d)
         /\ ReadSymbol(Reading(l, h, m), Space) = Reading(l, h, m)
         /\ ReadSymbol(Reading(l, h, m), Prime) = Reading(l, TRUE, m)
         /\ ReadSymbol(Reading(l, h, m), Slash)
              = Reading(Append(l, [hardened |-> h, number |-> m]), FALSE, 0)
<1> DEFINE r == Reading(l, h, m)
<1>1. /\ r.levels = l /\ r.level = [hardened |-> h, number |-> m]
      /\ r = [levels |-> l, level |-> [hardened |-> h, number |-> m]]
  BY DEF Reading
<1>2. ASSUME NEW d \in 0 .. 9
      PROVE  ReadSymbol(r, d) = Reading(l, h, m * 10 + d)
  <2>1. d # Space /\ d # Slash /\ d # Prime
    BY DEF Space, Slash, Prime
  <2>2. ReadSymbol(r, d) = [r EXCEPT !.level.number = @ * 10 + d]
    BY <2>1, Zenon DEF ReadSymbol
  <2>3. QED
    BY <2>2 DEF Reading
<1>3. ReadSymbol(r, Space) = r
  <2>1. Space # Slash /\ Space # Prime
    BY DEF Space, Slash, Prime
  <2>2. QED
    BY <2>1, Zenon DEF ReadSymbol
<1>4. ReadSymbol(r, Prime) = Reading(l, TRUE, m)
  <2>1. Prime # Space /\ Prime # Slash
    BY DEF Space, Slash, Prime
  <2>2. ReadSymbol(r, Prime) = [r EXCEPT !.level.hardened = TRUE]
    BY <2>1, Zenon DEF ReadSymbol
  <2>3. QED
    BY <2>2 DEF Reading
<1>5. ReadSymbol(r, Slash) = Reading(Append(l, [hardened |-> h, number |-> m]), FALSE, 0)
  <2>1. Slash # Space /\ Slash # Prime
    BY DEF Space, Slash, Prime
  <2>2. ReadSymbol(r, Slash) = [levels |-> Append(r.levels, r.level), level |-> NoLevel]
    BY <2>1, Zenon DEF ReadSymbol
  <2>3. QED
    BY <1>1, <2>2 DEF Reading, NoLevel
<1>6. QED
  BY <1>2, <1>3, <1>4, <1>5

\* The digits of a number, read after anything, give the number.
LEMMA DigitsTold ==
  ASSUME NEW text \in Seq(Nat), NEW l, NEW n \in Numbers, Told(text, Reading(l, FALSE, 0))
  PROVE  /\ Decimal(n) \in Seq(Nat) /\ Len(Decimal(n)) \in 1 .. 10
         /\ text \o Decimal(n) \in Seq(Nat)
         /\ Told(text \o Decimal(n), Reading(l, FALSE, n))
<1> DEFINE w == DecimalWidth(n)
           digit(i) == (n \div PowerOfTen(w - i)) % 10
           d == Decimal(n)
           told(i) == Told(text \o SubSeq(d, 1, i), Reading(l, FALSE, Part(n, w, i)))
           T == {i \in Nat : i <= w => told(i)}
<1>1. w \in 1 .. 10 /\ (w < 10 => n < PowerOfTen(w))
  BY WidthIs
<1>2. d = [i \in 1 .. w |-> digit(i)]
  BY DEF Decimal
<1> HIDE DEF w
<1>3. ASSUME NEW i \in 0 .. w - 1
      PROVE  /\ Part(n, w, i + 1) = Part(n, w, i) * 10 + digit(i + 1)
             /\ digit(i + 1) \in 0 .. 9
  BY <1>1, PartStep
<1>4. \A i \in 1 .. w : digit(i) \in 0 .. 9
  <2>1. TAKE i \in 1 .. w
  <2>2. i - 1 \in 0 .. w - 1 /\ (i - 1) + 1 = i
    BY <1>1
  <2>3. digit((i - 1) + 1) \in 0 .. 9
    BY <1>3, <2>2
  <2>4. QED
    BY <2>2, <2>3
<1> HIDE DEF digit, d
<1>5. d \in Seq(Nat) /\ Len(d) = w /\ \A i \in 1 .. w : d[i] = digit(i)
  <2>1. w \in Nat /\ \A i \in 1 .. w : digit(i) \in Nat
    BY <1>1, <1>4
  <2>2. QED
    BY <1>2, <2>1
<1>6. \A i \in 0 .. w : Part(n, w, i) \in Nat
  <2> DEFINE S == {i \in Nat : i <= w => Part(n, w, i) \in Nat}
  <2>1. 0 \in S
    BY DEF Part
  <2>2. ASSUME NEW i \in Nat, i \in S PROVE i + 1 \in S
    <3>1. SUFFICES ASSUME i + 1 <= w PROVE Part(n, w, i + 1) \in Nat
      OBVIOUS
    <3>2. i \in 0 .. w - 1 /\ i <= w
      BY <1>1, <3>1
    <3>3. digit(i + 1) \in Nat
      <4>1. digit(i + 1) \in 0 .. 9
        BY <1>3, <3>2
      <4>2. QED
        BY <4>1
    <3>31. Part(n, w, i) \in Nat
      BY <2>2, <3>2
    <3>4. QED
      BY <1>3, <3>2, <3>3, <3>31
  <2>3. Nat \subseteq S
    <3> HIDE DEF S
    <3>1. QED
      BY <2>1, <2>2, NaturalsIn
  <2>4. QED
    BY <1>1, <2>3
<1>7. told(0)
  <2>1. SubSeq(d, 1, 0) = <<>> /\ text \o <<>> = text
    BY <1>5
  <2>2. Part(n, w, 0) = 0
    BY DEF Part
  <2>3. QED
    BY <2>1, <2>2
<1>8. ASSUME NEW i \in Nat, i + 1 <= w, told(i) PROVE told(i + 1)
  <2>2. i \in 0 .. w - 1 /\ i \in 0 .. w /\ i <= w /\ i + 1 \in 1 .. w
    BY <1>1, <1>8
  <2> DEFINE s == SubSeq(d, 1, i)
             u == text \o s
             c == digit(i + 1)
  <2>3. s \in Seq(Nat) /\ SubSeq(d, 1, i + 1) = Append(s, c)
    BY <1>5, <2>2
  <2>4. Told(u, Reading(l, FALSE, Part(n, w, i)))
    BY <1>8
  <2>5. c \in 0 .. 9 /\ Part(n, w, i + 1) = Part(n, w, i) * 10 + c
    BY <1>3, <2>2
  <2> HIDE DEF s, c
  <2>6. u \in Seq(Nat) /\ text \o Append(s, c) = Append(u, c)
    BY <2>3, <2>5
  <2> HIDE DEF u
  <2>61. c \in Nat /\ Part(n, w, i) \in Nat
    BY <1>6, <2>2, <2>5
  <2> DEFINE r == Reading(l, FALSE, Part(n, w, i))
  <2>7. Told(Append(u, c), ReadSymbol(r, c))
    <3> HIDE DEF r
    <3>1. QED
      BY <2>4, <2>6, <2>61, MoreTold DEF r
  <2>8. ReadSymbol(r, c) = Reading(l, FALSE, Part(n, w, i + 1))
    <3> DEFINE m == Part(n, w, i)
    <3>1. m \in Nat /\ FALSE \in BOOLEAN
      BY <2>61
    <3> HIDE DEF m
    <3>2. ReadSymbol(Reading(l, FALSE, m), c) = Reading(l, FALSE, m * 10 + c)
      BY <2>5, <3>1, Symbols
    <3>3. QED
      BY <2>5, <3>2 DEF m
  <2>9. QED
    BY <2>3, <2>6, <2>7, <2>8
<1> HIDE DEF told
<1>9. told(w)
  <2>1. 0 \in T
    BY <1>7
  <2>2. ASSUME NEW i \in Nat, i \in T PROVE i + 1 \in T
    <3>1. SUFFICES ASSUME i + 1 <= w PROVE told(i + 1)
      OBVIOUS
    <3>2. i <= w
      BY <1>1, <3>1
    <3>3. QED
      BY <1>8, <2>2, <3>1, <3>2
  <2>3. Nat \subseteq T
    <3> HIDE DEF T
    <3>1. QED
      BY <2>1, <2>2, NaturalsIn
  <2>4. QED
    BY <1>1, <2>3
<1>10. SubSeq(d, 1, w) = d /\ text \o d \in Seq(Nat)
  BY <1>1, <1>5
<1>11. Part(n, w, w) = n
  <2>1. w # 0 /\ w - w = 0 /\ PowerOfTen(0) = 1
    BY <1>1, Powers, SMT
  <2>2. n \div 1 = n
    BY SMT DEF Numbers
  <2>3. QED
    BY <2>1, <2>2 DEF Part
<1>12. Told(text \o d, Reading(l, FALSE, n))
  BY <1>9, <1>10, <1>11 DEF told
<1>13. QED
  BY <1>1, <1>5, <1>10, <1>12 DEF d

-----------------------------------------------------------------------------
\* The text of the levels printed so far tells them.

FreshLevel(levels) == Reading(levels, FALSE, 0)

PathInv ==
  /\ path \in Paths \cup {<<>>}
  /\ printing \in {"idle", "levels", "printed"}
  /\ out \in Seq(Nat)
  /\ printing = "idle" => at = 0 /\ out = <<>>
  /\ printing = "levels" =>
       /\ at \in 0 .. Len(path)
       /\ Len(out) \in 1 .. 1 + 12 * at
       /\ at > 0 => out[Len(out)] = Slash
       /\ Told(out, FreshLevel(SubSeq(path, 1, at)))
  /\ printing = "printed" =>
       /\ Len(out) < MaxOut
       /\ path # <<>> => Told(Append(out, Slash), FreshLevel(path))

\* A path and its levels.
LEMMA PathIs ==
  ASSUME NEW p \in Paths \cup {<<>>}
  PROVE  /\ p \in Seq(AllLevels) /\ Len(p) \in Nat /\ Len(p) <= MAX_BIP32_PATH
         /\ \A i \in 1 .. Len(p) : p[i] \in AllLevels
<1>1. MAX_BIP32_PATH \in Nat
  BY KeyPathAssumption
<1>2. CASE p \in Paths
  <2>1. p \in Seq(AllLevels) /\ Len(p) <= MAX_BIP32_PATH
    BY <1>2, KeyPathAssumption
  <2>2. QED
    BY <2>1, LenProperties, ElementOfSeq
<1>3. CASE p = <<>>
  <2>1. <<>> \in Seq(AllLevels) /\ Len(<<>>) = 0
    OBVIOUS
  <2>2. QED
    BY <1>1, <1>3, <2>1
<1>4. QED
  BY <1>2, <1>3

\* The room is enough for one level more, and what is behind it.
LEMMA RoomIs ==
  ASSUME NEW k \in Nat, k < MAX_BIP32_PATH
  PROVE  /\ MaxOut \in Nat
         /\ 1 + 12 * k + 10 < MaxOut - 2 /\ 1 + 12 * (k + 1) < MaxOut
<1>1. MaxOut \in Nat /\ MAX_BIP32_PATH \in Nat /\ MaxOut >= 1 + MAX_BIP32_PATH * (10 + 2) + 1
  BY KeyPathAssumption
<1>2. MAX_BIP32_PATH * (10 + 2) = MAX_BIP32_PATH * 12 /\ MAX_BIP32_PATH * 12 >= 12 * (k + 1)
  BY <1>1
<1>3. QED
  BY <1>1, <1>2

\* A sequence without its last element.
LEMMA LastCut ==
  ASSUME NEW s \in Seq(Nat), NEW n \in Nat, n = Len(s), n >= 1
  PROVE  /\ SubSeq(s, 1, n - 1) \in Seq(Nat) /\ Len(SubSeq(s, 1, n - 1)) = n - 1
         /\ s = Append(SubSeq(s, 1, n - 1), s[n])
<1> DEFINE f == SubSeq(s, 1, n - 1)
<1>1. n - 1 \in Nat /\ f = [i \in 1 .. n - 1 |-> s[i]] /\ \A i \in 1 .. n : s[i] \in Nat
  BY ElementOfSeq
<1>2. f \in Seq(Nat) /\ Len(f) = n - 1
  BY <1>1
<1>3. Append(f, s[n]) \in Seq(Nat) /\ Len(Append(f, s[n])) = n
  BY <1>1, <1>2
<1>4. \A i \in 1 .. n : Append(f, s[n])[i] = s[i]
  BY <1>1, <1>2
<1>5. s = Append(f, s[n])
  BY <1>3, <1>4, SeqEqual
<1>6. QED
  BY <1>2, <1>5

\* Sums of lengths.
LEMMA LengthsFit ==
  ASSUME NEW k \in Nat, NEW a \in Int, NEW b \in Int, NEW c \in Int, NEW m \in Nat,
         a >= 1, a <= 1 + 12 * k, b >= 1, b <= 10, c = a + b, 1 + 12 * k + 10 < m - 2
  PROVE  /\ b <= m - a - 1
         /\ c >= 2 /\ c <= 1 + 12 * k + 10 /\ ~(c >= m - 2)
<1>1. QED
  OBVIOUS

\* A level is printed.
LEMMA LevelPrinted ==
  ASSUME PathInv, PrintLevel
  PROVE  PathInv'
<1> DEFINE level == path[at + 1]
           n == level.number
           h == level.hardened
           l == SubSeq(path, 1, at)
           d == Decimal(n)
           text == out \o d
<1>1. /\ printing = "levels" /\ at \in Nat /\ at < Len(path) /\ at' = at + 1 /\ path' = path
      /\ path \in Seq(AllLevels) /\ Len(path) \in Nat /\ Len(path) <= MAX_BIP32_PATH
      /\ at + 1 \in 1 .. Len(path)
  <2>1. path \in Paths \cup {<<>>}
    BY DEF PathInv
  <2>2. path \in Seq(AllLevels) /\ Len(path) \in Nat /\ Len(path) <= MAX_BIP32_PATH
    BY <2>1, PathIs
  <2>3. /\ printing = "levels" /\ at < Len(path) /\ at' = at + 1 /\ path' = path
        /\ at \in 0 .. Len(path)
    BY DEF PathInv, PrintLevel
  <2>4. QED
    BY <2>2, <2>3
<1>2. /\ out \in Seq(Nat) /\ Len(out) \in 1 .. 1 + 12 * at
      /\ Told(out, Reading(l, FALSE, 0))
  BY <1>1 DEF PathInv, FreshLevel
<1>3. level \in AllLevels
  BY <1>1, ElementOfSeq
<1>4. n \in Numbers /\ h \in BOOLEAN /\ n \in Nat /\ level = [hardened |-> h, number |-> n]
  <2>1. n \in Numbers /\ h \in BOOLEAN /\ level = [hardened |-> h, number |-> n]
    BY <1>3 DEF AllLevels
  <2>2. \A m \in Numbers : m \in Nat
    BY DEF Numbers
  <2>3. QED
    BY <2>1, <2>2
<1>5. d \in Seq(Nat) /\ Len(d) \in 1 .. 10 /\ text \in Seq(Nat) /\ Told(text, Reading(l, FALSE, n))
  <2> HIDE DEF n, l
  <2>1. QED
    BY <1>2, <1>4, DigitsTold
<1>6. /\ MaxOut \in Nat /\ MAX_BIP32_PATH \in Nat
      /\ 1 + 12 * at + 10 < MaxOut - 2
  <2>1. at < MAX_BIP32_PATH /\ MAX_BIP32_PATH \in Nat
    BY <1>1, KeyPathAssumption
  <2>2. QED
    BY <1>1, <2>1, RoomIs
<1>7. Append(l, level) = SubSeq(path, 1, at + 1)
  BY <1>1
<1>71. /\ Len(text) = Len(out) + Len(d) /\ Len(out) \in Int /\ Len(d) \in Int
       /\ Len(out) >= 1 /\ Len(out) <= 1 + 12 * at /\ Len(d) >= 1 /\ Len(d) <= 10
  <2> HIDE DEF d
  <2>1. Len(text) = Len(out) + Len(d)
    BY <1>2, <1>5, ConcatProperties
  <2> HIDE DEF text
  <2>2. Len(out) \in Int /\ Len(out) >= 1 /\ Len(out) <= 1 + 12 * at
    BY <1>1, <1>2
  <2>3. Len(d) \in Int /\ Len(d) >= 1 /\ Len(d) <= 10
    <3>1. Len(d) \in 1 .. 10
      BY <1>5
    <3>2. \A b \in 1 .. 10 : b \in Int /\ b >= 1 /\ b <= 10
      OBVIOUS
    <3>3. QED
      BY ONLY <3>1, <3>2, Zenon
  <2>4. QED
    BY <2>1, <2>2, <2>3
<1>72. /\ Len(d) <= MaxOut - Len(out) - 1 /\ Len(text) \in Int
       /\ Len(text) >= 2 /\ Len(text) <= 1 + 12 * at + 10 /\ ~(Len(text) >= MaxOut - 2)
  <2> DEFINE a == Len(out)
             b == Len(d)
             c == Len(text)
  <2>1. /\ a \in Int /\ b \in Int /\ a >= 1 /\ a <= 1 + 12 * at /\ b >= 1 /\ b <= 10 /\ c = a + b
    BY <1>71
  <2> HIDE DEF a, b, c
  <2>2. c \in Int
    BY <2>1
  <2>3. b <= MaxOut - a - 1 /\ c >= 2 /\ c <= 1 + 12 * at + 10 /\ ~(c >= MaxOut - 2)
    BY <1>1, <1>6, <2>1, <2>2, LengthsFit
  <2>4. QED
    BY <2>2, <2>3 DEF a, b, c
<1>8. Appended(out, d) = text
  BY <1>72 DEF Appended
<1>9. /\ Len(text) \in Int /\ Len(text) >= 2 /\ Len(text) <= 1 + 12 * at + 10
      /\ ~NoRoom(text)
  BY <1>72 DEF NoRoom
<1>10. printing' = printing /\ out' = text \o Marks(level)
  BY <1>8, <1>9 DEF PrintLevel
<1> HIDE DEF level, n, h, l, d, text
<1>11. Prime \in Nat /\ Slash \in Nat
  BY DEF Prime, Slash
<1>12. ASSUME NEW t \in Seq(Nat), Len(t) <= 1 + 12 * at + 11, Told(t, Reading(l, h, n)), out' = Append(t, Slash)
       PROVE  PathInv'
  <2>1. Told(out', ReadSymbol(Reading(l, h, n), Slash))
    BY <1>11, <1>12, MoreTold
  <2>2. ReadSymbol(Reading(l, h, n), Slash) = FreshLevel(SubSeq(path, 1, at + 1))
    <3>1. ReadSymbol(Reading(l, h, n), Slash) = Reading(Append(l, [hardened |-> h, number |-> n]), FALSE, 0)
      BY <1>4, Symbols
    <3>2. QED
      BY <1>4, <1>7, <3>1 DEF FreshLevel
  <2>3. /\ out' \in Seq(Nat) /\ Len(out') = Len(t) + 1 /\ out'[Len(out')] = Slash
        /\ Len(t) \in Nat
    BY <1>11, <1>12, AppendProperties, LenProperties
  <2>4. Len(out') \in 1 .. 1 + 12 * (at + 1)
    BY <1>1, <1>12, <2>3
  <2>5. QED
    BY <1>1, <1>10, <2>1, <2>2, <2>3, <2>4 DEF PathInv
<1>13. CASE h
  <2> DEFINE t == Append(text, Prime)
  <2>1. out' = Append(t, Slash)
    <3>1. Marks(level) = <<Prime, Slash>>
      BY <1>13 DEF Marks, h
    <3>2. text \o <<Prime, Slash>> = Append(Append(text, Prime), Slash)
      BY <1>5, <1>11
    <3>3. QED
      BY <1>10, <3>1, <3>2
  <2>2. t \in Seq(Nat) /\ Len(t) = Len(text) + 1
    BY <1>5, <1>11, AppendProperties
  <2>3. Told(t, ReadSymbol(Reading(l, FALSE, n), Prime))
    BY <1>5, <1>11, MoreTold
  <2>4. ReadSymbol(Reading(l, FALSE, n), Prime) = Reading(l, h, n)
    <3>1. FALSE \in BOOLEAN /\ h = TRUE
      BY <1>4, <1>13
    <3>2. QED
      BY <1>4, <3>1, Symbols
  <2>5. Len(t) <= 1 + 12 * at + 11
    BY <1>1, <1>9, <2>2
  <2> HIDE DEF t
  <2>6. QED
    BY <1>12, <2>1, <2>2, <2>3, <2>4, <2>5
<1>14. CASE ~h
  <2>1. out' = Append(text, Slash)
    <3>1. Marks(level) = <<Slash>>
      BY <1>14 DEF Marks, h
    <3>2. text \o <<Slash>> = Append(text, Slash)
      BY <1>5, <1>11
    <3>3. QED
      BY <1>10, <3>1, <3>2
  <2>2. Len(text) <= 1 + 12 * at + 11
    BY <1>1, <1>9
  <2>3. h = FALSE
    BY <1>4, <1>14
  <2>4. QED
    BY <1>5, <1>12, <2>1, <2>2, <2>3
<1>15. QED
  BY <1>13, <1>14

\* A path begins with a space.
LEMMA PathStarted ==
  ASSUME PathInv, PrintStart
  PROVE  PathInv'
<1>1. at = 0 /\ at' = 0 /\ path' \in Paths /\ out' = <<Space>> /\ printing' = "levels"
  BY DEF PathInv, PrintStart
<1>2. Space \in Nat
  BY DEF Space
<1>3. out' \in Seq(Nat) /\ Len(out') = 1 /\ out' = Append(<<>>, Space) /\ <<>> \in Seq(Nat)
  BY <1>1, <1>2
<1>4. Told(out', ReadSymbol(Start, Space))
  BY <1>2, <1>3, NothingTold, MoreTold
<1>5. Start = Reading(<<>>, FALSE, 0)
  BY DEF Start, Reading, NoLevel
<1>6. ReadSymbol(Start, Space) = FreshLevel(<<>>)
  <2>1. FALSE \in BOOLEAN /\ 0 \in Nat
    OBVIOUS
  <2>2. QED
    BY <1>5, <2>1, Symbols DEF FreshLevel
<1>7. path' \in Seq(AllLevels) /\ Len(path') \in Nat
  BY <1>1, PathIs
<1>8. SubSeq(path', 1, at') = <<>>
  BY <1>1, <1>7
<1>9. Told(out', FreshLevel(SubSeq(path', 1, at')))
  BY <1>4, <1>6, <1>8
<1>10. at' \in 0 .. Len(path') /\ Len(out') \in 1 .. 1 + 12 * at' /\ ~(at' > 0)
  BY <1>1, <1>3, <1>7
<1>11. QED
  BY <1>1, <1>3, <1>9, <1>10 DEF PathInv

\* At its end the last slash is cut.
LEMMA PathEnded ==
  ASSUME PathInv, PrintEnd
  PROVE  PathInv'
<1> DEFINE n == Len(out)
<1>1. /\ printing = "levels" /\ at = Len(path) /\ printing' = "printed" /\ path' = path
      /\ out' = SubSeq(out, 1, n - 1)
  BY DEF PrintEnd
<1>2. /\ path \in Paths \cup {<<>>} /\ path \in Seq(AllLevels) /\ at \in Nat /\ at <= MAX_BIP32_PATH
  BY <1>1, PathIs DEF PathInv
<1>3. /\ out \in Seq(Nat) /\ n \in 1 .. 1 + 12 * at
      /\ at > 0 => out[n] = Slash
      /\ Told(out, FreshLevel(SubSeq(path, 1, at)))
  BY <1>1 DEF PathInv
<1>31. n \in Nat /\ n >= 1
  BY <1>2, <1>3
<1>4. out' \in Seq(Nat) /\ Len(out') = n - 1 /\ out = Append(out', out[n])
  <2> HIDE DEF n
  <2>1. n = Len(out)
    BY DEF n
  <2>2. QED
    BY <1>1, <1>3, <1>31, <2>1, LastCut
<1>5. Len(out') < MaxOut
  <2>1. MaxOut \in Nat /\ MAX_BIP32_PATH \in Nat /\ MaxOut >= 1 + MAX_BIP32_PATH * (10 + 2) + 1
    BY KeyPathAssumption
  <2>2. QED
    BY <1>2, <1>3, <1>4, <2>1
<1>6. ASSUME path # <<>> PROVE Told(Append(out', Slash), FreshLevel(path))
  <2>1. at > 0
    BY <1>1, <1>2, <1>6, EmptySeq
  <2>3. SubSeq(path, 1, at) = path
    BY <1>1, <1>2
  <2>4. QED
    BY <1>3, <1>4, <2>1, <2>3
<1>7. QED
  BY <1>1, <1>2, <1>4, <1>5, <1>6 DEF PathInv

\* Every path the commands accept is shown whole, and its text tells it: for
\* every path of up to MAX_BIP32_PATH levels of 31 bits, bip32_print_path
\* neither overflows nor cuts anything, and read back gives the levels.
THEOREM PathsAreShown == PathSpec => []PathShown
<1>1. PathInit => PathInv
  BY EmptySeq DEF PathInit, PathInv
<1>2. PathInv /\ [PathNext]_pathVars => PathInv'
  <2> SUFFICES ASSUME PathInv, [PathNext]_pathVars PROVE PathInv'
    OBVIOUS
  <2>1. CASE NextPath
    BY <2>1, EmptySeq DEF NextPath, PathInv
  <2>2. CASE UNCHANGED pathVars
    BY <2>2 DEF pathVars, PathInv
  <2>3. QED
    BY <2>1, <2>2, PathStarted, LevelPrinted, PathEnded DEF PathNext
<1>3. PathInv => PathShown
  <2> SUFFICES ASSUME PathInv PROVE PathShown
    OBVIOUS
  <2>1. Len(out) < MaxOut
    <3>1. MaxOut \in Nat /\ MAX_BIP32_PATH \in Nat /\ MaxOut >= 1 + MAX_BIP32_PATH * (10 + 2) + 1
      BY KeyPathAssumption
    <3>2. CASE printing = "idle"
      BY <3>1, <3>2 DEF PathInv
    <3>3. CASE printing = "levels"
      <4>1. at \in 0 .. Len(path) /\ Len(out) \in 1 .. 1 + 12 * at
        BY <3>3 DEF PathInv
      <4>2. Len(path) \in Nat /\ Len(path) <= MAX_BIP32_PATH
        BY PathIs DEF PathInv
      <4>3. QED
        BY <3>1, <4>1, <4>2
    <3>4. QED
      BY <3>2, <3>3 DEF PathInv
  <2>2. printing # "overflow"
    BY DEF PathInv
  <2>3. ASSUME printing = "printed", path # <<>> PROVE ReadBack(Append(out, Slash)) = path
    <3>1. Append(out, Slash) \in Seq(Nat) /\ Told(Append(out, Slash), FreshLevel(path))
      BY <2>3 DEF PathInv, Slash
    <3>2. ReadBack(Append(out, Slash)) = FreshLevel(path).levels
      BY <3>1, ToldIsRead
    <3>3. QED
      BY <3>2 DEF FreshLevel, Reading
  <2>4. QED
    BY <2>1, <2>2, <2>3 DEF PathShown
<1>4. QED
  BY <1>1, <1>2, <1>3, PTL DEF PathSpec

-----------------------------------------------------------------------------
\* BLAKE-256: first arithmetic and counting, then the context, the loop over whole
\* blocks, the buffered pieces, the padding, and the invariant of the calls.

\* The bytes of k blocks.
Sz(k) == k * BlockBytes

\* The sizes.
LEMMA Sizes ==
  /\ BlockBytes \in Nat \ {0} /\ LengthBytes \in Nat /\ 2 <= LengthBytes
  /\ Room \in Nat \ {0} /\ Room + 1 + LengthBytes = BlockBytes
  /\ Wrap \in Nat \ {0} /\ \E w \in Nat : Wrap = Sz(w)
  <1>1. /\ BlockBytes \in Nat /\ LengthBytes \in 2 .. BlockBytes - 2
        /\ Wrap \in Nat \ {0} /\ Wrap % BlockBytes = 0
    BY HashAssumption DEF HashAssumption
  <1>2. BlockBytes \in Nat \ {0}
    BY <1>1
  <1>3. \E w \in Nat : Wrap = Sz(w)
    <2> DEFINE w == Wrap \div BlockBytes
    <2>1. w \in Int /\ Wrap = BlockBytes * w + (Wrap % BlockBytes)
      BY <1>1, <1>2, DivMod
    <2> HIDE DEF w
    <2>2. Wrap = w * BlockBytes
      BY <1>1, <1>2, <2>1
    <2>3. w \in Nat
      <3>1. w < 0 => w * BlockBytes + BlockBytes <= 0 * BlockBytes
        BY <1>2, <2>1, Multiples
      <3>2. 0 * BlockBytes = 0 /\ w * BlockBytes \in Int
        BY <1>2, <2>1, Multiples
      <3>3. QED
        BY <1>1, <1>2, <2>1, <2>2, <3>1, <3>2
    <2>4. QED
      BY <2>2, <2>3 DEF Sz
  <1>4. QED
    BY <1>1, <1>2, <1>3 DEF Room

\* Multiples of the size of a block.
LEMMA SzSteps ==
  ASSUME NEW j \in Int, NEW k \in Int
  PROVE  /\ Sz(k) \in Int /\ Sz(0) = 0 /\ Sz(k + 1) = Sz(k) + BlockBytes
         /\ Sz(k - 1) = Sz(k) - BlockBytes
         /\ j <= k => Sz(j) <= Sz(k)
         /\ j < k => Sz(j) + BlockBytes <= Sz(k)
         /\ k \in Nat => Sz(k) \in Nat
  BY Sizes, Multiples DEF Sz

\* The two words of the counter follow the bytes of the blocks, past the end of
\* the first of them.
LEMMA CountsUp ==
  ASSUME NEW k \in Nat
  PROVE  LET t0 == Sz(k) % Wrap
             t1 == Sz(k) \div Wrap
             n == (t0 + BlockBytes) % Wrap
         IN  /\ n = Sz(k + 1) % Wrap
             /\ (IF n = 0 THEN t1 + 1 ELSE t1) = Sz(k + 1) \div Wrap
             /\ t0 \in Nat /\ t1 \in Nat /\ t0 + BlockBytes <= Wrap
  <1> DEFINE t0 == Sz(k) % Wrap
             t1 == Sz(k) \div Wrap
             n == (t0 + BlockBytes) % Wrap
  <1>0. BlockBytes \in Nat \ {0} /\ Wrap \in Nat \ {0}
    BY Sizes
  <1>1. PICK w \in Nat : Wrap = Sz(w)
    BY Sizes
  <1>2. Sz(k) \in Nat /\ Sz(k + 1) = Sz(k) + BlockBytes
    BY SzSteps
  <1>3. t1 \in Int /\ t0 \in 0 .. Wrap - 1 /\ Sz(k) = Wrap * t1 + t0
    <2>1. Sz(k) \in Int
      BY <1>2
    <2>2. QED
      BY <1>0, <2>1, DivMod, Zenon
  <1> HIDE DEF t0, t1
  <1>4. Sz(k) = t1 * Wrap + t0 /\ t1 * Wrap \in Int
    BY <1>0, <1>3, Multiples
  <1>5. t1 \in Nat
    <2>1. t1 < 0 => t1 * Wrap + Wrap <= 0 * Wrap
      BY <1>0, <1>3, Multiples
    <2>2. 0 * Wrap = 0
      BY <1>0
    <2>3. QED
      BY <1>0, <1>2, <1>3, <1>4, <2>1, <2>2
  <1>6. t0 = Sz(k - t1 * w)
    <2>1. t1 * w \in Int /\ k - t1 * w \in Int
      BY <1>3
    <2>2. t1 * Wrap = (t1 * w) * BlockBytes
      BY <1>0, <1>1, <1>3 DEF Sz
    <2>3. (k - t1 * w) * BlockBytes = k * BlockBytes - (t1 * w) * BlockBytes
      <3> DEFINE x == t1 * w
      <3>1. x \in Int
        BY <2>1
      <3> HIDE DEF x
      <3>2. (k - x) * BlockBytes = k * BlockBytes - x * BlockBytes
        BY <1>0, <3>1
      <3>3. QED
        BY <3>2 DEF x
    <2>4. QED
      BY <1>2, <1>3, <1>4, <2>2, <2>3 DEF Sz
  <1>7. t0 + BlockBytes <= Wrap
    <2> DEFINE j == k - t1 * w
    <2>1. j \in Int
      BY <1>3
    <2> HIDE DEF j
    <2>2. t0 = Sz(j)
      BY <1>6 DEF j
    <2>3. j < w => Sz(j) + BlockBytes <= Sz(w)
      BY <2>1, SzSteps
    <2>4. w <= j => Sz(w) <= Sz(j)
      BY <2>1, SzSteps
    <2>5. QED
      BY <1>0, <1>1, <1>3, <2>1, <2>2, <2>3, <2>4
  <1>8. CASE t0 + BlockBytes = Wrap
    <2>1. Sz(k + 1) = (t1 + 1) * Wrap + 0
      <3>1. (t1 + 1) * Wrap = t1 * Wrap + Wrap
        BY <1>0, <1>3, Multiples
      <3>2. QED
        BY <1>0, <1>2, <1>3, <1>4, <1>8, <3>1
    <2>2. Sz(k + 1) \div Wrap = t1 + 1 /\ Sz(k + 1) % Wrap = 0
      <3>1. t1 + 1 \in Int /\ 0 \in 0 .. Wrap - 1
        BY <1>0, <1>3
      <3>2. QED
        BY <1>0, <2>1, <3>1, DivisionIs
    <2>3. n = 0
      <3>1. 1 \in Int /\ 0 \in 0 .. Wrap - 1
        BY <1>0
      <3>2. (1 * Wrap + 0) % Wrap = 0
        BY <1>0, <3>1, DivisionIs
      <3>3. 1 * Wrap + 0 = t0 + BlockBytes
        BY <1>0, <1>8
      <3>4. QED
        BY <3>2, <3>3
    <2>4. QED
      BY <1>3, <1>5, <1>7, <2>2, <2>3 DEF t0, t1
  <1>9. CASE t0 + BlockBytes < Wrap
    <2>1. t0 + BlockBytes \in 0 .. Wrap - 1 /\ t0 + BlockBytes # 0
      BY <1>0, <1>3, <1>9
    <2>2. Sz(k + 1) = t1 * Wrap + (t0 + BlockBytes)
      BY <1>0, <1>2, <1>3, <1>4
    <2>3. Sz(k + 1) \div Wrap = t1 /\ Sz(k + 1) % Wrap = t0 + BlockBytes
      BY <1>0, <1>3, <2>1, <2>2, DivisionIs
    <2>4. n = t0 + BlockBytes
      <3>1. (0 * Wrap + (t0 + BlockBytes)) % Wrap = t0 + BlockBytes
        BY <1>0, <2>1, DivisionIs
      <3>2. 0 * Wrap + (t0 + BlockBytes) = t0 + BlockBytes
        BY <1>0, <2>1
      <3>3. QED
        BY <3>1, <3>2
    <2>5. QED
      BY <1>3, <1>5, <1>7, <2>1, <2>3, <2>4 DEF t0, t1
  <1>10. QED
    BY <1>0, <1>3, <1>7, <1>8, <1>9

-----------------------------------------------------------------------------
\* The contexts of blake256.c, and what its functions do to them.

Compressed == [block : Seq(Int), count : Seq(Nat)]

Contexts ==
  [t0 : Nat, t1 : Nat, nullt : BOOLEAN, buflen : Nat, buf : [1 .. BlockBytes -> Int],
   blocks : Seq(Compressed)]

Context(t0, t1, nullt, buflen, buf, blocks) ==
  [t0 |-> t0, t1 |-> t1, nullt |-> nullt, buflen |-> buflen, buf |-> buf, blocks |-> blocks]

Holds(c, t0, t1, nullt, buflen, buf, blocks) ==
  /\ c \in Contexts
  /\ c.t0 = t0 /\ c.t1 = t1 /\ c.nullt = nullt
  /\ c.buflen = buflen /\ c.buf = buf /\ c.blocks = blocks

CountOf(c) == IF c.nullt THEN <<>> ELSE <<c.t0, c.t1>>

\* A context is what its fields make it.
LEMMA ContextFields ==
  ASSUME NEW c \in Contexts
  PROVE  /\ c = Context(c.t0, c.t1, c.nullt, c.buflen, c.buf, c.blocks)
         /\ c.t0 \in Nat /\ c.t1 \in Nat /\ c.nullt \in BOOLEAN /\ c.buflen \in Nat
         /\ c.buf \in [1 .. BlockBytes -> Int] /\ c.blocks \in Seq(Compressed)
  BY DEF Contexts, Context

\* A context built from fields of their types has those fields.
LEMMA ContextIs ==
  ASSUME NEW t0 \in Nat, NEW t1 \in Nat, NEW nullt \in BOOLEAN, NEW buflen \in Nat,
         NEW buf \in [1 .. BlockBytes -> Int], NEW blocks \in Seq(Compressed)
  PROVE  Holds(Context(t0, t1, nullt, buflen, buf, blocks), t0, t1, nullt, buflen, buf, blocks)
  BY DEF Contexts, Context, Holds

\* A compression appends one block, with the counter it is hashed with (blake256_compress).
LEMMA CompressIs ==
  ASSUME NEW c \in Contexts, NEW block \in Seq(Int)
  PROVE  Holds(Compress(c, block), c.t0, c.t1, c.nullt, c.buflen, c.buf,
               Append(c.blocks, [block |-> block, count |-> CountOf(c)]))
  <1> DEFINE e == [block |-> block, count |-> CountOf(c)]
             b == Append(c.blocks, e)
  <1>1. CountOf(c) \in Seq(Nat)
    <2>1. <<>> \in Seq(Nat) /\ <<c.t0, c.t1>> \in Seq(Nat)
      BY ContextFields
    <2>2. QED
      BY <2>1 DEF CountOf
  <1>2. e \in Compressed
    BY <1>1 DEF Compressed
  <1>3. b \in Seq(Compressed)
    BY <1>2, ContextFields, AppendProperties
  <1>4. Compress(c, block) = [c EXCEPT !.blocks = b]
    BY DEF Compress, CountOf
  <1> HIDE DEF b
  <1>5. Compress(c, block) = Context(c.t0, c.t1, c.nullt, c.buflen, c.buf, b)
    BY <1>4 DEF Contexts, Context
  <1>6. QED
    <2>1. /\ c.t0 \in Nat /\ c.t1 \in Nat /\ c.nullt \in BOOLEAN /\ c.buflen \in Nat
          /\ c.buf \in [1 .. BlockBytes -> Int] /\ c.blocks \in Seq(Compressed)
      BY ContextFields
    <2>2. Holds(Context(c.t0, c.t1, c.nullt, c.buflen, c.buf, b), c.t0, c.t1, c.nullt, c.buflen, c.buf, b)
      BY <2>1, <1>3, ContextIs, Zenon
    <2>3. QED
      BY <2>2, <1>5, Zenon DEF b

\* Counting a block adds its size to the first word, and one to the second when the first wraps to 0.
LEMMA CountBlockIs ==
  ASSUME NEW c \in Contexts
  PROVE  LET t0 == (c.t0 + BlockBytes) % Wrap
         IN  Holds(CountBlock(c), t0, IF t0 = 0 THEN c.t1 + 1 ELSE c.t1, c.nullt, c.buflen,
                   c.buf, c.blocks)
  <1> DEFINE t0 == (c.t0 + BlockBytes) % Wrap
             t1 == IF t0 = 0 THEN c.t1 + 1 ELSE c.t1
  <1>1. t0 \in Nat /\ t1 \in Nat
    BY Sizes, ContextFields
  <1>2. CountBlock(c) = [c EXCEPT !.t0 = t0, !.t1 = t1]
    <2> DEFINE s == t0
    <2> HIDE DEF s
    <2>1. [c EXCEPT !.t0 = s, !.t1 = IF s = 0 THEN @ + 1 ELSE @]
            = [c EXCEPT !.t0 = s, !.t1 = IF s = 0 THEN c.t1 + 1 ELSE c.t1]
      BY DEF Contexts
    <2>2. QED
      BY <2>1 DEF CountBlock, s
  <1> HIDE DEF t0, t1
  <1>3. CountBlock(c) = Context(t0, t1, c.nullt, c.buflen, c.buf, c.blocks)
    BY <1>2 DEF Contexts, Context
  <1>4. QED
    <2>1. /\ c.t0 \in Nat /\ c.t1 \in Nat /\ c.nullt \in BOOLEAN /\ c.buflen \in Nat
          /\ c.buf \in [1 .. BlockBytes -> Int] /\ c.blocks \in Seq(Compressed)
      BY ContextFields
    <2>2. Holds(Context(t0, t1, c.nullt, c.buflen, c.buf, c.blocks), t0, t1, c.nullt, c.buflen, c.buf, c.blocks)
      BY <2>1, <1>1, ContextIs, Zenon
    <2>3. QED
      BY <2>2, <1>3, Zenon DEF t0, t1

\* Taking padding bytes from the counter changes its first word only.
LEMMA UncountIs ==
  ASSUME NEW c \in Contexts, NEW n \in Int
  PROVE  Holds(Uncount(c, n), (c.t0 - n) % Wrap, c.t1, c.nullt, c.buflen, c.buf, c.blocks)
  <1> DEFINE t0 == (c.t0 - n) % Wrap
  <1>1. t0 \in Nat
    BY Sizes, ContextFields
  <1>2. Uncount(c, n) = [c EXCEPT !.t0 = t0]
    BY DEF Uncount, Contexts
  <1> HIDE DEF t0
  <1>3. Uncount(c, n) = Context(t0, c.t1, c.nullt, c.buflen, c.buf, c.blocks)
    BY <1>2 DEF Contexts, Context
  <1>4. QED
    <2>1. /\ c.t0 \in Nat /\ c.t1 \in Nat /\ c.nullt \in BOOLEAN /\ c.buflen \in Nat
          /\ c.buf \in [1 .. BlockBytes -> Int] /\ c.blocks \in Seq(Compressed)
      BY ContextFields
    <2>2. Holds(Context(t0, c.t1, c.nullt, c.buflen, c.buf, c.blocks), t0, c.t1, c.nullt, c.buflen, c.buf, c.blocks)
      BY <2>1, <1>1, ContextIs, Zenon
    <2>3. QED
      BY <2>2, <1>3, Zenon DEF t0

\* A copy into the buffer replaces the bytes of its range and no other (memcpy).
LEMMA CopiedIs ==
  ASSUME NEW buf \in [1 .. BlockBytes -> Int], NEW from \in Nat, NEW bytes \in Seq(Int)
  PROVE  /\ Copied(buf, from, bytes) \in [1 .. BlockBytes -> Int]
         /\ \A i \in 1 .. BlockBytes :
              Copied(buf, from, bytes)[i] =
                IF i \in from + 1 .. from + Len(bytes) THEN bytes[i - from] ELSE buf[i]
  <1>1. Len(bytes) \in Nat
    BY LenProperties
  <1>2. ASSUME NEW i \in 1 .. BlockBytes, i \in from + 1 .. from + Len(bytes)
        PROVE  bytes[i - from] \in Int
    <2>1. i - from \in 1 .. Len(bytes)
      BY <1>1, <1>2
    <2>2. QED
      BY <2>1, ElementOfSeq
  <1>3. QED
    BY <1>2 DEF Copied

\* Setting the buffer or its length leaves the other fields alone.
LEMMA BufferSet ==
  ASSUME NEW c \in Contexts, NEW buf \in [1 .. BlockBytes -> Int], NEW n \in Nat
  PROVE  /\ Holds([c EXCEPT !.buf = buf], c.t0, c.t1, c.nullt, c.buflen, buf, c.blocks)
         /\ Holds([c EXCEPT !.buflen = n], c.t0, c.t1, c.nullt, n, c.buf, c.blocks)
  <1>1. /\ c.t0 \in Nat /\ c.t1 \in Nat /\ c.nullt \in BOOLEAN /\ c.buflen \in Nat
        /\ c.buf \in [1 .. BlockBytes -> Int] /\ c.blocks \in Seq(Compressed)
    BY ContextFields
  <1>2. Holds([c EXCEPT !.buf = buf], c.t0, c.t1, c.nullt, c.buflen, buf, c.blocks)
    <2>1. [c EXCEPT !.buf = buf] = Context(c.t0, c.t1, c.nullt, c.buflen, buf, c.blocks)
      BY DEF Contexts, Context
    <2>2. Holds(Context(c.t0, c.t1, c.nullt, c.buflen, buf, c.blocks), c.t0, c.t1, c.nullt, c.buflen, buf, c.blocks)
      BY <1>1, ContextIs, Zenon
    <2>3. QED
      BY <2>1, <2>2, Zenon
  <1>3. Holds([c EXCEPT !.buflen = n], c.t0, c.t1, c.nullt, n, c.buf, c.blocks)
    <2>1. [c EXCEPT !.buflen = n] = Context(c.t0, c.t1, c.nullt, n, c.buf, c.blocks)
      BY DEF Contexts, Context
    <2>2. Holds(Context(c.t0, c.t1, c.nullt, n, c.buf, c.blocks), c.t0, c.t1, c.nullt, n, c.buf, c.blocks)
      BY <1>1, ContextIs, Zenon
    <2>3. QED
      BY <2>1, <2>2, Zenon
  <1>4. QED
    BY <1>2, <1>3, Zenon

-----------------------------------------------------------------------------
\* Whole blocks.

\* The blocks compressed are the first ones of p.
BlocksRead(blocks, p) ==
  \A k \in 1 .. Len(blocks) : blocks[k].block = SubSeq(p, Sz(k - 1) + 1, Sz(k))

\* The count of a block is that of the bytes up to its end.
BlocksCounted(blocks) ==
  \A k \in 1 .. Len(blocks) : blocks[k].count = <<Sz(k) % Wrap, Sz(k) \div Wrap>>

\* A context that was given blocks of p only.
Reads(c, p) ==
  /\ c \in Contexts
  /\ ~c.nullt
  /\ c.t0 = Sz(Len(c.blocks)) % Wrap
  /\ c.t1 = Sz(Len(c.blocks)) \div Wrap
  /\ BlocksCounted(c.blocks)
  /\ BlocksRead(c.blocks, p)

\* d is c after n more blocks.
After(d, c, n) ==
  Len(d.blocks) = Len(c.blocks) + n /\ d.buf = c.buf /\ d.buflen = c.buflen

\* When the next block of p is appended, the blocks are still the first blocks of p.
LEMMA BlockAdded ==
  ASSUME NEW blocks \in Seq(Compressed), NEW e \in Compressed, NEW p, BlocksRead(blocks, p),
         e.block = SubSeq(p, Sz(Len(blocks)) + 1, Sz(Len(blocks) + 1))
  PROVE  /\ BlocksRead(Append(blocks, e), p)
         /\ Len(Append(blocks, e)) = Len(blocks) + 1
         /\ Len(blocks) \in Nat
  <1> DEFINE b == Append(blocks, e)
             n == Len(blocks)
  <1>1. n \in Nat
    BY LenProperties
  <1>2. /\ Len(b) = n + 1 /\ b[n + 1] = e
        /\ \A k \in 1 .. n : b[k] = blocks[k]
    BY AppendProperties
  <1> HIDE DEF b, n
  <1>3. ASSUME NEW k \in 1 .. Len(b)
        PROVE  b[k].block = SubSeq(p, Sz(k - 1) + 1, Sz(k))
    <2>1. CASE k \in 1 .. n
      BY <1>2, <2>1 DEF BlocksRead, n
    <2>2. CASE k = n + 1
      <3>1. k - 1 = n
        BY <1>1, <2>2
      <3>2. QED
        BY <1>2, <2>2, <3>1 DEF n
    <2>3. QED
      BY <1>1, <1>2, <2>1, <2>2
  <1>4. QED
    BY <1>1, <1>2, <1>3 DEF BlocksRead, b, n

\* A turn of the loop over whole blocks reads one block more of p, and counts it.
LEMMA TurnReads ==
  ASSUME NEW c, NEW p, Reads(c, p), NEW block \in Seq(Int),
         block = SubSeq(p, Sz(Len(c.blocks)) + 1, Sz(Len(c.blocks) + 1))
  PROVE  LET d == Compress(CountBlock(c), block)
         IN  Reads(d, p) /\ After(d, c, 1)
  <1> DEFINE f == CountBlock(c)
             d == Compress(f, block)
             n == Len(c.blocks)
             e == [block |-> block, count |-> CountOf(f)]
  <1>1. c \in Contexts /\ c.blocks \in Seq(Compressed) /\ n \in Nat
    BY ContextFields, LenProperties DEF Reads
  <1>2. /\ f \in Contexts /\ f.buf = c.buf /\ f.buflen = c.buflen /\ f.blocks = c.blocks
        /\ f.t0 = (c.t0 + BlockBytes) % Wrap
        /\ f.t1 = (IF f.t0 = 0 THEN c.t1 + 1 ELSE c.t1)
    BY <1>1, CountBlockIs DEF Holds
  <1>3. ~f.nullt
    <2>1. f.nullt = c.nullt
      BY <1>1, CountBlockIs, Zenon DEF Holds
    <2>2. QED
      BY <2>1, Zenon DEF Reads
  <1>4. f.t0 = Sz(n + 1) % Wrap /\ f.t1 = Sz(n + 1) \div Wrap
    BY <1>1, <1>2, CountsUp DEF Reads
  <1> HIDE DEF f
  <1>5. /\ d \in Contexts /\ d.t0 = f.t0 /\ d.t1 = f.t1
        /\ d.buflen = f.buflen /\ d.buf = f.buf /\ d.blocks = Append(f.blocks, e)
    BY <1>2, CompressIs DEF Holds
  <1>6. ~d.nullt
    <2>1. d.nullt = f.nullt
      BY <1>2, CompressIs, Zenon DEF Holds
    <2>2. QED
      BY <1>3, <2>1, Zenon
  <1>7. e \in Compressed /\ e.block = block /\ e.count = <<Sz(n + 1) % Wrap, Sz(n + 1) \div Wrap>>
    <2>1. f.t0 \in Nat /\ f.t1 \in Nat
      BY <1>2, ContextFields
    <2>2. CountOf(f) = <<f.t0, f.t1>>
      BY <1>3 DEF CountOf
    <2>3. CountOf(f) \in Seq(Nat)
      BY <2>1, <2>2
    <2>4. QED
      BY <1>4, <2>2, <2>3 DEF Compressed
  <1> HIDE DEF d, e, n
  <1>8. BlocksRead(d.blocks, p) /\ Len(d.blocks) = n + 1
    BY <1>1, <1>2, <1>5, <1>7, BlockAdded DEF Reads, n
  <1>9. BlocksCounted(d.blocks)
    <2>1. d.blocks[n + 1] = e /\ \A k \in 1 .. n : d.blocks[k] = c.blocks[k]
      BY <1>1, <1>2, <1>5, <1>7, AppendProperties DEF n
    <2>2. ASSUME NEW k \in 1 .. n + 1
          PROVE  d.blocks[k].count = <<Sz(k) % Wrap, Sz(k) \div Wrap>>
      <3>1. CASE k \in 1 .. n
        BY <2>1, <3>1 DEF Reads, BlocksCounted, n
      <3>2. CASE k = n + 1
        BY <1>7, <2>1, <3>2
      <3>3. QED
        BY <1>1, <3>1, <3>2
    <2>3. QED
      BY <1>8, <2>2 DEF BlocksCounted
  <1>10. Reads(d, p)
    BY <1>4, <1>5, <1>6, <1>8, <1>9, Zenon DEF Reads
  <1>11. After(d, c, 1)
    BY <1>2, <1>5, <1>8 DEF After, n
  <1>12. QED
    BY <1>10, <1>11 DEF d, f

\* One turn of the loop over whole blocks.
Turned(c, in, k) == Compress(CountBlock(c), SubSeq(in, k * BlockBytes + 1, (k + 1) * BlockBytes))

\* The recursion of the fold of WholeBlocks, over the places of the list of turns.
Turns(g, c, in, list) ==
  g = [s \in SUBSET DOMAIN list |->
         IF s = {} THEN c ELSE Turned(g[s \ {Max(s)}], in, list[Max(s)])]

\* A turn of the loop yields a context.
LEMMA TurnedType ==
  ASSUME NEW c \in Contexts, NEW in \in Seq(Int), NEW k \in Nat, (k + 1) * BlockBytes <= Len(in)
  PROVE  /\ Turned(c, in, k) \in Contexts
         /\ SubSeq(in, k * BlockBytes + 1, (k + 1) * BlockBytes) \in Seq(Int)
  <1>1. /\ k * BlockBytes \in Nat /\ (k + 1) * BlockBytes \in Nat /\ Len(in) \in Nat
    BY Sizes, LenProperties
  <1>2. \A i \in k * BlockBytes + 1 .. (k + 1) * BlockBytes : in[i] \in Int
    BY <1>1, ElementOfSeq
  <1>3. SubSeq(in, k * BlockBytes + 1, (k + 1) * BlockBytes) \in Seq(Int)
    BY <1>1, <1>2, SubSeqProperties
  <1>4. CountBlock(c) \in Contexts
    BY CountBlockIs DEF Holds
  <1>5. QED
    BY <1>3, <1>4, CompressIs DEF Holds, Turned

\* The contexts between the turns of the loop exist: the fold of WholeBlocks is defined.
LEMMA TurnsExist ==
  ASSUME NEW c \in Contexts, NEW in \in Seq(Int), NEW q \in Nat, q * BlockBytes <= Len(in)
  PROVE  \E g : Turns(g, c, in, [k \in 1 .. q |-> k - 1])
  <1> DEFINE D == 1 .. q
             pick == [d \in SUBSET D |-> Max(d)]
             step == [x \in D \X Contexts |-> Turned(x[2], in, x[1] - 1)]
             list == [k \in 1 .. q |-> k - 1]
  <1>1. IsFiniteSet(D)
    BY FS_Interval
  <1>2. Picks(pick, D)
    BY LastPlace DEF Picks
  <1>3. ASSUME NEW i \in D, NEW b \in Contexts
        PROVE  Turned(b, in, i - 1) \in Contexts
    <2>1. i - 1 \in Nat /\ (i - 1) + 1 = i /\ i \in Int /\ i <= q
      OBVIOUS
    <2>2. i * BlockBytes <= q * BlockBytes
      BY <2>1, Sizes, Multiples
    <2>3. i * BlockBytes \in Int /\ q * BlockBytes \in Int /\ Len(in) \in Int
      BY <2>1, Sizes, LenProperties
    <2>4. i * BlockBytes <= Len(in)
      BY <2>2, <2>3
    <2>5. QED
      BY <2>1, <2>4, TurnedType
  <1>4. step \in [D \X Contexts -> Contexts]
    BY <1>3
  <1>5. \A i \in D, b \in Contexts : step[<<i, b>>] = Turned(b, in, i - 1)
    OBVIOUS
  <1>6. \A d \in SUBSET D : pick[d] = Max(d)
    OBVIOUS
  <1>7. DOMAIN list = D /\ \A i \in D : list[i] = i - 1
    OBVIOUS
  <1> HIDE DEF pick, step, list, D
  <1>8. PICK g \in [SUBSET D -> Contexts] : Folded(g, c, step, pick, D)
    BY <1>1, <1>2, <1>4, SubsetRecursion, Zenon
  <1>9. ASSUME NEW d \in SUBSET D
        PROVE  g[d] = IF d = {} THEN c ELSE Turned(g[d \ {Max(d)}], in, list[Max(d)])
    <2>1. g[d] = IF d = {} THEN c ELSE step[<<Max(d), g[d \ {Max(d)}]>>]
      BY <1>6, <1>8 DEF Folded
    <2>2. CASE d = {}
      BY <2>1, <2>2
    <2>3. CASE d # {}
      <3>1. Max(d) \in D
        BY <1>2, <1>6, <2>3 DEF Picks
      <3>2. g[d \ {Max(d)}] \in Contexts
        BY <1>8
      <3>3. QED
        BY <1>5, <1>7, <2>1, <2>3, <3>1, <3>2
    <2>4. QED
      BY <2>2, <2>3
  <1>10. g = [d \in SUBSET D |-> g[d]]
    BY <1>8
  <1>11. Turns(g, c, in, list)
    BY <1>7, <1>9, <1>10, Zenon DEF Turns
  <1>12. QED
    BY <1>11 DEF list

\* The loop of blake256_Update compresses the q whole blocks of the input, in order, and counts them.
LEMMA WholeBlocksRead ==
  ASSUME NEW c, NEW p, Reads(c, p), NEW in \in Seq(Int), NEW q \in Nat,
         q = Len(in) \div BlockBytes, q * BlockBytes <= Len(in),
         \A k \in 1 .. q : SubSeq(in, (k - 1) * BlockBytes + 1, k * BlockBytes)
                             = SubSeq(p, Sz(Len(c.blocks) + (k - 1)) + 1, Sz(Len(c.blocks) + k))
  PROVE  Reads(WholeBlocks(c, in), p) /\ After(WholeBlocks(c, in), c, q)
  <1> DEFINE list == [k \in 1 .. Len(in) \div BlockBytes |-> k - 1]
             g == CHOOSE g : Turns(g, c, in, list)
             T == {n \in Nat : n <= q => Reads(g[1 .. n], p) /\ After(g[1 .. n], c, n)}
  <1>1. c \in Contexts /\ Len(c.blocks) \in Nat
    BY ContextFields, LenProperties DEF Reads
  <1>2. Turns(g, c, in, list)
    <2>1. list = [k \in 1 .. q |-> k - 1]
      OBVIOUS
    <2>2. \E h : Turns(h, c, in, list)
      BY <1>1, <2>1, TurnsExist, Zenon
    <2>3. QED
      BY <2>2, Zenon
  <1>3. WholeBlocks(c, in) = g[DOMAIN list]
    BY Zenon DEF WholeBlocks, FoldLeft, MapThenFoldSet, Turns, Turned
  <1>4. DOMAIN list = 1 .. q /\ \A k \in 1 .. q : list[k] = k - 1
    OBVIOUS
  <1> HIDE DEF g, list
  <1>5. ASSUME NEW d \in SUBSET (1 .. q)
        PROVE  g[d] = IF d = {} THEN c ELSE Turned(g[d \ {Max(d)}], in, list[Max(d)])
    BY <1>2, <1>4, Zenon DEF Turns
  <1>6. 0 \in T
    <2>1. 1 .. 0 = {} /\ {} \in SUBSET (1 .. q)
      OBVIOUS
    <2>2. g[1 .. 0] = c
      BY <1>5, <2>1
    <2>3. After(c, c, 0)
      BY <1>1 DEF After
    <2>4. QED
      BY <2>2, <2>3
  <1>7. ASSUME NEW n \in Nat, n \in T
        PROVE  n + 1 \in T
    <2>1. SUFFICES ASSUME n + 1 <= q
                   PROVE  Reads(g[1 .. n + 1], p) /\ After(g[1 .. n + 1], c, n + 1)
      OBVIOUS
    <2> DEFINE b == g[1 .. n]
               block == SubSeq(in, n * BlockBytes + 1, (n + 1) * BlockBytes)
    <2>2. Reads(b, p) /\ After(b, c, n)
      BY <1>7, <2>1
    <2>3. g[1 .. n + 1] = Turned(b, in, n)
      <3>1. n + 1 \in Nat /\ n + 1 # 0 /\ (n + 1) - 1 = n /\ 1 .. n + 1 \in SUBSET (1 .. q)
        BY <2>1
      <3>2. 1 .. n + 1 # {} /\ Max(1 .. n + 1) = n + 1 /\ (1 .. n + 1) \ {n + 1} = 1 .. n
        BY <3>1, LastPlace
      <3>3. list[n + 1] = n
        BY <1>4, <2>1, <3>1
      <3>4. QED
        BY <1>5, <3>1, <3>2, <3>3
    <2>4. b \in Contexts /\ Len(b.blocks) = Len(c.blocks) + n
      BY <2>2 DEF Reads, After
    <2>5. (n + 1) * BlockBytes <= Len(in)
      <3>1. (n + 1) * BlockBytes <= q * BlockBytes
        <4>1. n + 1 \in Int /\ q \in Int /\ BlockBytes \in Nat \ {0}
          BY Sizes
        <4>2. QED
          BY <2>1, <4>1, Multiples, Zenon
      <3>2. (n + 1) * BlockBytes \in Int /\ q * BlockBytes \in Int /\ Len(in) \in Int
        BY Sizes, LenProperties
      <3>3. QED
        BY <3>1, <3>2
    <2>6. block \in Seq(Int)
      BY <2>4, <2>5, TurnedType
    <2>7. block = SubSeq(p, Sz(Len(b.blocks)) + 1, Sz(Len(b.blocks) + 1))
      <3>1. n + 1 \in 1 .. q /\ (n + 1) - 1 = n
        BY <2>1
      <3>2. block = SubSeq(p, Sz(Len(c.blocks) + n) + 1, Sz(Len(c.blocks) + (n + 1)))
        BY <3>1
      <3>3. Len(b.blocks) + 1 = Len(c.blocks) + (n + 1)
        <4> DEFINE x == Len(b.blocks)
                   y == Len(c.blocks)
        <4>1. y \in Nat /\ x = y + n
          BY <1>1, <2>4, Zenon
        <4> HIDE DEF x, y
        <4>2. x + 1 = y + (n + 1)
          BY <4>1
        <4>3. QED
          BY <4>2, Zenon DEF x, y
      <3>4. QED
        BY <2>4, <3>2, <3>3
    <2> HIDE DEF b, block
    <2>8. LET d == Compress(CountBlock(b), block)
          IN  Reads(d, p) /\ After(d, b, 1)
      BY <2>2, <2>6, <2>7, TurnReads, Zenon
    <2>9. Reads(Turned(b, in, n), p) /\ After(Turned(b, in, n), b, 1)
      BY <2>8, Zenon DEF Turned, block
    <2>10. After(Turned(b, in, n), c, n + 1)
      <3> DEFINE d == Turned(b, in, n)
                 x == Len(d.blocks)
                 y == Len(c.blocks)
                 z == Len(b.blocks)
      <3>1. /\ x = z + 1 /\ z = y + n /\ y \in Nat
            /\ d.buf = b.buf /\ b.buf = c.buf /\ d.buflen = b.buflen /\ b.buflen = c.buflen
        BY <1>1, <2>2, <2>9, Zenon DEF After
      <3> HIDE DEF d, x, y, z
      <3>2. x = y + (n + 1) /\ d.buf = c.buf /\ d.buflen = c.buflen
        BY <3>1
      <3>3. After(d, c, n + 1)
        BY <3>2, Zenon DEF After, x, y
      <3>4. QED
        BY <3>3 DEF d
    <2>11. QED
      BY <2>3, <2>9, <2>10 DEF b
  <1> HIDE DEF T
  <1>8. Nat \subseteq T
    BY <1>6, <1>7, NaturalsIn
  <1>9. q \in T
    BY <1>8
  <1>10. QED
    BY <1>3, <1>4, <1>9 DEF T

-----------------------------------------------------------------------------
\* The bytes that do not fill a block.

\* n elements of a sequence, past the first a.
LEMMA Slice ==
  ASSUME NEW s \in Seq(Int), NEW a \in Nat, NEW n \in Nat, a + n <= Len(s)
  PROVE  /\ SubSeq(s, a + 1, a + n) \in Seq(Int)
         /\ Len(SubSeq(s, a + 1, a + n)) = n
         /\ \A j \in 1 .. n : SubSeq(s, a + 1, a + n)[j] = s[a + j] /\ s[a + j] \in Int
  <1>1. Len(s) \in Nat
    BY LenProperties
  <1>2. \A i \in a + 1 .. a + n : s[i] \in Int
    BY <1>1, ElementOfSeq
  <1>3. a + 1 \in Int /\ a + n \in Int
    OBVIOUS
  <1>4. /\ SubSeq(s, a + 1, a + n) \in Seq(Int)
        /\ Len(SubSeq(s, a + 1, a + n)) = IF a + 1 <= a + n THEN (a + n) - (a + 1) + 1 ELSE 0
        /\ \A i \in 1 .. (a + n) - (a + 1) + 1 : SubSeq(s, a + 1, a + n)[i] = s[(a + 1) + i - 1]
    BY <1>2, <1>3, SubSeqProperties
  <1> DEFINE t == SubSeq(s, a + 1, a + n)
  <1> HIDE DEF t
  <1>5. t \in Seq(Int) /\ Len(t) = n
    BY <1>4 DEF t
  <1>6. \A j \in 1 .. n : t[j] = s[a + j]
    <2>1. TAKE j \in 1 .. n
    <2>2. j \in 1 .. (a + n) - (a + 1) + 1 /\ (a + 1) + j - 1 = a + j
      OBVIOUS
    <2>3. QED
      BY <1>4, <2>2 DEF t
  <1>7. \A j \in 1 .. n : s[a + j] \in Int
    BY <1>2
  <1>8. QED
    BY <1>5, <1>6, <1>7 DEF t

\* t is the n bytes of s after its first a.
IsSlice(t, s, a, n) ==
  t \in Seq(Int) /\ Len(t) = n /\ \A j \in 1 .. n : t[j] = s[a + j]

\* The same, for sequences and numbers known only by their names.
LEMMA SliceIs ==
  ASSUME NEW s \in Seq(Int), NEW a \in Nat, NEW n \in Nat, a + n <= Len(s)
  PROVE  IsSlice(SubSeq(s, a + 1, a + n), s, a, n)
  BY Slice DEF IsSlice

\* n elements of s, past the first a, are those of t past the first b.
Agree(s, a, t, b, n) ==
  /\ s \in Seq(Int) /\ a \in Nat /\ t \in Seq(Int) /\ b \in Nat /\ n \in Nat
  /\ a + n <= Len(s) /\ b + n <= Len(t)
  /\ \A j \in 1 .. n : s[a + j] = t[b + j]

\* These are the same slice.
SameSlice(s, a, t, b, n) == SubSeq(s, a + 1, a + n) = SubSeq(t, b + 1, b + n)

\* Slices with the same elements are the same.
LEMMA SlicesAgree ==
  ASSUME NEW s, NEW a, NEW t, NEW b, NEW n, Agree(s, a, t, b, n)
  PROVE  SameSlice(s, a, t, b, n)
  <1> DEFINE x == SubSeq(s, a + 1, a + n)
             y == SubSeq(t, b + 1, b + n)
  <1>1. /\ x \in Seq(Int) /\ Len(x) = n /\ \A j \in 1 .. n : x[j] = s[a + j]
        /\ y \in Seq(Int) /\ Len(y) = n /\ \A j \in 1 .. n : y[j] = t[b + j]
    <2>1. /\ s \in Seq(Int) /\ a \in Nat /\ t \in Seq(Int) /\ b \in Nat /\ n \in Nat
          /\ a + n <= Len(s) /\ b + n <= Len(t)
      BY DEF Agree
    <2>2. QED
      BY <2>1, Slice
  <1> HIDE DEF x, y
  <1>2. Len(x) = Len(y) /\ \A i \in 1 .. Len(x) : x[i] = y[i]
    BY <1>1 DEF Agree
  <1>3. x = y
    BY <1>1, <1>2, SeqEqual
  <1>4. QED
    BY <1>3 DEF x, y, SameSlice

\* d is c with the last r bytes of a piece after those that wait already.
Stores(d, c, left, in, q, r) ==
  /\ d \in Contexts
  /\ d.t0 = c.t0 /\ d.t1 = c.t1 /\ d.nullt = c.nullt /\ d.blocks = c.blocks
  /\ d.buflen = (IF r = 0 THEN 0 ELSE left + r)
  /\ \A i \in 1 .. BlockBytes :
       d.buf[i] = IF i \in left + 1 .. left + r THEN in[Sz(q) + (i - left)] ELSE c.buf[i]

\* StoreRest keeps what does not fill a block.
LEMMA StoreRestIs ==
  ASSUME NEW c \in Contexts, NEW left \in Nat, NEW in \in Seq(Int), NEW q \in Nat, NEW r \in Nat,
         q = Len(in) \div BlockBytes, Len(in) = Sz(q) + r
  PROVE  Stores(StoreRest(c, left, in), c, left, in, q, r)
  <1> DEFINE rest == SubSeq(in, Sz(q) + 1, Sz(q) + r)
             d == StoreRest(c, left, in)
             buf == Copied(c.buf, left, rest)
  <1>0. Sz(q) \in Nat
    BY SzSteps
  <1>1. rest \in Seq(Int) /\ Len(rest) = r /\ \A j \in 1 .. r : rest[j] = in[Sz(q) + j]
    <2> DEFINE a == Sz(q)
    <2>1. a \in Nat /\ a + r <= Len(in)
      BY <1>0
    <2> HIDE DEF a
    <2>2. IsSlice(SubSeq(in, a + 1, a + r), in, a, r)
      BY <2>1, SliceIs, Zenon
    <2>3. QED
      BY <2>2, Zenon DEF IsSlice, a, rest
  <1>2. d = IF rest = <<>> THEN [c EXCEPT !.buflen = 0]
            ELSE [c EXCEPT !.buf = buf, !.buflen = left + Len(rest)]
    <2>1. BlockBytes * (Len(in) \div BlockBytes) = Sz(q)
      BY Sizes DEF Sz
    <2>2. QED
      BY <2>1 DEF StoreRest
  <1>3. c.buf \in [1 .. BlockBytes -> Int]
    BY ContextFields
  <1>4. /\ buf \in [1 .. BlockBytes -> Int]
        /\ \A i \in 1 .. BlockBytes :
             buf[i] = IF i \in left + 1 .. left + r THEN rest[i - left] ELSE c.buf[i]
    <2> HIDE DEF rest
    <2>1. /\ buf \in [1 .. BlockBytes -> Int]
          /\ \A i \in 1 .. BlockBytes :
               buf[i] = IF i \in left + 1 .. left + Len(rest) THEN rest[i - left] ELSE c.buf[i]
      BY <1>1, <1>3, CopiedIs, Zenon
    <2>2. QED
      BY <1>1, <2>1
  <1>5. CASE r = 0
    <2>1. rest = <<>>
      BY <1>1, <1>5, EmptySeq
    <2>2. Holds([c EXCEPT !.buflen = 0], c.t0, c.t1, c.nullt, 0, c.buf, c.blocks)
      BY <1>3, BufferSet
    <2>3. Holds(d, c.t0, c.t1, c.nullt, 0, c.buf, c.blocks)
      BY <1>2, <2>1, <2>2, Zenon
    <2>4. \A i \in 1 .. BlockBytes : ~(i \in left + 1 .. left + r)
      BY <1>5
    <2> HIDE DEF d
    <2>5. /\ d \in Contexts /\ d.t0 = c.t0 /\ d.t1 = c.t1 /\ d.nullt = c.nullt
          /\ d.blocks = c.blocks /\ d.buflen = 0 /\ d.buf = c.buf
      BY <2>3, Zenon DEF Holds
    <2>6. QED
      BY <1>5, <2>4, <2>5, Zenon DEF d, Stores
  <1>6. CASE r # 0
    <2> HIDE DEF buf, rest
    <2>1. rest # <<>> /\ left + r \in Nat
      BY <1>1, <1>6
    <2> DEFINE e == [c EXCEPT !.buf = buf]
    <2>2. Holds(e, c.t0, c.t1, c.nullt, c.buflen, buf, c.blocks)
      BY <1>4, BufferSet, Zenon
    <2>3. [c EXCEPT !.buf = buf, !.buflen = left + r] = [e EXCEPT !.buflen = left + r]
      BY DEF Contexts
    <2> HIDE DEF e
    <2>4. e \in Contexts /\ e.buf \in [1 .. BlockBytes -> Int]
      BY <2>2, <1>4, Zenon DEF Holds
    <2>5. Holds([e EXCEPT !.buflen = left + r], e.t0, e.t1, e.nullt, left + r, e.buf, e.blocks)
      BY <2>1, <2>4, BufferSet, Zenon
    <2>6. d = [e EXCEPT !.buflen = left + r]
      BY <1>1, <1>2, <2>1, <2>3, Zenon
    <2> HIDE DEF d
    <2>7. /\ d \in Contexts /\ d.t0 = c.t0 /\ d.t1 = c.t1 /\ d.nullt = c.nullt
          /\ d.blocks = c.blocks /\ d.buflen = left + r /\ d.buf = buf
      BY <2>2, <2>5, <2>6, Zenon DEF Holds
    <2>8. \A i \in 1 .. BlockBytes :
            d.buf[i] = IF i \in left + 1 .. left + r THEN in[Sz(q) + (i - left)] ELSE c.buf[i]
      <3>1. TAKE i \in 1 .. BlockBytes
      <3>2. i \in left + 1 .. left + r => i - left \in 1 .. r
        OBVIOUS
      <3>3. QED
        BY <1>1, <1>4, <2>7, <3>2
    <2>9. QED
      BY <1>6, <2>7, <2>8, Zenon DEF d, Stores
  <1>7. QED
    BY <1>5, <1>6

\* The blocks of n bytes, and the rest.
LEMMA Parts ==
  ASSUME NEW n \in Nat
  PROVE  /\ n \div BlockBytes \in Nat /\ n - Sz(n \div BlockBytes) \in 0 .. BlockBytes - 1
         /\ n % BlockBytes = n - Sz(n \div BlockBytes)
         /\ n < BlockBytes => n \div BlockBytes = 0
  <1> DEFINE q == n \div BlockBytes
             r == n % BlockBytes
  <1>1. BlockBytes \in Nat \ {0}
    BY Sizes
  <1>2. q \in Int /\ r \in 0 .. BlockBytes - 1 /\ n = BlockBytes * q + r
    BY <1>1, DivMod
  <1> HIDE DEF q, r
  <1>3. n = Sz(q) + r /\ Sz(q) \in Int
    BY <1>1, <1>2, SzSteps DEF Sz
  <1>4. q \in Nat
    <2>1. q < 0 => Sz(q) + BlockBytes <= Sz(0)
      BY <1>2, SzSteps
    <2>2. Sz(0) = 0
      BY SzSteps
    <2>3. QED
      BY <1>1, <1>2, <1>3, <2>1, <2>2
  <1>5. n < BlockBytes => q = 0
    <2>1. 0 < q => Sz(0) + BlockBytes <= Sz(q)
      BY <1>2, SzSteps
    <2>2. Sz(0) = 0
      BY SzSteps
    <2>3. QED
      BY <1>1, <1>2, <1>3, <1>4, <2>1, <2>2
  <1>6. r = n - Sz(q)
    BY <1>1, <1>2, <1>3
  <1>7. QED
    BY <1>1, <1>2, <1>4, <1>5, <1>6 DEF q, r

\* The size of j and k blocks is the sum of their sizes.
LEMMA SzAdds ==
  ASSUME NEW j \in Int, NEW k \in Int
  PROVE  Sz(j + k) = Sz(j) + Sz(k)
  BY Sizes DEF Sz

\* The blocks compressed, and the bytes that wait, are the first bytes of p.
InPlace(c, p) ==
  /\ c \in Contexts
  /\ p \in Seq(Int)
  /\ BlocksRead(c.blocks, p)
  /\ c.buflen < BlockBytes
  /\ \A i \in 1 .. c.buflen : c.buf[i] = p[Sz(Len(c.blocks)) + i]

\* How many bytes these are.
Fed(c) == Sz(Len(c.blocks)) + c.buflen

\* The piece holds the bytes of p that follow.
Continues(c, in, p) ==
  /\ in \in Seq(Int)
  /\ Fed(c) + Len(in) <= Len(p)
  /\ \A j \in 1 .. Len(in) : in[j] = p[Fed(c) + j]

\* e is what d is, with n bytes that wait.
Keeps(e, d, n) ==
  /\ e.t0 = d.t0 /\ e.t1 = d.t1 /\ e.nullt = d.nullt /\ e.blocks = d.blocks
  /\ e.buflen = n

\* The numbers of a context whose bytes are in place.
LEMMA InPlaceNumbers ==
  ASSUME NEW c, NEW p, InPlace(c, p)
  PROVE  /\ Len(c.blocks) \in Nat /\ Sz(Len(c.blocks)) \in Nat
         /\ c.buflen \in 0 .. BlockBytes - 1 /\ Fed(c) \in Nat
         /\ Sz(Len(c.blocks) + 1) = Sz(Len(c.blocks)) + BlockBytes
  <1>1. c.buflen \in Nat /\ c.blocks \in Seq(Compressed)
    BY ContextFields DEF InPlace
  <1>2. Len(c.blocks) \in Nat
    BY <1>1, LenProperties
  <1> DEFINE n == Len(c.blocks)
  <1> HIDE DEF n
  <1>3. Sz(n) \in Nat /\ Sz(n + 1) = Sz(n) + BlockBytes
    <2>1. n \in Nat /\ n \in Int
      BY <1>2 DEF n
    <2>2. QED
      BY <2>1, SzSteps
  <1>4. c.buflen < BlockBytes /\ BlockBytes \in Nat
    BY Sizes DEF InPlace
  <1>5. QED
    BY <1>1, <1>2, <1>3, <1>4 DEF Fed, n

\* After the loop, the rest that is stored follows the bytes that wait, and all are in place.
LEMMA RestInPlace ==
  ASSUME NEW c \in Contexts, NEW p \in Seq(Int), BlocksRead(c.blocks, p),
         NEW left \in Nat, NEW in \in Seq(Int), NEW q \in Nat, NEW r \in Nat,
         q = Len(in) \div BlockBytes, Len(in) = Sz(q) + r,
         left + r < BlockBytes, r = 0 => left = 0,
         \A i \in 1 .. left : c.buf[i] = p[Sz(Len(c.blocks)) + i],
         \A j \in 1 .. r : in[Sz(q) + j] = p[Sz(Len(c.blocks)) + (left + j)]
  PROVE  LET d == StoreRest(c, left, in)
         IN  InPlace(d, p) /\ Keeps(d, c, left + r)
  <1> DEFINE d == StoreRest(c, left, in)
  <1>0. Stores(d, c, left, in, q, r)
    BY StoreRestIs, Zenon
  <1> HIDE DEF d
  <1>1. /\ d \in Contexts
        /\ d.t0 = c.t0 /\ d.t1 = c.t1 /\ d.blocks = c.blocks
        /\ d.buflen = (IF r = 0 THEN 0 ELSE left + r)
        /\ \A i \in 1 .. BlockBytes :
             d.buf[i] = IF i \in left + 1 .. left + r THEN in[Sz(q) + (i - left)] ELSE c.buf[i]
    BY <1>0 DEF Stores
  <1>2. d.nullt = c.nullt
    BY <1>0, Zenon DEF Stores
  <1> HIDE DEF d
  <1>3. d.buflen = left + r
    BY <1>1
  <1>4. BlockBytes \in Nat
    BY Sizes
  <1>5. ASSUME NEW i \in 1 .. left + r
        PROVE  d.buf[i] = p[Sz(Len(c.blocks)) + i]
    <2>1. i \in 1 .. BlockBytes
      BY <1>4
    <2>2. CASE i \in 1 .. left
      <3>1. ~(i \in left + 1 .. left + r)
        BY <2>2
      <3>2. QED
        BY <1>1, <2>1, <2>2, <3>1
    <2>3. CASE i \in left + 1 .. left + r
      <3>1. i - left \in 1 .. r /\ left + (i - left) = i
        BY <2>3
      <3>2. in[Sz(q) + (i - left)] = p[Sz(Len(c.blocks)) + (left + (i - left))]
        BY <3>1
      <3>3. QED
        BY <1>1, <2>1, <2>3, <3>1, <3>2
    <2>4. QED
      BY <2>2, <2>3
  <1>6. InPlace(d, p)
    BY <1>1, <1>3, <1>5 DEF InPlace
  <1>7. Keeps(d, c, left + r)
    BY <1>1, <1>2, <1>3, Zenon DEF Keeps
  <1>8. QED
    BY <1>6, <1>7 DEF d

\* A piece shorter than a block holds no whole block.
LEMMA NoWholeBlocks ==
  ASSUME NEW c \in Contexts, NEW in \in Seq(Int), Len(in) < BlockBytes
  PROVE  WholeBlocks(c, in) = c
  <1> DEFINE list == [k \in 1 .. Len(in) \div BlockBytes |-> k - 1]
             g == CHOOSE g : Turns(g, c, in, list)
  <1>1. Len(in) \in Nat
    BY LenProperties
  <1>2. Len(in) \div BlockBytes = 0
    BY <1>1, Parts
  <1>3. Turns(g, c, in, list)
    <2>1. list = [k \in 1 .. 0 |-> k - 1]
      BY <1>2
    <2>2. 0 * BlockBytes <= Len(in)
      BY <1>1, Sizes
    <2>3. \E h : Turns(h, c, in, list)
      BY <2>1, <2>2, TurnsExist
    <2>4. QED
      BY <2>3, Zenon
  <1>4. WholeBlocks(c, in) = g[DOMAIN list]
    BY Zenon DEF WholeBlocks, FoldLeft, MapThenFoldSet, Turns, Turned
  <1>5. DOMAIN list = {}
    BY <1>2
  <1> HIDE DEF g, list
  <1>6. g[{}] = c
    BY <1>3, <1>5, Zenon DEF Turns
  <1>7. QED
    BY <1>4, <1>5, <1>6

\* A piece that does not fill the block waits with the others.
LEMMA ShortStep ==
  ASSUME NEW c, NEW p, NEW in, InPlace(c, p), Continues(c, in, p),
         Len(in) # 0, c.buflen + Len(in) < BlockBytes
  PROVE  LET d == Update(c, in)
         IN  InPlace(d, p) /\ Keeps(d, c, c.buflen + Len(in))
  <1> DEFINE r == Len(in)
             left == c.buflen
  <1>1. c \in Contexts /\ p \in Seq(Int) /\ in \in Seq(Int) /\ r \in Nat /\ r # 0
    BY LenProperties DEF InPlace, Continues
  <1>2. Len(c.blocks) \in Nat /\ Sz(Len(c.blocks)) \in Nat /\ left \in Nat
    BY InPlaceNumbers
  <1>3. BlockBytes \in Nat
    BY Sizes
  <1>4. r < BlockBytes /\ ~(r >= BlockBytes - left)
    BY <1>1, <1>2, <1>3
  <1>5. Update(c, in) = StoreRest(c, left, in)
    <2>1. ~FillsBlock(c, in)
      BY <1>4 DEF FillsBlock
    <2>2. WholeBlocks(c, in) = c
      BY <1>1, <1>4, NoWholeBlocks
    <2>3. QED
      BY <2>1, <2>2, Zenon DEF Update
  <1>6. 0 = Len(in) \div BlockBytes /\ Len(in) = Sz(0) + r /\ Sz(0) = 0
    <2>1. Sz(0) = 0
      BY SzSteps
    <2>2. r \div BlockBytes = 0
      BY <1>1, <1>4, Parts
    <2>3. QED
      BY <1>1, <2>1, <2>2
  <1>7. \A i \in 1 .. left : c.buf[i] = p[Sz(Len(c.blocks)) + i]
    BY DEF InPlace
  <1>8. \A j \in 1 .. r : in[Sz(0) + j] = p[Sz(Len(c.blocks)) + (left + j)]
    <2> DEFINE z == Sz(Len(c.blocks))
    <2>1. \A j \in 1 .. r : in[j] = p[(z + left) + j]
      BY DEF Continues, Fed
    <2>2. z \in Nat
      BY <1>2
    <2> HIDE DEF z, r, left
    <2>3. \A j \in 1 .. r : Sz(0) + j = j /\ (z + left) + j = z + (left + j)
      BY <1>1, <1>2, <1>6, <2>2
    <2>4. QED
      BY <2>1, <2>3 DEF z
  <1>9. BlocksRead(c.blocks, p)
    BY DEF InPlace
  <1> HIDE DEF r, left
  <1>10. LET d == StoreRest(c, left, in)
         IN  InPlace(d, p) /\ Keeps(d, c, left + r)
    <2>1. left + r < BlockBytes /\ (r = 0 => left = 0) /\ 0 \in Nat
      BY <1>1 DEF left, r
    <2>2. QED
      BY <1>1, <1>2, <1>6, <1>7, <1>8, <1>9, <2>1, RestInPlace, Zenon
  <1>11. QED
    BY <1>5, <1>10, Zenon DEF left, r

\* The block that a piece fills.
Filled(c, in) == Copied(c.buf, c.buflen, SubSeq(in, 1, BlockBytes - c.buflen))

\* The buffer filled up from the input is the next block of p.
LEMMA FilledIs ==
  ASSUME NEW c, NEW p, NEW in, InPlace(c, p), Continues(c, in, p), FillsBlock(c, in)
  PROVE  /\ Filled(c, in) \in Seq(Int) /\ Filled(c, in) \in [1 .. BlockBytes -> Int]
         /\ Filled(c, in) = SubSeq(p, Sz(Len(c.blocks)) + 1, Sz(Len(c.blocks) + 1))
  <1> DEFINE left == c.buflen
             fill == BlockBytes - left
             z == Sz(Len(c.blocks))
             piece == SubSeq(in, 1, fill)
             b == Copied(c.buf, left, piece)
             t == SubSeq(p, z + 1, z + BlockBytes)
  <1>1. /\ c.buf \in [1 .. BlockBytes -> Int] /\ p \in Seq(Int) /\ in \in Seq(Int)
        /\ left \in 0 .. BlockBytes - 1 /\ z \in Nat /\ Sz(Len(c.blocks) + 1) = z + BlockBytes
    <2>1. c \in Contexts /\ p \in Seq(Int) /\ in \in Seq(Int)
      BY DEF InPlace, Continues
    <2>2. QED
      BY <2>1, ContextFields, InPlaceNumbers
  <1>2. BlockBytes \in Nat /\ fill \in Nat /\ 0 + fill <= Len(in) /\ left + fill = BlockBytes
    <2>1. Len(in) \in Nat /\ Len(in) >= fill /\ BlockBytes \in Nat
      BY <1>1, Sizes, LenProperties DEF FillsBlock
    <2>2. QED
      <3> DEFINE l == Len(in)
      <3>1. l >= BlockBytes - left /\ left \in 0 .. BlockBytes - 1 /\ BlockBytes \in Nat /\ l \in Nat
        BY <1>1, <2>1
      <3> HIDE DEF l, left
      <3>2. fill \in Nat /\ 0 + fill <= l /\ left + fill = BlockBytes
        BY <3>1
      <3>3. QED
        BY <2>1, <3>2 DEF l
  <1>3. /\ \A i \in 1 .. left : c.buf[i] = p[z + i]
        /\ \A j \in 1 .. Len(in) : in[j] = p[(z + left) + j]
        /\ (z + left) + Len(in) <= Len(p)
    BY DEF InPlace, Continues, Fed
  <1>4. Len(in) \in Nat /\ Len(p) \in Nat
    BY <1>1, LenProperties
  <1> HIDE DEF z, fill
  <1>5. piece \in Seq(Int) /\ Len(piece) = fill /\ \A j \in 1 .. fill : piece[j] = in[j]
    <2>1. 0 \in Nat /\ 0 + 1 = 1 /\ 0 + fill = fill /\ \A j \in 1 .. fill : 0 + j = j
      BY <1>2
    <2>2. /\ SubSeq(in, 0 + 1, 0 + fill) \in Seq(Int) /\ Len(SubSeq(in, 0 + 1, 0 + fill)) = fill
          /\ \A j \in 1 .. fill : SubSeq(in, 0 + 1, 0 + fill)[j] = in[0 + j]
      BY <1>1, <1>2, <2>1, Slice
    <2>3. QED
      BY <2>1, <2>2
  <1>6. t \in Seq(Int) /\ Len(t) = BlockBytes /\ \A i \in 1 .. BlockBytes : t[i] = p[z + i]
    <2>1. z + BlockBytes <= Len(p)
      BY <1>1, <1>2, <1>3, <1>4
    <2>2. QED
      BY <1>1, <1>2, <2>1, Slice, SMTT(40)
  <1> HIDE DEF piece
  <1>7. /\ b \in [1 .. BlockBytes -> Int]
        /\ \A i \in 1 .. BlockBytes :
             b[i] = IF i \in left + 1 .. left + Len(piece) THEN piece[i - left] ELSE c.buf[i]
    <2>1. left \in Nat
      BY <1>1
    <2>2. QED
      BY <1>1, <1>5, <2>1, CopiedIs, Zenon
  <1> HIDE DEF b, t, left
  <1>8. b \in Seq(Int) /\ Len(b) = BlockBytes
    BY <1>2, <1>7, SeqDef
  <1>9. ASSUME NEW i \in 1 .. BlockBytes
        PROVE  b[i] = t[i]
    <2>1. CASE i \in 1 .. left
      <3>1. ~(i \in left + 1 .. left + Len(piece))
        BY <1>1, <2>1
      <3>2. QED
        BY <1>3, <1>6, <1>7, <2>1, <3>1
    <2>2. CASE ~(i \in 1 .. left)
      <3>1. i \in left + 1 .. left + Len(piece) /\ i - left \in 1 .. fill
        <4>1. left \in Nat /\ fill \in Nat /\ left + fill = BlockBytes
          BY <1>1, <1>2
        <4>2. i \in left + 1 .. left + fill /\ i - left \in 1 .. fill
          BY <1>9, <2>2, <4>1
        <4>3. QED
          BY <1>5, <4>2
      <3>2. i - left \in 1 .. Len(in) /\ (z + left) + (i - left) = z + i
        BY <1>1, <1>2, <1>4, <3>1
      <3>3. in[i - left] = p[(z + left) + (i - left)]
        BY <1>3, <3>2
      <3>4. QED
        BY <1>5, <1>6, <1>7, <3>1, <3>2, <3>3
    <2>3. QED
      BY <2>1, <2>2
  <1>10. b = t
    BY <1>6, <1>8, <1>9, SeqEqual
  <1>11. b = Filled(c, in)
    BY Zenon DEF Filled, b, piece, fill, left
  <1>12. t = SubSeq(p, Sz(Len(c.blocks)) + 1, Sz(Len(c.blocks) + 1))
    BY <1>1 DEF t, z
  <1>13. QED
    BY <1>7, <1>8, <1>10, <1>11, <1>12

\* What Update compresses first when the piece fills the block.
FirstTurn(c, in) == Compress(CountBlock([c EXCEPT !.buf = Filled(c, in)]), Filled(c, in))

\* d has the block of c besides those of c, counted.
Counted(d, c, block) ==
  /\ d \in Contexts
  /\ d.t0 = CountBlock(c).t0 /\ d.t1 = CountBlock(c).t1 /\ d.nullt = c.nullt
  /\ d.blocks = Append(c.blocks, [block |-> block, count |-> CountOf(CountBlock(c))])

\* The compression of the filled buffer reads the next block of p.
LEMMA FirstTurnIs ==
  ASSUME NEW c, NEW p, NEW in, InPlace(c, p), Continues(c, in, p), FillsBlock(c, in)
  PROVE  /\ Counted(FirstTurn(c, in), c, Filled(c, in))
         /\ BlocksRead(FirstTurn(c, in).blocks, p)
         /\ Len(FirstTurn(c, in).blocks) = Len(c.blocks) + 1
  <1> DEFINE block == Filled(c, in)
             b == [c EXCEPT !.buf = block]
             f == CountBlock(b)
             g == CountBlock(c)
             d == Compress(f, block)
             e == [block |-> block, count |-> CountOf(g)]
  <1>1. /\ block \in Seq(Int) /\ block \in [1 .. BlockBytes -> Int]
        /\ block = SubSeq(p, Sz(Len(c.blocks)) + 1, Sz(Len(c.blocks) + 1))
    BY FilledIs
  <1>2. c \in Contexts /\ c.blocks \in Seq(Compressed) /\ BlocksRead(c.blocks, p)
    BY ContextFields DEF InPlace
  <1>3. g \in Contexts /\ g.blocks = c.blocks
    BY <1>2, CountBlockIs DEF Holds
  <1>4. g.nullt = c.nullt
    BY <1>2, CountBlockIs, Zenon DEF Holds
  <1>5. f = [g EXCEPT !.buf = block]
    BY <1>2 DEF CountBlock, Contexts
  <1> HIDE DEF block, g, f
  <1>6. Holds(f, g.t0, g.t1, g.nullt, g.buflen, block, g.blocks)
    BY <1>1, <1>3, <1>5, BufferSet, Zenon
  <1>7. f \in Contexts /\ f.t0 = g.t0 /\ f.t1 = g.t1 /\ f.blocks = g.blocks
    BY <1>6 DEF Holds
  <1>8. f.nullt = g.nullt
    BY <1>6, Zenon DEF Holds
  <1>9. CountOf(f) = CountOf(g)
    BY <1>7, <1>8, Zenon DEF CountOf
  <1>10. Holds(d, f.t0, f.t1, f.nullt, f.buflen, f.buf,
               Append(f.blocks, [block |-> block, count |-> CountOf(f)]))
    BY <1>1, <1>7, CompressIs, Zenon
  <1> HIDE DEF d
  <1>11. /\ d \in Contexts /\ d.t0 = g.t0 /\ d.t1 = g.t1 /\ d.nullt = c.nullt
         /\ d.blocks = Append(c.blocks, e)
    BY <1>3, <1>4, <1>7, <1>8, <1>9, <1>10, Zenon DEF Holds
  <1>12. e \in Compressed /\ e.block = block
    <2>1. g.t0 \in Nat /\ g.t1 \in Nat
      BY <1>3, ContextFields
    <2>2. CountOf(g) \in Seq(Nat)
      <3>1. <<>> \in Seq(Nat) /\ <<g.t0, g.t1>> \in Seq(Nat)
        BY <2>1
      <3>2. QED
        BY <3>1 DEF CountOf
    <2>3. QED
      BY <1>1, <2>2 DEF Compressed
  <1> HIDE DEF e
  <1>13. BlocksRead(d.blocks, p) /\ Len(d.blocks) = Len(c.blocks) + 1
    BY <1>1, <1>2, <1>11, <1>12, BlockAdded, Zenon
  <1>14. Counted(d, c, block)
    BY <1>11, Zenon DEF Counted, e, g
  <1>15. d = FirstTurn(c, in)
    BY Zenon DEF FirstTurn, d, f, block
  <1>16. QED
    BY <1>13, <1>14, <1>15, Zenon DEF block

\* A piece that ends with the block leaves nothing that waits.
LEMMA ExactStep ==
  ASSUME NEW c, NEW p, NEW in, InPlace(c, p), Continues(c, in, p),
         c.buflen # 0, c.buflen + Len(in) = BlockBytes
  PROVE  LET d == Update(c, in)
         IN  InPlace(d, p) /\ d.buflen = 0 /\ Counted(d, c, Filled(c, in))
  <1> DEFINE b == FirstTurn(c, in)
             fill == BlockBytes - c.buflen
             rest == SubSeq(in, fill + 1, Len(in))
             d == StoreRest(b, 0, <<>>)
  <1>1. /\ BlockBytes \in Nat \ {0} /\ c.buflen \in 0 .. BlockBytes - 1
        /\ in \in Seq(Int) /\ Len(in) \in Nat /\ p \in Seq(Int)
    BY Sizes, InPlaceNumbers, LenProperties DEF Continues, InPlace
  <1>2. FillsBlock(c, in) /\ Len(in) = fill
    BY <1>1 DEF FillsBlock
  <1>3. /\ Counted(b, c, Filled(c, in)) /\ BlocksRead(b.blocks, p)
        /\ b \in Contexts
    BY <1>2, FirstTurnIs, Zenon DEF Counted
  <1>4. rest = <<>>
    <2>1. fill + 1 \in Int /\ Len(in) \in Int /\ Len(in) < fill + 1
      BY <1>1, <1>2
    <2>2. QED
      BY <2>1, SubSeqEmpty
  <1>5. Update(c, in) = StoreRest(WholeBlocks(b, rest), 0, rest)
    BY <1>2, Zenon DEF Update, FirstTurn, Filled
  <1> HIDE DEF b, rest
  <1>6. <<>> \in Seq(Int) /\ Len(<<>>) = 0
    BY EmptySeq
  <1>7. WholeBlocks(b, <<>>) = b
    <2>1. Len(<<>>) < BlockBytes
      BY <1>1, <1>6
    <2>2. QED
      BY <1>3, <1>6, <2>1, NoWholeBlocks, Zenon
  <1>8. Update(c, in) = d
    BY <1>4, <1>5, <1>7, Zenon
  <1>9. InPlace(d, p) /\ Keeps(d, b, 0)
    <2>1. /\ 0 = Len(<<>>) \div BlockBytes /\ Len(<<>>) = Sz(0) + 0 /\ 0 + 0 < BlockBytes
          /\ 0 \in Nat /\ (0 = 0 => 0 = 0)
      <3>1. Sz(0) = 0 /\ 0 \div BlockBytes = 0
        BY <1>1, SzSteps, Parts
      <3>2. QED
        BY <1>1, <1>6, <3>1
    <2>2. /\ \A i \in 1 .. 0 : b.buf[i] = p[Sz(Len(b.blocks)) + i]
          /\ \A j \in 1 .. 0 : <<>>[Sz(0) + j] = p[Sz(Len(b.blocks)) + (0 + j)]
      OBVIOUS
    <2>3. LET e == StoreRest(b, 0, <<>>)
          IN  InPlace(e, p) /\ Keeps(e, b, 0 + 0)
      BY <1>1, <1>3, <1>6, <2>1, <2>2, RestInPlace, ZenonT(60)
    <2>4. 0 + 0 = 0
      OBVIOUS
    <2>5. QED
      BY <2>3, <2>4
  <1> HIDE DEF d
  <1>10. d.buflen = 0 /\ Counted(d, c, Filled(c, in))
    BY <1>3, <1>9, Zenon DEF Keeps, Counted, InPlace
  <1>11. QED
    BY <1>8, <1>9, <1>10, Zenon

\* A context between two pieces.
Ready(c, p) == Reads(c, p) /\ InPlace(c, p)

\* The blocks of a piece, and what is left of it, whatever is in the buffer
\* when the piece holds no block.
LEMMA PieceRead ==
  ASSUME NEW c, NEW p \in Seq(Int), Reads(c, p), NEW left \in Nat, left < BlockBytes,
         NEW in \in Seq(Int),
         left # 0 => Len(in) # 0 /\ left + Len(in) < BlockBytes,
         \A i \in 1 .. left : c.buf[i] = p[Sz(Len(c.blocks)) + i],
         (Sz(Len(c.blocks)) + left) + Len(in) <= Len(p),
         \A j \in 1 .. Len(in) : in[j] = p[(Sz(Len(c.blocks)) + left) + j]
  PROVE  LET d == StoreRest(WholeBlocks(c, in), left, in)
         IN  Ready(d, p) /\ Fed(d) = (Sz(Len(c.blocks)) + left) + Len(in)
  <1> DEFINE z == Sz(Len(c.blocks))
             q == Len(in) \div BlockBytes
             r == Len(in) - Sz(q)
             w == WholeBlocks(c, in)
             d == StoreRest(w, left, in)
  <1>1. /\ c \in Contexts /\ Len(c.blocks) \in Nat /\ z \in Nat
        /\ Len(in) \in Nat /\ Len(p) \in Nat /\ BlockBytes \in Nat
    <2>1. c \in Contexts /\ c.blocks \in Seq(Compressed)
      BY ContextFields DEF Reads
    <2>2. Len(c.blocks) \in Nat
      BY <2>1, LenProperties
    <2>3. Len(c.blocks) \in Int
      BY <2>2
    <2>4. z \in Nat
      BY <2>2, <2>3, SzSteps, Zenon
    <2>5. QED
      BY <2>1, <2>2, <2>4, LenProperties, Sizes
  <1>2. /\ q \in Nat /\ r \in 0 .. BlockBytes - 1 /\ Sz(q) \in Nat
        /\ (Len(in) < BlockBytes => q = 0) /\ Sz(0) = 0
    <2>1. q \in Nat /\ r \in 0 .. BlockBytes - 1 /\ (Len(in) < BlockBytes => q = 0)
      BY <1>1, Parts
    <2>2. Sz(q) \in Nat /\ Sz(0) = 0
      BY <2>1, SzSteps
    <2>3. QED
      BY <2>1, <2>2
  <1> HIDE DEF z, q
  <1>3. /\ Len(in) = Sz(q) + r /\ Sz(q) <= Len(in)
        /\ (z + left) + Len(in) <= Len(p)
    <2> DEFINE l == Len(in)
               s == Sz(q)
    <2>1. s \in Nat /\ l \in Nat /\ r = l - s /\ r >= 0
      BY <1>1, <1>2
    <2> HIDE DEF l, s, r
    <2>2. l = s + r /\ s <= l
      BY <2>1
    <2>3. QED
      BY <2>2 DEF l, s, z
  <1> HIDE DEF r
  <1>4. left # 0 => q = 0 /\ r = Len(in) /\ Len(in) # 0
    <2> DEFINE l == Len(in)
               s == Sz(q)
    <2>1. /\ (left # 0 => l # 0 /\ left + l < BlockBytes) /\ (l < BlockBytes => q = 0)
          /\ (q = 0 => s = 0) /\ l = s + r /\ l \in Nat /\ s \in Nat /\ r \in Int
          /\ BlockBytes \in Nat
      BY <1>1, <1>2, <1>3
    <2> HIDE DEF l, s
    <2>2. left # 0 => q = 0 /\ r = l /\ l # 0
      BY <2>1
    <2>3. QED
      BY <2>2 DEF l
  <1>5. \A k \in 1 .. q : SubSeq(in, (k - 1) * BlockBytes + 1, k * BlockBytes)
                            = SubSeq(p, Sz(Len(c.blocks) + (k - 1)) + 1, Sz(Len(c.blocks) + k))
    <2>1. TAKE k \in 1 .. q
    <2>2. left = 0
      BY <1>2, <1>4
    <2> DEFINE a == Sz(k - 1)
               b == z + a
    <2>3. a \in Nat /\ Sz(k) = a + BlockBytes /\ Sz(k) <= Sz(q)
      <3>1. k - 1 \in Nat /\ k - 1 \in Int /\ k \in Int /\ q \in Int /\ k <= q /\ (k - 1) + 1 = k
        BY <1>2
      <3>2. a \in Nat /\ Sz((k - 1) + 1) = a + BlockBytes
        BY <3>1, SzSteps
      <3>3. Sz(k) <= Sz(q)
        BY <3>1, SzSteps
      <3>4. QED
        BY <3>1, <3>2, <3>3
    <2>4. Sz(Len(c.blocks) + (k - 1)) = b /\ Sz(Len(c.blocks) + k) = z + Sz(k)
      <3>1. Len(c.blocks) \in Int /\ k - 1 \in Int /\ k \in Int
        BY <1>1
      <3>2. QED
        BY <3>1, SzAdds, Zenon DEF z
    <2> HIDE DEF a
    <2>5. a + BlockBytes <= Len(in) /\ b + BlockBytes <= Len(p) /\ b \in Nat
      <3> DEFINE l == Len(in)
                 m == Len(p)
                 s == Sz(q)
      <3>1. /\ z \in Nat /\ l \in Nat /\ m \in Nat /\ s \in Nat /\ s <= l /\ z + l <= m
            /\ BlockBytes \in Nat /\ a + BlockBytes <= s /\ a \in Nat
        BY <1>1, <1>2, <1>3, <2>2, <2>3
      <3> HIDE DEF l, m, s
      <3>2. a + BlockBytes <= l /\ b + BlockBytes <= m /\ b \in Nat
        BY <3>1
      <3>3. QED
        BY <3>2 DEF l, m
    <2>6. \A j \in 1 .. BlockBytes : in[a + j] = p[b + j]
      <3>1. TAKE j \in 1 .. BlockBytes
      <3>2. a + j \in 1 .. Len(in) /\ (z + left) + (a + j) = b + j
        <4> DEFINE l == Len(in)
        <4>1. l \in Nat /\ a \in Nat /\ z \in Nat /\ BlockBytes \in Nat /\ a + BlockBytes <= l
          BY <1>1, <2>3, <2>5
        <4> HIDE DEF l
        <4>2. a + j \in 1 .. l
          BY <4>1
        <4>3. (z + left) + (a + j) = b + j
          BY <2>2, <4>1
        <4>4. QED
          BY <4>2, <4>3 DEF l
      <3>3. in[a + j] = p[(z + left) + (a + j)]
        BY <3>2 DEF z
      <3>4. QED
        BY <3>2, <3>3
    <2>7. SubSeq(in, a + 1, a + BlockBytes) = SubSeq(p, b + 1, b + BlockBytes)
      <3> HIDE DEF b
      <3>1. QED
        <4>1. a \in Nat /\ b \in Nat /\ BlockBytes \in Nat
          BY <1>1, <2>3, <2>5
        <4>2. a + BlockBytes <= Len(in) /\ b + BlockBytes <= Len(p)
          BY <2>5
        <4>3. Agree(in, a, p, b, BlockBytes)
          BY <2>6, <4>1, <4>2 DEF Agree
        <4>4. SameSlice(in, a, p, b, BlockBytes)
          BY <4>3, SlicesAgree, Zenon
        <4>5. QED
          BY <4>4, Zenon DEF SameSlice
    <2>8. (k - 1) * BlockBytes = a /\ k * BlockBytes = a + BlockBytes /\ b + BlockBytes = z + Sz(k)
      <3>1. (k - 1) * BlockBytes = a /\ k * BlockBytes = Sz(k)
        BY Zenon DEF a, Sz
      <3>2. QED
        BY <1>1, <2>3, <3>1
    <2>9. QED
      BY <2>4, <2>7, <2>8
  <1>6. Reads(w, p) /\ After(w, c, q)
    <2>1. q = Len(in) \div BlockBytes /\ q * BlockBytes <= Len(in)
      BY <1>3 DEF q, Sz
    <2>2. QED
      BY <1>2, <1>5, <2>1, WholeBlocksRead, Zenon
  <1> HIDE DEF w
  <1>7. /\ w \in Contexts /\ BlocksRead(w.blocks, p)
        /\ Len(w.blocks) = Len(c.blocks) + q /\ w.buf = c.buf
    BY <1>6, Zenon DEF Reads, After
  <1>8. Sz(Len(w.blocks)) = z + Sz(q)
    <2>1. Len(c.blocks) \in Int /\ q \in Int
      BY <1>1, <1>2
    <2>2. QED
      BY <1>7, <2>1, SzAdds, Zenon DEF z
  <1>9. left + r < BlockBytes /\ (r = 0 => left = 0)
    BY <1>1, <1>2, <1>4
  <1>10. \A i \in 1 .. left : w.buf[i] = p[Sz(Len(w.blocks)) + i]
    <2>1. CASE left = 0
      BY <2>1
    <2>2. CASE left # 0
      <3>1. Sz(Len(w.blocks)) = z
        BY <1>1, <1>2, <1>4, <1>8, <2>2
      <3>2. QED
        BY <1>7, <3>1 DEF z
    <2>3. QED
      BY <2>1, <2>2
  <1>11. \A j \in 1 .. r : in[Sz(q) + j] = p[Sz(Len(w.blocks)) + (left + j)]
    <2>1. TAKE j \in 1 .. r
    <2>2. Sz(q) + j \in 1 .. Len(in) /\ (z + left) + (Sz(q) + j) = (z + Sz(q)) + (left + j)
      <3> DEFINE s == Sz(q)
                 l == Len(in)
      <3>1. s \in Nat /\ l = s + r /\ r \in Nat /\ l \in Nat /\ z \in Nat
        BY <1>1, <1>2, <1>3
      <3> HIDE DEF s, l
      <3>2. s + j \in 1 .. l /\ (z + left) + (s + j) = (z + s) + (left + j)
        BY <3>1
      <3>3. QED
        BY <3>2 DEF s, l
    <2>3. in[Sz(q) + j] = p[(z + left) + (Sz(q) + j)]
      BY <2>2 DEF z
    <2>4. QED
      BY <1>8, <2>2, <2>3
  <1>12. LET e == StoreRest(w, left, in)
         IN  InPlace(e, p) /\ Keeps(e, w, left + r)
    <2>1. q = Len(in) \div BlockBytes /\ r \in Nat
      BY <1>2 DEF q
    <2>2. QED
      BY <1>2, <1>3, <1>7, <1>9, <1>10, <1>11, <2>1, RestInPlace, ZenonT(60)
  <1> HIDE DEF d
  <1>13. InPlace(d, p) /\ Keeps(d, w, left + r)
    BY <1>12 DEF d
  <1>14. Reads(d, p)
    BY <1>6, <1>13, Zenon DEF Reads, Keeps, InPlace
  <1>15. Fed(d) = (z + left) + Len(in)
    <2>1. Fed(d) = (z + Sz(q)) + (left + r)
      BY <1>8, <1>13 DEF Keeps, Fed
    <2>2. QED
      BY <1>1, <1>2, <1>3, <2>1
  <1>16. QED
    BY <1>13, <1>14, <1>15 DEF Ready, d, w, z

\* Update takes a piece of the message in, whatever its size and wherever the
\* blocks end.
LEMMA UpdateReads ==
  ASSUME NEW c, NEW p, NEW in, Ready(c, p), Continues(c, in, p), Len(in) # 0
  PROVE  Ready(Update(c, in), p) /\ Fed(Update(c, in)) = Fed(c) + Len(in)
  <1> DEFINE left == c.buflen
             z == Sz(Len(c.blocks))
  <1>1. /\ Reads(c, p) /\ InPlace(c, p) /\ c \in Contexts
        /\ in \in Seq(Int) /\ p \in Seq(Int) /\ Len(in) \in Nat
    BY LenProperties DEF Ready, Continues, InPlace
  <1>2. /\ left \in 0 .. BlockBytes - 1 /\ left < BlockBytes /\ left \in Nat
        /\ BlockBytes \in Nat /\ z \in Nat /\ Len(c.blocks) \in Nat
        /\ Sz(Len(c.blocks) + 1) = z + BlockBytes
    BY <1>1, InPlaceNumbers, Sizes
  <1>3. /\ \A j \in 1 .. Len(in) : in[j] = p[(z + left) + j]
        /\ (z + left) + Len(in) <= Len(p)
        /\ \A i \in 1 .. left : c.buf[i] = p[z + i]
        /\ Fed(c) = z + left
    BY <1>1 DEF Continues, Fed, InPlace
  <1>4. CASE ~FillsBlock(c, in)
    <2>1. left # 0 => Len(in) # 0 /\ left + Len(in) < BlockBytes
      BY <1>1, <1>2, <1>4 DEF FillsBlock
    <2>2. LET d == StoreRest(WholeBlocks(c, in), left, in)
          IN  Ready(d, p) /\ Fed(d) = (Sz(Len(c.blocks)) + left) + Len(in)
      <3> HIDE DEF left
      <3>1. QED
        BY <1>1, <1>2, <1>3, <2>1, PieceRead, Zenon
    <2>3. Update(c, in) = StoreRest(WholeBlocks(c, in), left, in)
      BY <1>4, Zenon DEF Update
    <2>4. QED
      BY <1>3, <2>2, <2>3, Zenon
  <1>5. CASE FillsBlock(c, in)
    <2> DEFINE fill == BlockBytes - left
               b == [c EXCEPT !.buf = Filled(c, in)]
               d == FirstTurn(c, in)
               n == Len(in) - fill
               rest == SubSeq(in, fill + 1, Len(in))
    <2>1. fill \in Nat /\ n \in Nat /\ fill + n = Len(in)
      <3> DEFINE l == Len(in)
      <3>1. l >= BlockBytes - left /\ l \in Nat /\ left \in 0 .. BlockBytes - 1 /\ BlockBytes \in Nat
        BY <1>1, <1>2, <1>5 DEF FillsBlock
      <3> HIDE DEF l, left
      <3>2. fill \in Nat /\ l - fill \in Nat /\ fill + (l - fill) = l
        BY <3>1
      <3>3. QED
        BY <3>2 DEF l
    <2>2. /\ Filled(c, in) \in Seq(Int) /\ Filled(c, in) \in [1 .. BlockBytes -> Int]
          /\ Filled(c, in) = SubSeq(p, Sz(Len(c.blocks)) + 1, Sz(Len(c.blocks) + 1))
      BY <1>1, <1>5, FilledIs
    <2>3. Reads(b, p) /\ b.blocks = c.blocks
      <3>1. Holds(b, c.t0, c.t1, c.nullt, c.buflen, Filled(c, in), c.blocks)
        BY <1>1, <2>2, BufferSet, Zenon
      <3> HIDE DEF b
      <3>2. QED
        BY <1>1, <3>1, Zenon DEF Holds, Reads
    <2> HIDE DEF b
    <2>4. LET e == Compress(CountBlock(b), Filled(c, in))
          IN  Reads(e, p) /\ After(e, b, 1)
      BY <2>2, <2>3, TurnReads, Zenon
    <2>5. Reads(d, p) /\ Len(d.blocks) = Len(c.blocks) + 1
      BY <2>3, <2>4, Zenon DEF FirstTurn, After, b
    <2>6. Update(c, in) = StoreRest(WholeBlocks(d, rest), 0, rest)
      BY <1>5, Zenon DEF Update, FirstTurn, Filled
    <2>7. rest \in Seq(Int) /\ Len(rest) = n /\ \A j \in 1 .. n : rest[j] = in[fill + j]
      <3> HIDE DEF fill, n
      <3>1. fill + n <= Len(in)
        BY <1>1, <2>1
      <3>2. /\ SubSeq(in, fill + 1, fill + n) \in Seq(Int) /\ Len(SubSeq(in, fill + 1, fill + n)) = n
            /\ \A j \in 1 .. n : SubSeq(in, fill + 1, fill + n)[j] = in[fill + j]
        BY <1>1, <2>1, <3>1, Slice
      <3>3. QED
        BY <2>1, <3>2
    <2> HIDE DEF d, rest
    <2>8. Sz(Len(d.blocks)) = z + BlockBytes
      BY <1>2, <2>5
    <2> HIDE DEF z, n, fill
    <2>9. (z + BlockBytes) + n = (z + left) + Len(in) /\ left + fill = BlockBytes
      <3> DEFINE l == Len(in)
      <3>1. /\ z \in Nat /\ left \in Nat /\ BlockBytes \in Nat /\ l \in Nat /\ n \in Nat
            /\ fill \in Nat /\ fill + n = l /\ fill = BlockBytes - left
        BY <1>1, <1>2, <2>1 DEF fill
      <3> HIDE DEF l, left
      <3>2. (z + BlockBytes) + n = (z + left) + l /\ left + fill = BlockBytes
        BY <3>1
      <3>3. QED
        BY <3>2 DEF l, left
    <2>10. \A j \in 1 .. n : rest[j] = p[(z + BlockBytes) + j]
      <3>1. TAKE j \in 1 .. n
      <3>2. fill + j \in 1 .. Len(in) /\ (z + left) + (fill + j) = (z + BlockBytes) + j
        <4> DEFINE l == Len(in)
        <4>1. l \in Nat /\ fill \in Nat /\ n \in Nat /\ fill + n = l /\ left + fill = BlockBytes
          BY <1>1, <2>1, <2>9
        <4>2. z \in Nat /\ left \in Nat
          BY <1>2
        <4> HIDE DEF l, left
        <4>3. fill + j \in 1 .. l /\ (z + left) + (fill + j) = (z + BlockBytes) + j
          BY <4>1, <4>2
        <4>4. QED
          BY <4>3 DEF l, left
      <3>3. QED
        BY <1>3, <2>7, <3>2
    <2>11. LET e == StoreRest(WholeBlocks(d, rest), 0, rest)
           IN  Ready(e, p) /\ Fed(e) = (Sz(Len(d.blocks)) + 0) + Len(rest)
      <3>1. Sz(Len(d.blocks)) + 0 = z + BlockBytes
        BY <1>2, <2>8
      <3>2. /\ 0 \in Nat /\ 0 < BlockBytes
            /\ (0 # 0 => Len(rest) # 0 /\ 0 + Len(rest) < BlockBytes)
            /\ \A i \in 1 .. 0 : d.buf[i] = p[Sz(Len(d.blocks)) + i]
        BY <1>2
      <3>3. (Sz(Len(d.blocks)) + 0) + Len(rest) <= Len(p)
        BY <1>3, <2>7, <2>9, <3>1
      <3>4. \A j \in 1 .. Len(rest) : rest[j] = p[(Sz(Len(d.blocks)) + 0) + j]
        BY <2>7, <2>10, <3>1
      <3>5. QED
        BY <1>1, <2>5, <2>7, <3>2, <3>3, <3>4, PieceRead, ZenonT(60)
    <2>12. (Sz(Len(d.blocks)) + 0) + Len(rest) = Fed(c) + Len(in)
      BY <1>2, <1>3, <2>7, <2>8, <2>9
    <2>13. QED
      BY <2>6, <2>11, <2>12, Zenon
  <1>6. QED
    BY <1>4, <1>5

\* What is read of a message is read of every one that continues it.
LEMMA ReadsMore ==
  ASSUME NEW c, NEW m, NEW p \in Seq(Int), InPlace(c, m), Fed(c) <= Len(m), Len(m) <= Len(p),
         \A i \in 1 .. Len(m) : p[i] = m[i]
  PROVE  InPlace(c, p) /\ (Reads(c, m) => Reads(c, p))
  <1> DEFINE n == Len(c.blocks)
             z == Sz(n)
  <1>1. /\ c \in Contexts /\ m \in Seq(Int) /\ n \in Nat /\ z \in Nat /\ BlockBytes \in Nat
        /\ c.buflen \in 0 .. BlockBytes - 1 /\ Len(m) \in Nat /\ Len(p) \in Nat
    BY InPlaceNumbers, LenProperties, Sizes DEF InPlace
  <1>2. Fed(c) = z + c.buflen
    BY DEF Fed
  <1>3. \A k \in 1 .. n : c.blocks[k].block = SubSeq(m, Sz(k - 1) + 1, Sz(k))
    BY DEF InPlace, BlocksRead
  <1>4. \A i \in 1 .. c.buflen : c.buf[i] = m[z + i]
    BY DEF InPlace
  <1> HIDE DEF n
  <1>5. ASSUME NEW k \in 1 .. n
        PROVE  SubSeq(m, Sz(k - 1) + 1, Sz(k)) = SubSeq(p, Sz(k - 1) + 1, Sz(k))
    <2> DEFINE a == Sz(k - 1)
    <2>1. a \in Nat /\ Sz(k) = a + BlockBytes /\ Sz(k) <= z
      <3>1. k - 1 \in Nat /\ k - 1 \in Int /\ k \in Int /\ n \in Int /\ k <= n /\ (k - 1) + 1 = k
        BY <1>1
      <3>2. a \in Nat /\ Sz((k - 1) + 1) = a + BlockBytes
        BY <3>1, SzSteps
      <3>3. Sz(k) <= Sz(n)
        BY <3>1, SzSteps
      <3>4. QED
        BY <3>1, <3>2, <3>3
    <2> HIDE DEF a, z
    <2>2. a + BlockBytes <= Len(m) /\ a + BlockBytes <= Len(p)
      <3> DEFINE l == Len(m)
                 k1 == Len(p)
      <3>1. /\ a \in Nat /\ BlockBytes \in Nat /\ z \in Nat /\ l \in Nat /\ k1 \in Nat
            /\ a + BlockBytes <= z /\ z <= l /\ l <= k1
        BY <1>1, <1>2, <2>1
      <3> HIDE DEF l, k1
      <3>2. a + BlockBytes <= l /\ a + BlockBytes <= k1
        BY <3>1
      <3>3. QED
        BY <3>2 DEF l, k1
    <2>3. \A j \in 1 .. BlockBytes : m[a + j] = p[a + j]
      <3>1. TAKE j \in 1 .. BlockBytes
      <3>2. a + j \in 1 .. Len(m)
        BY <1>1, <2>1, <2>2
      <3>3. QED
        BY <3>2
    <2>4. Agree(m, a, p, a, BlockBytes)
      BY <1>1, <2>1, <2>2, <2>3 DEF Agree
    <2>5. SameSlice(m, a, p, a, BlockBytes)
      BY <2>4, SlicesAgree, Zenon
    <2>6. SubSeq(m, a + 1, a + BlockBytes) = SubSeq(p, a + 1, a + BlockBytes)
      BY <2>5, Zenon DEF SameSlice
    <2>7. QED
      BY <2>1, <2>6 DEF a
  <1>6. BlocksRead(c.blocks, p)
    BY <1>3, <1>5 DEF BlocksRead, n
  <1>7. \A i \in 1 .. c.buflen : c.buf[i] = p[z + i]
    <2> HIDE DEF z
    <2>1. TAKE i \in 1 .. c.buflen
    <2>2. z + i \in 1 .. Len(m)
      BY <1>1, <1>2
    <2>3. QED
      BY <1>4, <2>2
  <1>8. InPlace(c, p)
    BY <1>1, <1>6, <1>7, Zenon DEF InPlace, n
  <1>9. QED
    BY <1>6, <1>8, Zenon DEF Reads

-----------------------------------------------------------------------------
\* The padding.

\* p starts with x.
Starts(p, x) ==
  /\ p \in Seq(Int) /\ x \in Seq(Int) /\ Len(x) <= Len(p)
  /\ \A i \in 1 .. Len(x) : p[i] = x[i]

\* A sequence of n numbers.
ByteString(s, n) == s \in Seq(Int) /\ n \in Nat /\ Len(s) = n

\* Byte strings of j and of k bytes join to one of j + k bytes.
LEMMA Joined ==
  ASSUME NEW x, NEW y, NEW j, NEW k, ByteString(x, j), ByteString(y, k)
  PROVE  ByteString(x \o y, j + k)
  <1>1. x \in Seq(Int) /\ y \in Seq(Int) /\ j \in Nat /\ k \in Nat /\ Len(x) = j /\ Len(y) = k
    BY DEF ByteString
  <1>2. x \o y \in Seq(Int) /\ Len(x \o y) = Len(x) + Len(y)
    BY <1>1, ConcatProperties
  <1> DEFINE s == x \o y
  <1> HIDE DEF s
  <1>3. s \in Seq(Int) /\ Len(s) = j + k
    BY <1>1, <1>2 DEF s
  <1>4. ByteString(s, j + k)
    BY <1>1, <1>3 DEF ByteString
  <1>5. QED
    BY <1>4 DEF s

\* What starts with x and then y starts with x.
LEMMA StartsLess ==
  ASSUME NEW p, NEW x \in Seq(Int), NEW y \in Seq(Int), Starts(p, x \o y)
  PROVE  Starts(p, x)
  <1>1. /\ Len(x) \in Nat /\ Len(y) \in Nat /\ Len(x \o y) = Len(x) + Len(y)
        /\ p \in Seq(Int) /\ Len(x \o y) <= Len(p) /\ Len(p) \in Nat
    BY ConcatProperties, LenProperties DEF Starts
  <1>2. \A i \in 1 .. Len(x) + Len(y) : (x \o y)[i] = IF i <= Len(x) THEN x[i] ELSE y[i - Len(x)]
    BY ConcatProperties
  <1>3. \A i \in 1 .. Len(x \o y) : p[i] = (x \o y)[i]
    BY DEF Starts
  <1>4. ASSUME NEW i \in 1 .. Len(x)
        PROVE  p[i] = x[i]
    <2>1. i \in 1 .. Len(x) + Len(y) /\ i <= Len(x)
      BY <1>1
    <2>2. (x \o y)[i] = x[i]
      BY <1>2, <2>1
    <2>3. p[i] = (x \o y)[i]
      BY <1>1, <1>3, <2>1
    <2>4. QED
      BY <2>2, <2>3
  <1>5. QED
    BY <1>1, <1>4 DEF Starts

\* What starts with x and then y is continued by y, in a context that was fed x.
LEMMA StartsContinues ==
  ASSUME NEW c, NEW p, NEW x \in Seq(Int), NEW y \in Seq(Int), Starts(p, x \o y), Fed(c) = Len(x)
  PROVE  Continues(c, y, p)
  <1>1. /\ Len(x) \in Nat /\ Len(y) \in Nat /\ Len(x \o y) = Len(x) + Len(y)
        /\ p \in Seq(Int) /\ Len(x \o y) <= Len(p)
    BY ConcatProperties, LenProperties DEF Starts
  <1>2. \A i \in 1 .. Len(x) + Len(y) : (x \o y)[i] = IF i <= Len(x) THEN x[i] ELSE y[i - Len(x)]
    BY ConcatProperties
  <1>3. \A i \in 1 .. Len(x \o y) : p[i] = (x \o y)[i]
    BY DEF Starts
  <1> DEFINE l == Len(x)
             k == Len(y)
  <1>4. ASSUME NEW j \in 1 .. k
        PROVE  y[j] = p[l + j]
    <2>1. l \in Nat /\ k \in Nat
      BY <1>1
    <2>2. \A i \in 1 .. l + k : (x \o y)[i] = IF i <= l THEN x[i] ELSE y[i - l]
      BY <1>2
    <2>3. \A i \in 1 .. l + k : p[i] = (x \o y)[i]
      BY <1>1, <1>3
    <2> HIDE DEF l, k
    <2>4. l + j \in 1 .. l + k /\ ~(l + j <= l) /\ (l + j) - l = j
      BY <2>1
    <2>5. (x \o y)[l + j] = y[j]
      BY <2>2, <2>4
    <2>6. QED
      BY <2>3, <2>4, <2>5
  <1>5. Fed(c) + Len(y) <= Len(p)
    BY <1>1
  <1>6. QED
    BY <1>4, <1>5 DEF Continues

\* c is at p with these blocks, n bytes that wait, and a counter that is t.
State(c, p, blocks, n, t, t1, nullt) ==
  /\ InPlace(c, p)
  /\ c.blocks = blocks /\ c.buflen = n
  /\ c.t0 = t % Wrap /\ c.t1 = t1 /\ c.nullt = nullt

\* Taking padding bytes from the counter keeps every other part of the state.
LEMMA UncountStep ==
  ASSUME NEW c, NEW p, NEW blocks, NEW n, NEW t \in Int, NEW t1, NEW nullt, NEW k \in Int,
         State(c, p, blocks, n, t, t1, nullt)
  PROVE  State(Uncount(c, k), p, blocks, n, t - k, t1, nullt)
  <1> DEFINE d == Uncount(c, k)
  <1>1. c \in Contexts /\ InPlace(c, p)
    BY DEF State, InPlace
  <1>2. Holds(d, (c.t0 - k) % Wrap, c.t1, c.nullt, c.buflen, c.buf, c.blocks)
    BY <1>1, UncountIs, Zenon
  <1>3. (c.t0 - k) % Wrap = (t - k) % Wrap
    <2>1. Wrap \in Nat \ {0} /\ -k \in Int /\ c.t0 = t % Wrap /\ t % Wrap \in Int
      BY Sizes DEF State
    <2>2. ((t % Wrap) + (-k)) % Wrap = (t + (-k)) % Wrap
      BY <2>1, ModAdd
    <2>3. (t % Wrap) + (-k) = c.t0 - k /\ t + (-k) = t - k
      BY <2>1
    <2>4. QED
      BY <2>2, <2>3
  <1> HIDE DEF d
  <1>4. InPlace(d, p)
    BY <1>1, <1>2, Zenon DEF InPlace, Holds
  <1>5. State(d, p, blocks, n, t - k, t1, nullt)
    BY <1>2, <1>3, <1>4, Zenon DEF State, Holds
  <1>6. QED
    BY <1>5 DEF d

\* An input too short to fill the block only waits: no block is compressed and nothing is counted.
LEMMA ShortState ==
  ASSUME NEW c, NEW p, NEW blocks, NEW n, NEW t, NEW t1, NEW nullt,
         State(c, p, blocks, n, t, t1, nullt),
         NEW x \in Seq(Int), NEW y \in Seq(Int), Starts(p, x \o y), Sz(Len(blocks)) + n = Len(x),
         Len(y) # 0, n + Len(y) < BlockBytes
  PROVE  State(Update(c, y), p, blocks, n + Len(y), t, t1, nullt)
  <1>1. InPlace(c, p) /\ c.buflen = n /\ c.blocks = blocks
    BY DEF State
  <1>2. Continues(c, y, p)
    <2>1. Fed(c) = Len(x)
      BY <1>1 DEF Fed
    <2>2. QED
      BY <2>1, StartsContinues, Zenon
  <1>3. c.buflen + Len(y) < BlockBytes
    BY <1>1
  <1>4. LET d == Update(c, y)
        IN  InPlace(d, p) /\ Keeps(d, c, c.buflen + Len(y))
    BY <1>1, <1>2, <1>3, ShortStep, Zenon
  <1>5. QED
    BY <1>1, <1>4, Zenon DEF State, Keeps

\* d has one more block than blocks, with this count.
Ends(d, p, blocks, number) ==
  /\ InPlace(d, p) /\ d.buflen = 0
  /\ Len(d.blocks) = Len(blocks) + 1
  /\ \A k \in 1 .. Len(blocks) : d.blocks[k] = blocks[k]
  /\ d.blocks[Len(blocks) + 1].count = number

\* The count of a block after t, and the words of the counter that follow it.
NextCount(t, t1, nullt) ==
  LET u0 == (t + BlockBytes) % Wrap
      u1 == IF u0 = 0 THEN t1 + 1 ELSE t1
  IN  IF nullt THEN <<>> ELSE <<u0, u1>>

\* d has one more block, and counts on.
CountsOn(d, p, blocks, t, t1, nullt) ==
  /\ Ends(d, p, blocks, NextCount(t, t1, nullt))
  /\ d.t0 = (t + BlockBytes) % Wrap
  /\ d.nullt = nullt

\* A piece that ends with the block.
LEMMA ExactState ==
  ASSUME NEW c, NEW p, NEW blocks, NEW n, NEW t \in Int, NEW t1, NEW nullt,
         State(c, p, blocks, n, t, t1, nullt),
         NEW x \in Seq(Int), NEW y \in Seq(Int), Starts(p, x \o y), Sz(Len(blocks)) + n = Len(x),
         n # 0, n + Len(y) = BlockBytes
  PROVE  CountsOn(Update(c, y), p, blocks, t, t1, nullt)
  <1> DEFINE u0 == (t + BlockBytes) % Wrap
             u1 == IF u0 = 0 THEN t1 + 1 ELSE t1
             d == Update(c, y)
             f == CountBlock(c)
             e == [block |-> Filled(c, y), count |-> CountOf(f)]
  <1>1. InPlace(c, p) /\ c.buflen = n /\ c.blocks = blocks /\ c \in Contexts
    BY DEF State, InPlace
  <1>2. Continues(c, y, p)
    <2>1. Fed(c) = Len(x)
      BY <1>1 DEF Fed
    <2>2. QED
      BY <2>1, StartsContinues, Zenon
  <1>3. c.buflen # 0 /\ c.buflen + Len(y) = BlockBytes
    BY <1>1
  <1>4. InPlace(d, p) /\ d.buflen = 0 /\ Counted(d, c, Filled(c, y))
    BY <1>1, <1>2, <1>3, ExactStep, Zenon
  <1>5. FillsBlock(c, y)
    <2>1. Len(y) \in Nat /\ c.buflen \in Nat
      BY <1>1, LenProperties, ContextFields
    <2>2. QED
      BY <1>3, <2>1 DEF FillsBlock
  <1>6. Filled(c, y) \in Seq(Int)
    BY <1>1, <1>2, <1>5, FilledIs
  <1>7. f \in Contexts /\ f.t0 = u0 /\ f.t1 = u1
    <2>1. /\ f \in Contexts /\ f.t0 = (c.t0 + BlockBytes) % Wrap
          /\ f.t1 = (IF f.t0 = 0 THEN c.t1 + 1 ELSE c.t1)
      BY <1>1, CountBlockIs DEF Holds
    <2>2. c.t0 = t % Wrap /\ c.t1 = t1
      BY DEF State
    <2>3. ((t % Wrap) + BlockBytes) % Wrap = (t + BlockBytes) % Wrap
      BY Sizes, ModAdd
    <2>4. QED
      BY <2>1, <2>2, <2>3
  <1>8. f.nullt = nullt
    <2>1. f.nullt = c.nullt
      BY <1>1, CountBlockIs, Zenon DEF Holds
    <2>2. QED
      BY <2>1, Zenon DEF State
  <1> HIDE DEF u0, u1, f, d
  <1>9. CountOf(f) = IF nullt THEN <<>> ELSE <<u0, u1>>
    BY <1>7, <1>8, Zenon DEF CountOf
  <1>10. e \in Compressed
    <2>1. f.t0 \in Nat /\ f.t1 \in Nat
      BY <1>7, ContextFields
    <2>2. CountOf(f) \in Seq(Nat)
      <3>1. <<>> \in Seq(Nat) /\ <<f.t0, f.t1>> \in Seq(Nat)
        BY <2>1
      <3>2. QED
        BY <3>1 DEF CountOf
    <2>3. QED
      BY <1>6, <2>2 DEF Compressed
  <1>11. /\ d.blocks = Append(blocks, e) /\ d.t0 = u0 /\ d.t1 = u1 /\ d.nullt = nullt
    <2>1. c.nullt = nullt
      BY Zenon DEF State
    <2>2. QED
      BY <1>1, <1>4, <1>7, <2>1, Zenon DEF Counted, f
  <1>12. blocks \in Seq(Compressed)
    BY <1>1, ContextFields
  <1>13. e.count = CountOf(f)
    OBVIOUS
  <1> HIDE DEF e
  <1>14. /\ Len(Append(blocks, e)) = Len(blocks) + 1
         /\ \A k \in 1 .. Len(blocks) : Append(blocks, e)[k] = blocks[k]
         /\ Append(blocks, e)[Len(blocks) + 1] = e
    BY <1>10, <1>12, AppendProperties
  <1>15. Ends(d, p, blocks, IF nullt THEN <<>> ELSE <<u0, u1>>)
    BY <1>4, <1>9, <1>11, <1>13, <1>14, Zenon DEF Ends
  <1>16. QED
    BY <1>11, <1>15, Zenon DEF d, u0, u1, NextCount, CountsOn

\* Setting the flag of a block without message bytes changes nothing else.
LEMMA NullState ==
  ASSUME NEW c, NEW p, NEW blocks, NEW n, NEW t, NEW t1, NEW nullt, NEW v \in BOOLEAN,
         State(c, p, blocks, n, t, t1, nullt)
  PROVE  State([c EXCEPT !.nullt = v], p, blocks, n, t, t1, v)
  <1> DEFINE d == [c EXCEPT !.nullt = v]
  <1>1. c \in Contexts
    BY DEF State, InPlace
  <1>2. d = Context(c.t0, c.t1, v, c.buflen, c.buf, c.blocks)
    BY <1>1 DEF Contexts, Context
  <1> HIDE DEF d
  <1>3. Holds(d, c.t0, c.t1, v, c.buflen, c.buf, c.blocks)
    <2>1. /\ c.t0 \in Nat /\ c.t1 \in Nat /\ c.nullt \in BOOLEAN /\ c.buflen \in Nat
          /\ c.buf \in [1 .. BlockBytes -> Int] /\ c.blocks \in Seq(Compressed)
      BY <1>1, ContextFields
    <2>2. QED
      BY <1>2, <2>1, ContextIs, Zenon
  <1>4. State(d, p, blocks, n, t, t1, v)
    BY <1>3, Zenon DEF State, Holds, InPlace
  <1>5. QED
    BY <1>4 DEF d

\* The bytes of the padding.
LEMMA PadBytes ==
  ASSUME NEW n \in Nat
  PROVE  /\ Zeros(n) \in Seq(Int) /\ Len(Zeros(n)) = n /\ \A i \in 1 .. n : Zeros(n)[i] = 0
         /\ Padding(n) \in Seq(Int) /\ Len(Padding(n)) = n
         /\ \A i \in 1 .. n : Padding(n)[i] = IF i = 1 THEN FirstPad ELSE 0
         /\ <<FirstPad>> \in Seq(Int) /\ Len(<<FirstPad>>) = 1 /\ <<FirstPad>>[1] = FirstPad
         /\ <<LastPad>> \in Seq(Int) /\ Len(<<LastPad>>) = 1
         /\ <<OnlyPad>> \in Seq(Int) /\ Len(<<OnlyPad>>) = 1
  <1>1. FirstPad \in Int /\ LastPad \in Int /\ OnlyPad \in Int
    BY DEF FirstPad, LastPad, OnlyPad
  <1>2. Zeros(n) \in [1 .. n -> Int] /\ \A i \in 1 .. n : Zeros(n)[i] = 0
    BY DEF Zeros
  <1>3. /\ Padding(n) \in [1 .. n -> Int]
        /\ \A i \in 1 .. n : Padding(n)[i] = IF i = 1 THEN FirstPad ELSE 0
    BY <1>1 DEF Padding
  <1>4. Zeros(n) \in Seq(Int) /\ Len(Zeros(n)) = n
    BY <1>2, SeqDef
  <1>5. Padding(n) \in Seq(Int) /\ Len(Padding(n)) = n
    BY <1>3, SeqDef
  <1>6. /\ <<FirstPad>> \in Seq(Int) /\ Len(<<FirstPad>>) = 1 /\ <<FirstPad>>[1] = FirstPad
        /\ <<LastPad>> \in Seq(Int) /\ Len(<<LastPad>>) = 1
        /\ <<OnlyPad>> \in Seq(Int) /\ Len(<<OnlyPad>>) = 1
    BY <1>1
  <1>7. QED
    BY <1>2, <1>3, <1>4, <1>5, <1>6

\* A first byte, or a first part, of the padding, and the zeros that follow it.
LEMMA PaddingSplits ==
  ASSUME NEW j \in Nat, NEW k \in Nat
  PROVE  /\ <<FirstPad>> \o Zeros(k) = Padding(k + 1)
         /\ j # 0 => Padding(j) \o Zeros(k) = Padding(j + k)
  <1>1. ASSUME NEW a \in Nat, a # 0, NEW s \in Seq(Int), Len(s) = a,
               \A i \in 1 .. a : s[i] = IF i = 1 THEN FirstPad ELSE 0
        PROVE  s \o Zeros(k) = Padding(a + k)
    <2> DEFINE zs == Zeros(k)
               t == s \o zs
    <2>1. a + k \in Nat
      OBVIOUS
    <2>2. /\ Zeros(k) \in Seq(Int) /\ Len(Zeros(k)) = k /\ \A i \in 1 .. k : Zeros(k)[i] = 0
          /\ Padding(a + k) \in Seq(Int) /\ Len(Padding(a + k)) = a + k
          /\ \A i \in 1 .. a + k : Padding(a + k)[i] = IF i = 1 THEN FirstPad ELSE 0
      BY <2>1, PadBytes
    <2>3. /\ t \in Seq(Int) /\ Len(t) = Len(s) + Len(Zeros(k))
          /\ \A i \in 1 .. Len(s) + Len(Zeros(k)) :
               t[i] = IF i <= Len(s) THEN s[i] ELSE Zeros(k)[i - Len(s)]
      <3>1. s \in Seq(Int) /\ zs \in Seq(Int)
        BY <1>1, <2>2
      <3> HIDE DEF zs
      <3>2. /\ s \o zs \in Seq(Int) /\ Len(s \o zs) = Len(s) + Len(zs)
            /\ \A i \in 1 .. Len(s) + Len(zs) :
                 (s \o zs)[i] = IF i <= Len(s) THEN s[i] ELSE zs[i - Len(s)]
        BY <3>1, ConcatProperties
      <3>3. QED
        BY <3>2, Zenon DEF zs
    <2> HIDE DEF t, zs
    <2>4. Len(t) = a + k /\ \A i \in 1 .. a + k : t[i] = IF i <= a THEN s[i] ELSE Zeros(k)[i - a]
      BY <1>1, <2>2, <2>3
    <2>5. ASSUME NEW i \in 1 .. a + k
          PROVE  t[i] = Padding(a + k)[i]
      <3>1. CASE i <= a
        <4>1. i \in 1 .. a
          BY <3>1
        <4>2. QED
          BY <1>1, <2>2, <2>4, <3>1, <4>1
      <3>2. CASE ~(i <= a)
        <4>1. i - a \in 1 .. k /\ i # 1
          BY <1>1, <3>2
        <4>2. QED
          BY <2>2, <2>4, <3>2, <4>1
      <3>3. QED
        BY <3>1, <3>2
    <2>6. t = Padding(a + k)
      BY <2>2, <2>3, <2>4, <2>5, SeqEqual
    <2>7. QED
      BY <2>6 DEF t, zs
  <1>2. <<FirstPad>> \o Zeros(k) = Padding(1 + k)
    <2>1. /\ <<FirstPad>> \in Seq(Int) /\ Len(<<FirstPad>>) = 1
          /\ \A i \in 1 .. 1 : <<FirstPad>>[i] = IF i = 1 THEN FirstPad ELSE 0
      BY PadBytes
    <2>2. 1 \in Nat /\ 1 # 0
      OBVIOUS
    <2>3. QED
      BY <1>1, <2>1, <2>2
  <1>3. j # 0 => Padding(j) \o Zeros(k) = Padding(j + k)
    <2>1. /\ Padding(j) \in Seq(Int) /\ Len(Padding(j)) = j
          /\ \A i \in 1 .. j : Padding(j)[i] = IF i = 1 THEN FirstPad ELSE 0
      BY PadBytes
    <2>2. QED
      BY <1>1, <2>1
  <1>4. 1 + k = k + 1
    OBVIOUS
  <1>5. QED
    BY <1>2, <1>3, <1>4

\* The words that end the padding.
Words(m) == Zeros(LengthBytes - 2) \o <<Len(m) \div Wrap, Len(m) % Wrap>>

\* Where the message ends in its last block.
EndsAt(m, n, b) ==
  /\ m \in Seq(Int) /\ n \in Nat /\ b \in 0 .. BlockBytes - 1
  /\ Len(m) = Sz(n) + b

\* The length words of a message that ends b bytes into its block n + 1.
LEMMA WordsAre ==
  ASSUME NEW m, NEW n, NEW b, EndsAt(m, n, b)
  PROVE  /\ Words(m) \in Seq(Int) /\ Len(Words(m)) = LengthBytes
         /\ Len(m) % Wrap = (Sz(n) % Wrap) + b /\ Len(m) \div Wrap = Sz(n) \div Wrap
         /\ Sz(n) % Wrap \in Nat
  <1> DEFINE t0 == Sz(n) % Wrap
             t1 == Sz(n) \div Wrap
             l == Len(m)
  <1>1. /\ BlockBytes \in Nat /\ LengthBytes - 2 \in Nat /\ Wrap \in Nat \ {0}
        /\ b \in 0 .. BlockBytes - 1 /\ n \in Nat /\ n \in Int /\ l = Sz(n) + b
    BY Sizes DEF EndsAt
  <1>2. t0 \in Nat /\ t1 \in Nat /\ t0 + BlockBytes <= Wrap
    BY <1>1, CountsUp
  <1>3. Sz(n) \in Int /\ Sz(n) = Wrap * t1 + t0
    <2>1. Sz(n) \in Int
      BY <1>1, SzSteps
    <2>2. QED
      BY <1>1, <2>1, DivMod, Zenon
  <1> HIDE DEF t0, t1, l
  <1>4. l = t1 * Wrap + (t0 + b) /\ t0 + b \in 0 .. Wrap - 1 /\ t1 \in Int
    BY <1>1, <1>2, <1>3
  <1>5. l \div Wrap = t1 /\ l % Wrap = t0 + b
    BY <1>1, <1>4, DivisionIs
  <1>6. l \div Wrap \in Int /\ l % Wrap \in Int
    BY <1>4, <1>5
  <1>7. /\ Zeros(LengthBytes - 2) \in Seq(Int) /\ Len(Zeros(LengthBytes - 2)) = LengthBytes - 2
    BY <1>1, PadBytes
  <1>8. /\ <<l \div Wrap, l % Wrap>> \in Seq(Int) /\ Len(<<l \div Wrap, l % Wrap>>) = 2
    BY <1>6
  <1>9. /\ Words(m) \in Seq(Int) /\ Len(Words(m)) = (LengthBytes - 2) + 2
    BY <1>7, <1>8, ConcatProperties DEF Words, l
  <1>10. QED
    BY <1>1, <1>2, <1>5, <1>9, Sizes DEF l, t0, t1

\* Parts of a sequence may be put together in either order.
Regroups(x, y, z) == (x \o y) \o z = x \o (y \o z)

\* Joins may be regrouped.
LEMMA Regrouped ==
  ASSUME NEW x \in Seq(Int), NEW y \in Seq(Int), NEW z \in Seq(Int)
  PROVE  Regroups(x, y, z)
  BY ConcatAssociative, SMTT(40) DEF Regroups

\* The definition's padding, in the pieces the three branches of blake256_Final write.
LEMMA PaddedIs ==
  ASSUME NEW m, NEW n, NEW b, EndsAt(m, n, b)
  PROVE  /\ b = Room => Padded(m) = (m \o <<OnlyPad>>) \o Words(m)
         /\ b < Room => Padded(m) = ((m \o Padding(Room - b)) \o <<LastPad>>) \o Words(m)
         /\ b > Room => Padded(m) = (((m \o Padding(BlockBytes - b)) \o Zeros(Room)) \o <<LastPad>>)
                                      \o Words(m)
  <1> DEFINE l == Len(m)
             zeros == (Room - l - 1) % BlockBytes
             pad == IF l % BlockBytes = Room THEN <<OnlyPad>>
                    ELSE (<<FirstPad>> \o Zeros(zeros)) \o <<LastPad>>
             z == Zeros(LengthBytes - 2)
             w == <<l \div Wrap, l % Wrap>>
  <1>1. /\ m \in Seq(Int) /\ n \in Int /\ b \in 0 .. BlockBytes - 1 /\ b \in Int /\ l = n * BlockBytes + b
        /\ BlockBytes \in Nat \ {0} /\ Room \in Nat /\ Room < BlockBytes /\ l \in Int
        /\ LengthBytes - 2 \in Nat /\ Wrap \in Nat \ {0}
    BY Sizes, LenProperties DEF EndsAt, Sz
  <1>2. l % BlockBytes = b
    BY <1>1, DivisionIs
  <1>3. Padded(m) = ((m \o pad) \o z) \o w
    BY Zenon DEF Padded
  <1>4. z \in Seq(Int) /\ w \in Seq(Int) /\ Words(m) = z \o w
    <2>1. z \in Seq(Int)
      BY <1>1, PadBytes
    <2>2. l \div Wrap \in Int /\ l % Wrap \in Int
      BY <1>1
    <2>3. w \in Seq(Int)
      BY <2>2
    <2>4. QED
      BY <2>1, <2>3, Zenon DEF Words
  <1>5. ASSUME NEW s \in Seq(Int), pad = s
        PROVE  Padded(m) = (m \o s) \o Words(m)
    <2> HIDE DEF pad, z, w
    <2>1. m \o s \in Seq(Int)
      BY <1>1, ConcatProperties
    <2>2. ((m \o s) \o z) \o w = (m \o s) \o (z \o w)
      BY <1>4, <2>1, Regrouped, Zenon DEF Regroups
    <2>3. QED
      BY <1>3, <1>4, <1>5, <2>2
  <1>6. /\ <<OnlyPad>> \in Seq(Int) /\ <<LastPad>> \in Seq(Int)
        /\ \A k \in Nat : Padding(k) \in Seq(Int) /\ Zeros(k) \in Seq(Int)
    <2>1. 0 \in Nat
      OBVIOUS
    <2>2. QED
      BY <2>1, PadBytes
  <1>7. ASSUME b = Room
        PROVE  Padded(m) = (m \o <<OnlyPad>>) \o Words(m)
    BY <1>2, <1>5, <1>6, <1>7
  <1> HIDE DEF l
  <1>8. ASSUME b < Room
        PROVE  Padded(m) = ((m \o Padding(Room - b)) \o <<LastPad>>) \o Words(m)
    <2> DEFINE r == (Room - b) - 1
               s == Padding(Room - b) \o <<LastPad>>
    <2>1. r \in 0 .. BlockBytes - 1 /\ r \in Nat /\ Room - b \in Nat /\ r + 1 = Room - b
      BY <1>1, <1>8
    <2>2. zeros = r
      <3>1. -n \in Int /\ Room - l - 1 = (-n) * BlockBytes + r
        BY <1>1
      <3> HIDE DEF r
      <3>2. ((-n) * BlockBytes + r) % BlockBytes = r
        BY <1>1, <2>1, <3>1, DivisionIs
      <3>3. QED
        BY <3>1, <3>2
    <2> HIDE DEF zeros, r
    <2>3. <<FirstPad>> \o Zeros(zeros) = Padding(Room - b)
      <3>1. 0 \in Nat /\ r \in Nat
        BY <2>1
      <3>2. <<FirstPad>> \o Zeros(r) = Padding(r + 1)
        BY <3>1, PaddingSplits
      <3>3. QED
        BY <2>1, <2>2, <3>2
    <2>4. pad = s
      <3>1. b # Room
        BY <1>1, <1>8
      <3>2. QED
        BY <1>2, <2>3, <3>1, Zenon
    <2>5. Padding(Room - b) \in Seq(Int) /\ s \in Seq(Int)
      BY <1>6, <2>1, ConcatProperties
    <2>6. Padded(m) = (m \o s) \o Words(m)
      BY <1>5, <2>4, <2>5, Zenon
    <2>7. (m \o Padding(Room - b)) \o <<LastPad>> = m \o s
      <3> DEFINE y == Padding(Room - b)
                 w1 == <<LastPad>>
      <3>1. m \in Seq(Int) /\ y \in Seq(Int) /\ w1 \in Seq(Int)
        BY <1>1, <1>6, <2>5
      <3> HIDE DEF y, w1
      <3>2. Regroups(m, y, w1)
        BY <3>1, Regrouped, Zenon
      <3>3. QED
        BY <3>2, Zenon DEF Regroups, y, w1
    <2>8. QED
      BY <2>6, <2>7, Zenon
  <1>9. ASSUME b > Room
        PROVE  Padded(m) = (((m \o Padding(BlockBytes - b)) \o Zeros(Room)) \o <<LastPad>>) \o Words(m)
    <2> DEFINE r == ((Room - b) - 1) + BlockBytes
               j == BlockBytes - b
               a == Padding(j) \o Zeros(Room)
               s == a \o <<LastPad>>
    <2>1. r \in 0 .. BlockBytes - 1 /\ r \in Nat /\ j \in Nat /\ j # 0 /\ r + 1 = j + Room
      BY <1>1, <1>9
    <2>2. zeros = r
      <3>1. -n - 1 \in Int /\ Room - l - 1 = (-n - 1) * BlockBytes + r
        BY <1>1
      <3> HIDE DEF r
      <3>2. ((-n - 1) * BlockBytes + r) % BlockBytes = r
        BY <1>1, <2>1, <3>1, DivisionIs
      <3>3. QED
        BY <3>1, <3>2
    <2> HIDE DEF zeros, r, j
    <2>3. <<FirstPad>> \o Zeros(zeros) = a
      <3>1. <<FirstPad>> \o Zeros(r) = Padding(r + 1)
        BY <2>1, PaddingSplits
      <3>2. Padding(j) \o Zeros(Room) = Padding(j + Room)
        BY <1>1, <2>1, PaddingSplits
      <3>3. QED
        BY <2>1, <2>2, <3>1, <3>2
    <2>4. pad = s
      <3>1. b # Room
        BY <1>1, <1>9
      <3>2. QED
        BY <1>2, <2>3, <3>1, Zenon
    <2>5. Padding(j) \in Seq(Int) /\ Zeros(Room) \in Seq(Int)
      BY <1>1, <1>6, <2>1
    <2>6. a \in Seq(Int)
      BY <2>5, ConcatProperties
    <2>7. (m \o Padding(j)) \o Zeros(Room) = m \o a /\ m \o Padding(j) \in Seq(Int)
      <3>1. m \o Padding(j) \in Seq(Int)
        BY <1>1, <2>5, ConcatProperties
      <3>2. QED
        BY <1>1, <2>5, <3>1, Regrouped, Zenon DEF Regroups
    <2> HIDE DEF a
    <2>8. s \in Seq(Int)
      BY <1>6, <2>6, ConcatProperties
    <2>9. Padded(m) = (m \o s) \o Words(m)
      BY <1>5, <2>4, <2>8, Zenon
    <2>10. (m \o a) \o <<LastPad>> = m \o s
      <3> DEFINE w1 == <<LastPad>>
      <3>1. m \in Seq(Int) /\ w1 \in Seq(Int)
        BY <1>1, <1>6
      <3> HIDE DEF w1
      <3>2. Regroups(m, a, w1)
        BY <2>6, <3>1, Regrouped, Zenon
      <3>3. QED
        BY <3>2, Zenon DEF Regroups, w1
    <2>11. QED
      BY <2>7, <2>9, <2>10, Zenon DEF j
  <1>10. QED
    BY <1>7, <1>8, <1>9

\* The count of a block by the definition.
LEMMA CounterIs ==
  ASSUME NEW m, NEW n, NEW b, EndsAt(m, n, b)
  PROVE  /\ \A k \in 1 .. n : Counter(k, Len(m)) = <<Sz(k) % Wrap, Sz(k) \div Wrap>>
         /\ b # 0 => Counter(n + 1, Len(m)) = <<Len(m) % Wrap, Len(m) \div Wrap>>
         /\ b = 0 => Counter(n + 1, Len(m)) = <<>>
         /\ Counter(n + 2, Len(m)) = <<>>
  <1> DEFINE l == Len(m)
  <1>1. /\ n \in Nat /\ b \in 0 .. BlockBytes - 1 /\ l = Sz(n) + b /\ BlockBytes \in Nat
        /\ Sz(n) \in Int
    <2>1. n \in Nat /\ n \in Int
      BY DEF EndsAt
    <2>2. Sz(n) \in Int
      BY <2>1, SzSteps
    <2>3. QED
      BY <2>1, <2>2, Sizes DEF EndsAt
  <1> HIDE DEF l
  <1>2. \A k \in Int : k * BlockBytes = Sz(k) /\ (k - 1) * BlockBytes = Sz(k - 1)
    BY DEF Sz
  <1>3. ASSUME NEW k \in 1 .. n
        PROVE  Counter(k, l) = <<Sz(k) % Wrap, Sz(k) \div Wrap>>
    <2>1. Sz(k) <= l /\ Sz(k - 1) < l
      <3>1. k \in Int /\ n \in Int /\ k <= n
        BY <1>1
      <3>2. Sz(k) <= Sz(n) /\ Sz(k - 1) = Sz(k) - BlockBytes /\ Sz(k) \in Int
        BY <3>1, SzSteps
      <3>3. BlockBytes > 0
        BY Sizes
      <3>4. QED
        BY <1>1, <3>2, <3>3
    <2>2. QED
      BY <1>2, <2>1, Zenon DEF Counter, Sz
  <1>4. ~(Sz(n + 1) <= l) /\ Sz(n + 2) = Sz(n + 1) + BlockBytes /\ Sz(n + 1) = Sz(n) + BlockBytes
    <2>1. n \in Int /\ n + 1 \in Int /\ (n + 1) + 1 = n + 2
      BY <1>1
    <2>2. Sz(n + 1) = Sz(n) + BlockBytes
      BY <2>1, SzSteps
    <2>3. Sz((n + 1) + 1) = Sz(n + 1) + BlockBytes
      BY <2>1, SzSteps
    <2>4. QED
      BY <1>1, <2>1, <2>2, <2>3
  <1>5. /\ (n + 1) * BlockBytes = Sz(n + 1) /\ ((n + 1) - 1) * BlockBytes = Sz(n)
        /\ ((n + 2) - 1) * BlockBytes = Sz(n + 1)
    <2>1. (n + 1) - 1 = n /\ (n + 2) - 1 = n + 1
      BY <1>1
    <2>2. QED
      BY <2>1 DEF Sz
  <1>6. b # 0 => Counter(n + 1, l) = <<l % Wrap, l \div Wrap>>
    <2>1. b # 0 => Sz(n) < l
      BY <1>1
    <2>2. QED
      BY <1>4, <1>5, <2>1, Zenon DEF Counter
  <1>7. b = 0 => Counter(n + 1, l) = <<>>
    <2>1. b = 0 => ~(Sz(n) < l)
      BY <1>1
    <2>2. QED
      BY <1>5, <2>1, Zenon DEF Counter
  <1>8. Counter(n + 2, l) = <<>>
    <2>1. ~(Sz(n + 1) < l)
      BY <1>1, <1>4
    <2>2. QED
      BY <1>5, <2>1, Zenon DEF Counter
  <1>9. QED
    BY <1>3, <1>6, <1>7, <1>8 DEF l

\* Blocks of the padded message, with their counts, are those of the definition.
LEMMA BlocksAre ==
  ASSUME NEW blocks \in Seq(Compressed), NEW m, BlocksRead(blocks, Padded(m)),
         Len(Padded(m)) = Sz(Len(blocks)),
         \A k \in 1 .. Len(blocks) : blocks[k].count = Counter(k, Len(m))
  PROVE  blocks = Blocks(m)
  <1> DEFINE n == Len(blocks)
             p == Padded(m)
  <1>1. n \in Nat /\ blocks = [k \in 1 .. n |-> blocks[k]]
    BY LenProperties
  <1>2. \A k \in 1 .. n : blocks[k] \in Compressed
    BY ElementOfSeq
  <1> HIDE DEF n
  <1>3. Len(p) \div BlockBytes = n
    <2>1. BlockBytes \in Nat \ {0} /\ n \in Int /\ 0 \in 0 .. BlockBytes - 1
      BY <1>1, Sizes
    <2>2. (n * BlockBytes + 0) \div BlockBytes = n
      BY <2>1, DivisionIs
    <2>3. n * BlockBytes + 0 = Sz(n)
      BY <2>1 DEF Sz
    <2>4. QED
      BY <2>2, <2>3 DEF n
  <1>4. ASSUME NEW k \in 1 .. n
        PROVE  blocks[k] = [block |-> SubSeq(p, (k - 1) * BlockBytes + 1, k * BlockBytes),
                            count |-> Counter(k, Len(m))]
    <2>1. blocks[k] = [block |-> blocks[k].block, count |-> blocks[k].count]
      BY <1>2 DEF Compressed
    <2>2. blocks[k].block = SubSeq(p, Sz(k - 1) + 1, Sz(k))
      BY DEF BlocksRead, n
    <2>3. blocks[k].count = Counter(k, Len(m))
      BY DEF n
    <2>4. Sz(k - 1) = (k - 1) * BlockBytes /\ Sz(k) = k * BlockBytes
      BY Zenon DEF Sz
    <2>5. QED
      BY <2>1, <2>2, <2>3, <2>4, Zenon
  <1> HIDE DEF p
  <1>5. Blocks(m) = [k \in 1 .. Len(p) \div BlockBytes |->
                       [block |-> SubSeq(p, (k - 1) * BlockBytes + 1, k * BlockBytes),
                        count |-> Counter(k, Len(m))]]
    BY Zenon DEF Blocks, p
  <1>6. [k \in 1 .. n |-> blocks[k]]
          = [k \in 1 .. n |-> [block |-> SubSeq(p, (k - 1) * BlockBytes + 1, k * BlockBytes),
                               count |-> Counter(k, Len(m))]]
    BY <1>4, Zenon
  <1>7. QED
    BY <1>1, <1>3, <1>5, <1>6, Zenon

\* A context that holds the whole message.
Whole(c, m) == Ready(c, m) /\ Fed(c) = Len(m)

\* A context that absorbed m knows where m ends, and its length in words.
LEMMA WholeIs ==
  ASSUME NEW c, NEW m, Whole(c, m)
  PROVE  /\ EndsAt(m, Len(c.blocks), c.buflen)
         /\ LengthWords(c) = Words(m)
         /\ c.blocks \in Seq(Compressed)
         /\ BlocksCounted(c.blocks)
  <1> DEFINE n == Len(c.blocks)
             b == c.buflen
             t0 == Sz(n) % Wrap
             t1 == Sz(n) \div Wrap
  <1>1. InPlace(c, m) /\ Reads(c, m) /\ c \in Contexts /\ m \in Seq(Int)
    BY DEF Whole, Ready, InPlace
  <1>2. n \in Nat /\ b \in 0 .. BlockBytes - 1
    BY <1>1, InPlaceNumbers
  <1>3. EndsAt(m, n, b)
    BY <1>1, <1>2 DEF EndsAt, Whole, Fed
  <1> HIDE DEF n, b
  <1>4. Len(m) % Wrap = t0 + b /\ Len(m) \div Wrap = t1 /\ t0 \in Nat
    BY <1>3, WordsAre
  <1>5. c.t0 = t0 /\ c.t1 = t1 /\ c.buflen = b
    BY <1>1 DEF Reads, n, b
  <1>6. t0 + b < Wrap
    <2>1. t0 + BlockBytes <= Wrap
      BY <1>2, CountsUp
    <2>2. BlockBytes \in Nat /\ Wrap \in Nat
      BY Sizes
    <2>3. QED
      BY <1>2, <1>4, <2>1, <2>2
  <1> HIDE DEF t0, t1
  <1>7. (t0 + b) % Wrap = t0 + b /\ ~(t0 + b < b)
    <2>1. t0 + b \in 0 .. Wrap - 1 /\ Wrap \in Nat \ {0}
      BY <1>2, <1>4, <1>6, Sizes
    <2>2. (0 * Wrap + (t0 + b)) % Wrap = t0 + b
      BY <2>1, DivisionIs
    <2>3. 0 * Wrap + (t0 + b) = t0 + b
      BY <2>1
    <2>4. QED
      BY <1>2, <1>4, <2>2, <2>3
  <1>8. LengthWords(c) = Zeros(LengthBytes - 2) \o <<t1, t0 + b>>
    BY <1>5, <1>7, Zenon DEF LengthWords
  <1>9. LengthWords(c) = Words(m)
    BY <1>4, <1>8, Zenon DEF Words
  <1>10. c.blocks \in Seq(Compressed) /\ BlocksCounted(c.blocks)
    BY <1>1, ContextFields DEF Reads
  <1>11. QED
    BY <1>3, <1>9, <1>10 DEF n, b

\* Where the padding starts.
LEMMA WholeState ==
  ASSUME NEW c, NEW m, Whole(c, m), NEW p, Starts(p, m)
  PROVE  State(c, p, c.blocks, c.buflen, Sz(Len(c.blocks)), Sz(Len(c.blocks)) \div Wrap, FALSE)
  <1>1. InPlace(c, m) /\ Reads(c, m) /\ c \in Contexts /\ m \in Seq(Int) /\ Fed(c) = Len(m)
    BY DEF Whole, Ready, InPlace
  <1>2. /\ p \in Seq(Int) /\ Fed(c) <= Len(m) /\ Len(m) <= Len(p)
        /\ \A i \in 1 .. Len(m) : p[i] = m[i]
    <2>1. Len(m) \in Nat
      BY <1>1, LenProperties
    <2>2. QED
      BY <1>1, <2>1 DEF Starts
  <1>3. InPlace(c, p)
    BY <1>1, <1>2, ReadsMore, Zenon
  <1>4. c.nullt = FALSE
    BY <1>1, ContextFields, Zenon DEF Reads
  <1>5. c.t0 = Sz(Len(c.blocks)) % Wrap /\ c.t1 = Sz(Len(c.blocks)) \div Wrap
    BY <1>1 DEF Reads
  <1>6. QED
    BY <1>3, <1>4, <1>5, Zenon DEF State

\* The count of the last block that holds bytes of the message, and of a block
\* that holds none.
WholeCount(m, nullt) == IF nullt THEN <<>> ELSE <<Len(m) % Wrap, Len(m) \div Wrap>>

\* A counter that will be that of the message when the block ends.
CountsTo(m, b, t, t1, nullt) ==
  ~nullt => b # 0 /\ t + (Room + 1) = Len(m) /\ t1 = Len(m) \div Wrap

\* The last block: the words of the length end it, and its counter is that of
\* the whole message.
LEMMA LastBlock ==
  ASSUME NEW c, NEW p, NEW blocks, NEW t \in Int, NEW t1, NEW nullt, NEW m, NEW n, NEW b,
         EndsAt(m, n, b), State(c, p, blocks, Room + 1, t, t1, nullt),
         NEW x \in Seq(Int), Starts(p, x \o Words(m)), Sz(Len(blocks)) + (Room + 1) = Len(x),
         CountsTo(m, b, t, t1, nullt)
  PROVE  Ends(Update(Uncount(c, LengthBytes), Words(m)), p, blocks, WholeCount(m, nullt))
  <1> DEFINE d == Uncount(c, LengthBytes)
             s == t - LengthBytes
             u0 == (s + BlockBytes) % Wrap
             u1 == IF u0 = 0 THEN t1 + 1 ELSE t1
             e == Update(d, Words(m))
             y == Words(m)
  <1>1. /\ LengthBytes \in Int /\ s \in Int /\ Room + 1 # 0 /\ Room \in Nat
        /\ (Room + 1) + LengthBytes = BlockBytes /\ BlockBytes \in Nat
    BY Sizes
  <1>2. y \in Seq(Int) /\ Len(y) = LengthBytes
    BY WordsAre
  <1>3. State(d, p, blocks, Room + 1, s, t1, nullt)
    BY <1>1, UncountStep, Zenon
  <1> HIDE DEF d, s, y
  <1>4. /\ Ends(Update(d, y), p, blocks, IF nullt THEN <<>> ELSE <<u0, u1>>)
    <2>1. (Room + 1) + Len(y) = BlockBytes
      BY <1>1, <1>2
    <2>2. Starts(p, x \o y)
      BY DEF y
    <2>3. CountsOn(Update(d, y), p, blocks, s, t1, nullt)
      BY <1>1, <1>2, <1>3, <2>1, <2>2, ExactState, Zenon
    <2>4. QED
      BY <2>3, Zenon DEF NextCount, CountsOn
  <1>5. ASSUME ~nullt
        PROVE  u0 = Len(m) % Wrap /\ u1 = Len(m) \div Wrap
    <2>1. s + BlockBytes = Len(m) /\ b # 0
      <3>1. b # 0 /\ t + (Room + 1) = Len(m)
        BY <1>5, Zenon DEF CountsTo
      <3>2. s + BlockBytes = t + (Room + 1)
        BY <1>1 DEF s
      <3>3. QED
        BY <3>1, <3>2
    <2>2. u0 = Len(m) % Wrap /\ t1 = Len(m) \div Wrap
      BY <1>5, <2>1 DEF CountsTo
    <2>3. u0 # 0
      <3>1. Len(m) % Wrap = (Sz(n) % Wrap) + b /\ Sz(n) % Wrap \in Nat /\ b \in Nat
        BY WordsAre DEF EndsAt
      <3>2. QED
        BY <2>1, <2>2, <3>1
    <2>4. QED
      BY <1>5, <2>2, <2>3
  <1> HIDE DEF u0, u1
  <1>6. (IF nullt THEN <<>> ELSE <<u0, u1>>)
          = WholeCount(m, nullt)
    BY <1>5, Zenon DEF WholeCount
  <1>7. QED
    BY <1>4, <1>6, Zenon DEF d, y

\* The message leaves room for one byte of padding and the length.
LEMMA FinishOne ==
  ASSUME NEW c, NEW m, Whole(c, m), c.buflen = Room
  PROVE  /\ Ends(Finish(c), Padded(m), c.blocks, <<Len(m) % Wrap, Len(m) \div Wrap>>)
         /\ Len(Padded(m)) = Sz(Len(c.blocks) + 1)
  <1> DEFINE n == Len(c.blocks)
             z == Sz(n)
             y == <<OnlyPad>>
             x == m \o y
             p == Padded(m)
             t1 == z \div Wrap
             d == PadOne(c)
             v == FALSE
  <1>1. EndsAt(m, n, Room) /\ LengthWords(c) = Words(m) /\ c.blocks \in Seq(Compressed)
    BY WholeIs
  <1>2. /\ m \in Seq(Int) /\ n \in Nat /\ Len(m) = z + Room /\ z \in Nat
        /\ Room \in Nat \ {0} /\ LengthBytes \in Nat /\ BlockBytes \in Nat
        /\ (Room + 1) + LengthBytes = BlockBytes /\ 2 <= LengthBytes
        /\ Sz(n + 1) = z + BlockBytes
    <2>1. m \in Seq(Int) /\ n \in Nat /\ n \in Int /\ Len(m) = z + Room
      BY <1>1 DEF EndsAt
    <2>2. z \in Nat /\ Sz(n + 1) = z + BlockBytes
      BY <2>1, SzSteps
    <2>3. QED
      BY <2>1, <2>2, Sizes
  <1>3. Words(m) \in Seq(Int) /\ Len(Words(m)) = LengthBytes /\ Len(m) \div Wrap = t1
    BY <1>1, WordsAre
  <1>4. y \in Seq(Int) /\ Len(y) = 1
    <2>1. 0 \in Nat
      OBVIOUS
    <2>2. QED
      BY <2>1, PadBytes
  <1>5. p = x \o Words(m)
    BY <1>1, PaddedIs
  <1> HIDE DEF n, z, y, p, t1, v
  <1>6. x \in Seq(Int) /\ Len(x) = (z + Room) + 1
    <2>1. ByteString(m, z + Room) /\ ByteString(y, 1)
      BY <1>2, <1>4 DEF ByteString
    <2>2. ByteString(x, (z + Room) + 1)
      BY <2>1, Joined, Zenon
    <2>3. QED
      BY <2>2, Zenon DEF ByteString
  <1>7. p \in Seq(Int) /\ Len(p) = Sz(n + 1)
    <2> HIDE DEF x
    <2>1. ByteString(x, (z + Room) + 1) /\ ByteString(Words(m), LengthBytes)
      BY <1>2, <1>3, <1>6 DEF ByteString
    <2>2. ByteString(x \o Words(m), ((z + Room) + 1) + LengthBytes)
      BY <2>1, Joined, Zenon
    <2>3. ((z + Room) + 1) + LengthBytes = Sz(n + 1)
      BY <1>2
    <2>4. QED
      BY <1>5, <2>2, <2>3, Zenon DEF ByteString
  <1>8. Starts(p, x \o Words(m))
    <2>1. Len(p) \in Nat
      BY <1>7, LenProperties
    <2>2. QED
      BY <1>5, <1>7, <2>1 DEF Starts
  <1>9. Starts(p, x)
    BY <1>3, <1>6, <1>8, StartsLess, Zenon
  <1>10. Starts(p, m)
    BY <1>2, <1>4, <1>9, StartsLess, Zenon
  <1>11. State(c, p, c.blocks, Room, z, t1, v)
    BY <1>10, WholeState, Zenon DEF n, z, t1, v
  <1>12. State(Uncount(c, 1), p, c.blocks, Room, z - 1, t1, v)
    <2>1. z \in Int /\ 1 \in Int
      BY <1>2
    <2>2. QED
      BY <1>11, <2>1, UncountStep, Zenon
  <1>13. State(d, p, c.blocks, Room + 1, z - 1, t1, v)
    <2>1. Len(y) # 0 /\ Room + Len(y) < BlockBytes /\ Room + Len(y) = Room + 1
      BY <1>2, <1>4
    <2>2. Sz(Len(c.blocks)) + Room = Len(m)
      BY <1>2 DEF z, n
    <2>3. State(Update(Uncount(c, 1), y), p, c.blocks, Room + Len(y), z - 1, t1, v)
      BY <1>2, <1>4, <1>9, <1>12, <2>1, <2>2, ShortState, Zenon
    <2>4. QED
      BY <2>1, <2>3, Zenon DEF PadOne, y
  <1>14. Finish(c) = Update(Uncount(d, LengthBytes), Words(m))
    BY <1>1, Zenon DEF Finish
  <1> HIDE DEF d, x
  <1>15. Ends(Finish(c), p, c.blocks, WholeCount(m, v))
    <2>1. z - 1 \in Int /\ (z - 1) + (Room + 1) = Len(m) /\ Room # 0
      BY <1>2
    <2>2. Sz(Len(c.blocks)) + (Room + 1) = Len(x)
      BY <1>2, <1>6 DEF z, n
    <2>3. CountsTo(m, Room, z - 1, t1, v)
      BY <1>3, <2>1, Zenon DEF CountsTo
    <2>4. Ends(Update(Uncount(d, LengthBytes), Words(m)), p, c.blocks,
               WholeCount(m, v))
      BY <1>1, <1>6, <1>8, <1>13, <2>1, <2>2, <2>3, LastBlock, Zenon
    <2>5. QED
      BY <1>14, <2>4, Zenon
  <1>16. QED
    BY <1>7, <1>15, Zenon DEF n, p, v, WholeCount

\* The message leaves room for more: the padding ends in the same block, which
\* is not counted when it holds nothing of the message.
LEMMA FinishSame ==
  ASSUME NEW c, NEW m, Whole(c, m), c.buflen < Room
  PROVE  /\ Ends(Finish(c), Padded(m), c.blocks,
                 IF c.buflen = 0 THEN <<>> ELSE <<Len(m) % Wrap, Len(m) \div Wrap>>)
         /\ Len(Padded(m)) = Sz(Len(c.blocks) + 1)
  <1> DEFINE n == Len(c.blocks)
             b == c.buflen
             z == Sz(n)
             y == Padding(Room - b)
             w == <<LastPad>>
             x1 == m \o y
             x == x1 \o w
             p == Padded(m)
             t1 == z \div Wrap
             v == c.nullt \/ c.buflen = 0
             c0 == [c EXCEPT !.nullt = v]
             c1 == Update(Uncount(c0, Room - b), y)
             c2 == Update(c1, w)
             d == PadSame(c)
  <1>1. EndsAt(m, n, b) /\ LengthWords(c) = Words(m) /\ c.blocks \in Seq(Compressed)
    BY WholeIs
  <1>2. /\ m \in Seq(Int) /\ n \in Nat /\ Len(m) = z + b /\ z \in Nat /\ b \in Nat /\ b < Room
        /\ Room \in Nat \ {0} /\ LengthBytes \in Nat /\ BlockBytes \in Nat
        /\ (Room + 1) + LengthBytes = BlockBytes /\ 2 <= LengthBytes
        /\ Sz(n + 1) = z + BlockBytes
    <2>1. m \in Seq(Int) /\ n \in Nat /\ n \in Int /\ Len(m) = z + b /\ b \in Nat
      BY <1>1 DEF EndsAt
    <2>2. z \in Nat /\ Sz(n + 1) = z + BlockBytes
      BY <2>1, SzSteps
    <2>3. QED
      BY <2>1, <2>2, Sizes
  <1>3. Words(m) \in Seq(Int) /\ Len(Words(m)) = LengthBytes /\ Len(m) \div Wrap = t1
    BY <1>1, WordsAre
  <1>4. y \in Seq(Int) /\ Len(y) = Room - b /\ w \in Seq(Int) /\ Len(w) = 1
    <2>1. Room - b \in Nat
      BY <1>2
    <2>2. QED
      BY <2>1, PadBytes
  <1>5. p = x \o Words(m)
    BY <1>1, <1>2, PaddedIs
  <1>6. /\ ~c.nullt
    BY DEF Whole, Ready, Reads
  <1> HIDE DEF n, b, z, y, w, p, t1
  <1>7. x1 \in Seq(Int) /\ Len(x1) = z + Room
    <2>1. ByteString(m, z + b) /\ ByteString(y, Room - b)
      BY <1>2, <1>4 DEF ByteString
    <2>2. ByteString(x1, (z + b) + (Room - b))
      BY <2>1, Joined, Zenon
    <2>3. (z + b) + (Room - b) = z + Room
      BY <1>2
    <2>4. QED
      BY <2>2, <2>3, Zenon DEF ByteString
  <1> HIDE DEF x1
  <1>8. x \in Seq(Int) /\ Len(x) = (z + Room) + 1
    <2>1. ByteString(x1, z + Room) /\ ByteString(w, 1)
      BY <1>2, <1>4, <1>7 DEF ByteString
    <2>2. ByteString(x, (z + Room) + 1)
      BY <2>1, Joined, Zenon
    <2>3. QED
      BY <2>2, Zenon DEF ByteString
  <1>9. Len(x1) = z + Room /\ Len(x) = z + (Room + 1)
    <2> HIDE DEF x
    <2>1. QED
      BY <1>2, <1>7, <1>8
  <1>10. p \in Seq(Int) /\ Len(p) = Sz(n + 1)
    <2> HIDE DEF x
    <2>1. ByteString(x, (z + Room) + 1) /\ ByteString(Words(m), LengthBytes)
      BY <1>2, <1>3, <1>8 DEF ByteString
    <2>2. ByteString(x \o Words(m), ((z + Room) + 1) + LengthBytes)
      BY <2>1, Joined, Zenon
    <2>3. ((z + Room) + 1) + LengthBytes = Sz(n + 1)
      BY <1>2
    <2>4. QED
      BY <1>5, <2>2, <2>3, Zenon DEF ByteString
  <1>11. Starts(p, x \o Words(m))
    <2>1. Len(p) \in Nat
      BY <1>10, LenProperties
    <2>2. QED
      BY <1>5, <1>10, <2>1 DEF Starts
  <1>12. Starts(p, x)
    BY <1>3, <1>8, <1>11, StartsLess, Zenon
  <1>13. Starts(p, x1)
    BY <1>4, <1>7, <1>12, StartsLess, Zenon
  <1>14. Starts(p, m)
    BY <1>2, <1>4, <1>13, StartsLess, Zenon DEF x1
  <1>15. State(c, p, c.blocks, b, z, t1, FALSE)
    BY <1>14, WholeState, Zenon DEF n, z, t1, b
  <1>16. State(c0, p, c.blocks, b, z, t1, v)
    <2>1. v \in BOOLEAN
      OBVIOUS
    <2> HIDE DEF v
    <2>2. QED
      BY <1>15, <2>1, NullState, Zenon
  <1>17. State(Uncount(c0, Room - b), p, c.blocks, b, z - (Room - b), t1, v)
    <2>1. z \in Int /\ Room - b \in Int
      BY <1>2
    <2> HIDE DEF v, c0
    <2>2. QED
      BY <1>16, <2>1, UncountStep, Zenon
  <1>18. State(c1, p, c.blocks, Room, z - (Room - b), t1, v)
    <2>1. Len(y) # 0 /\ b + Len(y) < BlockBytes /\ b + Len(y) = Room
      BY <1>2, <1>4
    <2>2. Sz(Len(c.blocks)) + b = Len(m)
      BY <1>2 DEF z, n
    <2> HIDE DEF v, c0
    <2>3. State(c1, p, c.blocks, b + Len(y), z - (Room - b), t1, v)
      BY <1>2, <1>4, <1>13, <1>17, <2>1, <2>2, ShortState, Zenon DEF x1
    <2>4. QED
      BY <2>1, <2>3, Zenon
  <1>19. State(c2, p, c.blocks, Room + 1, z - (Room - b), t1, v)
    <2>1. Len(w) # 0 /\ Room + Len(w) < BlockBytes /\ Room + Len(w) = Room + 1
      BY <1>2, <1>4
    <2>2. Sz(Len(c.blocks)) + Room = Len(x1)
      BY <1>9 DEF z, n
    <2> HIDE DEF v, c0, c1
    <2>3. State(c2, p, c.blocks, Room + Len(w), z - (Room - b), t1, v)
      BY <1>4, <1>7, <1>12, <1>18, <2>1, <2>2, ShortState, Zenon
    <2>4. QED
      BY <2>1, <2>3, Zenon
  <1>20. d = Uncount(c2, 1)
    BY Zenon DEF PadSame, y, w, b
  <1>21. State(d, p, c.blocks, Room + 1, (z - (Room - b)) - 1, t1, v)
    <2>1. z - (Room - b) \in Int /\ 1 \in Int
      BY <1>2
    <2> HIDE DEF v, c2, d
    <2>2. State(Uncount(c2, 1), p, c.blocks, Room + 1, (z - (Room - b)) - 1, t1, v)
      BY <1>19, <2>1, UncountStep, Zenon
    <2>3. QED
      BY <1>20, <2>2, Zenon
  <1>22. Finish(c) = Update(Uncount(d, LengthBytes), Words(m))
    <2>1. ~(c.buflen = Room) /\ c.buflen < Room
      BY <1>2 DEF b
    <2>2. QED
      BY <1>1, <2>1, Zenon DEF Finish
  <1>23. v <=> b = 0
    BY <1>6, Zenon DEF b
  <1> HIDE DEF d, x, v
  <1>24. Ends(Finish(c), p, c.blocks, WholeCount(m, v))
    <2> DEFINE t == (z - (Room - b)) - 1
    <2>1. t \in Int /\ t + (Room + 1) = Len(m)
      BY <1>2
    <2>2. Sz(Len(c.blocks)) + (Room + 1) = Len(x)
      BY <1>9 DEF z, n
    <2>3. CountsTo(m, b, t, t1, v)
      BY <1>3, <1>23, <2>1, Zenon DEF CountsTo
    <2> HIDE DEF t
    <2>4. State(d, p, c.blocks, Room + 1, t, t1, v)
      BY <1>21 DEF t
    <2>5. Ends(Update(Uncount(d, LengthBytes), Words(m)), p, c.blocks,
               WholeCount(m, v))
      BY <1>1, <1>8, <1>11, <2>1, <2>2, <2>3, <2>4, LastBlock, Zenon
    <2>6. QED
      BY <1>22, <2>5, Zenon
  <1>25. WholeCount(m, v)
           = (IF b = 0 THEN <<>> ELSE <<Len(m) % Wrap, Len(m) \div Wrap>>)
    BY <1>23, Zenon DEF WholeCount
  <1>26. QED
    BY <1>10, <1>24, <1>25, Zenon DEF n, p, b

\* The length has no room any more: the block is filled, and one of padding
\* only follows, which is not counted.
LEMMA FinishTwo ==
  ASSUME NEW c, NEW m, Whole(c, m), c.buflen > Room
  PROVE  \E d : /\ Ends(d, Padded(m), c.blocks, <<Len(m) % Wrap, Len(m) \div Wrap>>)
                /\ Ends(Finish(c), Padded(m), d.blocks, <<>>)
                /\ Len(Padded(m)) = Sz(Len(c.blocks) + 2)
  <1> DEFINE n == Len(c.blocks)
             b == c.buflen
             k == BlockBytes - b
             z == Sz(n)
             y1 == Padding(k)
             y2 == Zeros(Room)
             y3 == <<LastPad>>
             x1 == m \o y1
             x2 == x1 \o y2
             x == x2 \o y3
             p == Padded(m)
             t1 == z \div Wrap
             u == (z - k) + BlockBytes
             no == FALSE
             yes == TRUE
             d == Update(Uncount(c, k), y1)
             e0 == Uncount(d, Room)
             e == Update(e0, y2)
             f == [e EXCEPT !.nullt = yes]
             f1 == Update(f, y3)
             g == PadTwo(c)
  <1>1. EndsAt(m, n, b) /\ LengthWords(c) = Words(m) /\ c.blocks \in Seq(Compressed)
    BY WholeIs
  <1>2. /\ m \in Seq(Int) /\ n \in Nat /\ Len(m) = z + b /\ z \in Nat /\ b \in 0 .. BlockBytes - 1
        /\ b > Room /\ Room \in Nat \ {0} /\ LengthBytes \in Nat /\ BlockBytes \in Nat
        /\ (Room + 1) + LengthBytes = BlockBytes /\ 2 <= LengthBytes
        /\ Sz(n + 1) = z + BlockBytes /\ Sz(n + 2) = (z + BlockBytes) + BlockBytes
    <2>1. m \in Seq(Int) /\ n \in Nat /\ n \in Int /\ Len(m) = z + b /\ b \in 0 .. BlockBytes - 1
      BY <1>1 DEF EndsAt
    <2>2. z \in Nat /\ Sz(n + 1) = z + BlockBytes
      BY <2>1, SzSteps
    <2>3. Sz((n + 1) + 1) = Sz(n + 1) + BlockBytes /\ (n + 1) + 1 = n + 2
      <3> HIDE DEF n
      <3>1. n + 1 \in Int /\ (n + 1) + 1 = n + 2
        BY <2>1
      <3>2. QED
        BY <3>1, SzSteps
    <2>4. QED
      BY <2>1, <2>2, <2>3, Sizes
  <1>3. /\ Words(m) \in Seq(Int) /\ Len(Words(m)) = LengthBytes
        /\ Len(m) \div Wrap = t1 /\ Len(m) % Wrap = (z % Wrap) + b /\ z % Wrap \in Nat
    BY <1>1, WordsAre
  <1>4. k \in Nat /\ k # 0 /\ b + k = BlockBytes /\ b # 0 /\ k \in Int
    <2> HIDE DEF b, n, z
    <2>1. QED
      BY <1>2
  <1>5. p = x \o Words(m)
    BY <1>1, <1>2, PaddedIs
  <1> HIDE DEF n, b, k, z, p, t1, no, yes
  <1>6. ByteString(m, z + b) /\ ByteString(y1, k) /\ ByteString(y2, Room) /\ ByteString(y3, 1) /\ ByteString(Words(m), LengthBytes)
    <2>1. /\ y1 \in Seq(Int) /\ Len(y1) = k /\ y2 \in Seq(Int) /\ Len(y2) = Room
          /\ y3 \in Seq(Int) /\ Len(y3) = 1
      BY <1>2, <1>4, PadBytes
    <2>2. QED
      BY <1>2, <1>3, <1>4, <2>1 DEF ByteString
  <1> HIDE DEF y1, y2, y3
  <1>7. ByteString(x1, z + BlockBytes)
    <2>1. ByteString(x1, (z + b) + k)
      BY <1>6, Joined, Zenon
    <2>2. (z + b) + k = z + BlockBytes
      BY <1>2, <1>4
    <2>3. QED
      BY <2>1, <2>2, Zenon
  <1> HIDE DEF x1
  <1>8. ByteString(x2, (z + BlockBytes) + Room)
    BY <1>6, <1>7, Joined, Zenon
  <1> HIDE DEF x2
  <1>9. ByteString(x, ((z + BlockBytes) + Room) + 1)
    BY <1>6, <1>8, Joined, Zenon
  <1> HIDE DEF x
  <1>10. ByteString(p, Sz(n + 2))
    <2>1. ByteString(x \o Words(m), (((z + BlockBytes) + Room) + 1) + LengthBytes)
      BY <1>6, <1>9, Joined, Zenon
    <2>2. (((z + BlockBytes) + Room) + 1) + LengthBytes = Sz(n + 2)
      BY <1>2
    <2>3. QED
      BY <1>5, <2>1, <2>2, Zenon
  <1>11. /\ x1 \in Seq(Int) /\ x2 \in Seq(Int) /\ x \in Seq(Int) /\ p \in Seq(Int)
         /\ y1 \in Seq(Int) /\ y2 \in Seq(Int) /\ y3 \in Seq(Int)
         /\ Len(x1) = z + BlockBytes /\ Len(x2) = (z + BlockBytes) + Room
         /\ Len(x) = ((z + BlockBytes) + Room) + 1
         /\ Len(y1) = k /\ Len(y2) = Room /\ Len(y3) = 1
    BY <1>6, <1>7, <1>8, <1>9, <1>10, Zenon DEF ByteString
  <1>12. Starts(p, x \o Words(m))
    <2>1. Len(p) \in Nat
      BY <1>11, LenProperties
    <2>2. QED
      BY <1>5, <1>11, <2>1 DEF Starts
  <1>13. Starts(p, x)
    BY <1>3, <1>11, <1>12, StartsLess, Zenon
  <1>14. Starts(p, x2)
    BY <1>11, <1>13, StartsLess, Zenon DEF x
  <1>15. Starts(p, x1)
    BY <1>11, <1>14, StartsLess, Zenon DEF x2
  <1>16. Starts(p, m)
    BY <1>2, <1>11, <1>15, StartsLess, Zenon DEF x1
  <1>17. State(c, p, c.blocks, b, z, t1, no)
    BY <1>16, WholeState, Zenon DEF n, z, t1, b, no
  <1>18. State(Uncount(c, k), p, c.blocks, b, z - k, t1, no)
    <2>1. z \in Int
      BY <1>2
    <2>2. QED
      BY <1>4, <1>17, <2>1, UncountStep, Zenon
  <1>19. /\ Ends(d, p, c.blocks, NextCount(z - k, t1, no))
         /\ d.t0 = ((z - k) + BlockBytes) % Wrap
    <2>1. z - k \in Int /\ b # 0 /\ b + Len(y1) = BlockBytes
      BY <1>2, <1>4, <1>11
    <2>2. Sz(Len(c.blocks)) + b = Len(m)
      BY <1>2 DEF z, n
    <2>3. Starts(p, m \o y1)
      BY <1>15 DEF x1
    <2>4. m \in Seq(Int) /\ y1 \in Seq(Int)
      BY <1>2, <1>11
    <2> DEFINE c2 == Uncount(c, k)
               s == z - k
    <2>5. State(c2, p, c.blocks, b, s, t1, no) /\ s \in Int
      BY <1>18, <2>1
    <2> HIDE DEF c2, s
    <2>6. CountsOn(Update(c2, y1), p, c.blocks, s, t1, no)
      BY <2>1, <2>2, <2>3, <2>4, <2>5, ExactState, Zenon
    <2>7. QED
      BY <2>6, Zenon DEF c2, s, CountsOn
  <1>20. u = Len(m) /\ u \in Int
    BY <1>2, <1>4
  <1>21. Ends(d, p, c.blocks, <<Len(m) % Wrap, Len(m) \div Wrap>>)
    <2>1. u % Wrap # 0
      BY <1>2, <1>3, <1>20
    <2>2. NextCount(z - k, t1, no) = <<Len(m) % Wrap, Len(m) \div Wrap>>
      BY <1>3, <1>20, <2>1, Zenon DEF NextCount, no
    <2>3. QED
      BY <1>19, <2>2
  <1> HIDE DEF d
  <1>22. Len(d.blocks) = n + 1 /\ InPlace(d, p) /\ d.buflen = 0
    BY <1>21 DEF Ends, n
  <1>23. State(d, p, d.blocks, 0, u, d.t1, d.nullt)
    BY <1>19, <1>22, Zenon DEF State
  <1> HIDE DEF u
  <1>24. State(e0, p, d.blocks, 0, u - Room, d.t1, d.nullt)
    <2>1. Room \in Int
      BY <1>2
    <2>2. QED
      BY <1>20, <1>23, <2>1, UncountStep, Zenon
  <1>25. Sz(Len(d.blocks)) = z + BlockBytes
    BY <1>2, <1>22
  <1> HIDE DEF e0
  <1>26. State(e, p, d.blocks, Room, u - Room, d.t1, d.nullt)
    <2>1. Len(y2) # 0 /\ 0 + Len(y2) < BlockBytes /\ 0 + Len(y2) = Room
      BY <1>2, <1>11
    <2>2. Sz(Len(d.blocks)) + 0 = Len(x1)
      BY <1>2, <1>11, <1>25
    <2>3. State(e, p, d.blocks, 0 + Len(y2), u - Room, d.t1, d.nullt)
      BY <1>11, <1>14, <1>24, <2>1, <2>2, ShortState, Zenon DEF x2
    <2>4. QED
      BY <2>1, <2>3, Zenon
  <1> HIDE DEF e
  <1>27. State(f, p, d.blocks, Room, u - Room, d.t1, yes)
    <2>1. yes \in BOOLEAN
      BY DEF yes
    <2>2. QED
      BY <1>26, <2>1, NullState, Zenon
  <1> HIDE DEF f
  <1>28. State(f1, p, d.blocks, Room + 1, u - Room, d.t1, yes)
    <2>1. Len(y3) # 0 /\ Room + Len(y3) < BlockBytes /\ Room + Len(y3) = Room + 1
      BY <1>2, <1>11
    <2>2. Sz(Len(d.blocks)) + Room = Len(x2)
      BY <1>11, <1>25
    <2>3. State(f1, p, d.blocks, Room + Len(y3), u - Room, d.t1, yes)
      BY <1>11, <1>13, <1>27, <2>1, <2>2, ShortState, Zenon DEF x
    <2>4. QED
      BY <2>1, <2>3, Zenon
  <1>29. g = Uncount(f1, 1)
    BY Zenon DEF PadTwo, f1, f, e, e0, d, y1, y2, y3, k, b, yes
  <1> HIDE DEF f1, g
  <1>30. State(g, p, d.blocks, Room + 1, (u - Room) - 1, d.t1, yes)
    <2>1. u - Room \in Int /\ 1 \in Int
      BY <1>2, <1>20
    <2>2. State(Uncount(f1, 1), p, d.blocks, Room + 1, (u - Room) - 1, d.t1, yes)
      BY <1>28, <2>1, UncountStep, Zenon
    <2>3. QED
      BY <1>29, <2>2, Zenon
  <1>31. Finish(c) = Update(Uncount(g, LengthBytes), Words(m))
    <2>1. ~(c.buflen = Room) /\ ~(c.buflen < Room)
      <3>1. Room \in Int /\ b \in Int /\ b > Room
        BY <1>2
      <3> HIDE DEF b
      <3>2. ~(b = Room) /\ ~(b < Room)
        BY <3>1
      <3>3. QED
        BY <3>2, Zenon DEF b
    <2>2. QED
      BY <1>1, <2>1, Zenon DEF Finish, g
  <1>32. Ends(Finish(c), p, d.blocks, <<>>)
    <2> DEFINE t == (u - Room) - 1
    <2>1. t \in Int
      BY <1>2, <1>20
    <2>2. Sz(Len(d.blocks)) + (Room + 1) = Len(x)
      BY <1>2, <1>11, <1>25
    <2>3. CountsTo(m, b, t, d.t1, yes)
      BY Zenon DEF CountsTo, yes
    <2> HIDE DEF t
    <2>4. State(g, p, d.blocks, Room + 1, t, d.t1, yes)
      BY <1>30 DEF t
    <2>5. Ends(Update(Uncount(g, LengthBytes), Words(m)), p, d.blocks, WholeCount(m, yes))
      BY <1>1, <1>11, <1>12, <2>1, <2>2, <2>3, <2>4, LastBlock, Zenon
    <2>6. WholeCount(m, yes) = <<>>
      BY Zenon DEF WholeCount, yes
    <2>7. QED
      BY <1>31, <2>5, <2>6, Zenon
  <1>33. Len(p) = Sz(n + 2)
    BY <1>10, Zenon DEF ByteString
  <1>34. QED
    BY <1>21, <1>32, <1>33, Zenon DEF n, p

\* blake256_Final compresses the blocks of the padded message, each with its
\* count.
LEMMA FinishIs ==
  ASSUME NEW c, NEW m, Whole(c, m)
  PROVE  Finish(c) \in Contexts /\ Finish(c).blocks = Blocks(m)
  <1> DEFINE n == Len(c.blocks)
             b == c.buflen
             f == Finish(c)
             p == Padded(m)
             l == Len(m)
  <1>1. EndsAt(m, n, b) /\ c.blocks \in Seq(Compressed) /\ BlocksCounted(c.blocks)
    BY WholeIs
  <1>2. n \in Nat /\ b \in Nat /\ Room \in Nat \ {0}
    BY <1>1, Sizes DEF EndsAt
  <1>3. /\ \A k \in 1 .. n : Counter(k, l) = <<Sz(k) % Wrap, Sz(k) \div Wrap>>
        /\ b # 0 => Counter(n + 1, l) = <<l % Wrap, l \div Wrap>>
        /\ b = 0 => Counter(n + 1, l) = <<>>
        /\ Counter(n + 2, l) = <<>>
    BY <1>1, CounterIs
  <1>4. \A k \in 1 .. n : c.blocks[k].count = Counter(k, l)
    BY <1>1, <1>3 DEF BlocksCounted
  <1> HIDE DEF n, b, f, p, l
  <1>5. ASSUME NEW e, Ends(e, p, c.blocks, Counter(n + 1, l))
        PROVE  /\ Len(e.blocks) = n + 1
               /\ \A k \in 1 .. n + 1 : e.blocks[k].count = Counter(k, l)
    <2>1. /\ Len(e.blocks) = n + 1 /\ \A k \in 1 .. n : e.blocks[k] = c.blocks[k]
          /\ e.blocks[n + 1].count = Counter(n + 1, l)
      BY <1>5 DEF Ends, n
    <2>2. ASSUME NEW k \in 1 .. n + 1
          PROVE  e.blocks[k].count = Counter(k, l)
      <3>1. CASE k \in 1 .. n
        BY <1>4, <2>1, <3>1
      <3>2. CASE k = n + 1
        BY <2>1, <3>2
      <3>3. QED
        BY <1>2, <3>1, <3>2
    <2>3. QED
      BY <2>1, <2>2
  <1>6. ASSUME InPlace(f, p), Len(p) = Sz(Len(f.blocks)),
               \A k \in 1 .. Len(f.blocks) : f.blocks[k].count = Counter(k, l)
        PROVE  f \in Contexts /\ f.blocks = Blocks(m)
    <2>1. f \in Contexts /\ f.blocks \in Seq(Compressed) /\ BlocksRead(f.blocks, p)
      BY <1>6, ContextFields DEF InPlace
    <2>2. f.blocks = Blocks(m)
      BY <1>6, <2>1, BlocksAre, Zenon DEF p, l
    <2>3. QED
      BY <2>1, <2>2
  <1>7. ASSUME Ends(f, p, c.blocks, Counter(n + 1, l)), Len(p) = Sz(n + 1)
        PROVE  f \in Contexts /\ f.blocks = Blocks(m)
    <2>1. Len(f.blocks) = n + 1 /\ \A k \in 1 .. n + 1 : f.blocks[k].count = Counter(k, l)
      BY <1>5, <1>7
    <2>2. InPlace(f, p)
      BY <1>7 DEF Ends
    <2>3. QED
      BY <1>6, <1>7, <2>1, <2>2
  <1>8. CASE b = Room
    <2>1. Ends(f, p, c.blocks, <<l % Wrap, l \div Wrap>>) /\ Len(p) = Sz(n + 1)
      BY <1>8, FinishOne DEF b, f, p, l, n
    <2>2. Counter(n + 1, l) = <<l % Wrap, l \div Wrap>>
      BY <1>2, <1>3, <1>8
    <2>3. Ends(f, p, c.blocks, Counter(n + 1, l))
      BY <2>1, <2>2
    <2>4. QED
      BY <1>7, <2>1, <2>3 DEF f
  <1>9. CASE b < Room
    <2>1. /\ Ends(f, p, c.blocks, IF b = 0 THEN <<>> ELSE <<l % Wrap, l \div Wrap>>)
          /\ Len(p) = Sz(n + 1)
      BY <1>9, FinishSame, Zenon DEF b, f, p, l, n
    <2>2. Counter(n + 1, l) = IF b = 0 THEN <<>> ELSE <<l % Wrap, l \div Wrap>>
      BY <1>3, Zenon
    <2>3. Ends(f, p, c.blocks, Counter(n + 1, l))
      BY <2>1, <2>2
    <2>4. QED
      BY <1>7, <2>1, <2>3 DEF f
  <1>10. CASE b > Room
    <2>1. PICK d : /\ Ends(d, p, c.blocks, <<l % Wrap, l \div Wrap>>)
                   /\ Ends(f, p, d.blocks, <<>>)
                   /\ Len(p) = Sz(n + 2)
      BY <1>10, FinishTwo, Zenon DEF b, f, p, l, n
    <2>2. Counter(n + 1, l) = <<l % Wrap, l \div Wrap>>
      BY <1>2, <1>3, <1>10
    <2>3. Len(d.blocks) = n + 1 /\ \A k \in 1 .. n + 1 : d.blocks[k].count = Counter(k, l)
      BY <1>5, <2>1, <2>2
    <2>4. /\ InPlace(f, p) /\ Len(f.blocks) = n + 2
          /\ \A k \in 1 .. n + 1 : f.blocks[k] = d.blocks[k]
          /\ f.blocks[n + 2].count = <<>>
      <3>1. (n + 1) + 1 = n + 2
        BY <1>2
      <3>2. /\ InPlace(f, p) /\ Len(f.blocks) = (n + 1) + 1
            /\ \A k \in 1 .. n + 1 : f.blocks[k] = d.blocks[k]
            /\ f.blocks[(n + 1) + 1].count = <<>>
        BY <2>1, <2>3, Zenon DEF Ends
      <3>3. QED
        BY <3>1, <3>2
    <2>5. ASSUME NEW k \in 1 .. n + 2
          PROVE  f.blocks[k].count = Counter(k, l)
      <3>1. CASE k \in 1 .. n + 1
        BY <2>3, <2>4, <3>1
      <3>2. CASE k = n + 2
        BY <1>3, <2>4, <3>2
      <3>3. QED
        BY <1>2, <3>1, <3>2
    <2>6. QED
      BY <1>6, <2>1, <2>4, <2>5 DEF f
  <1>11. CASE ~(b = Room \/ b < Room \/ b > Room)
    BY <1>2, <1>11
  <1>12. QED
    BY <1>8, <1>9, <1>10, <1>11 DEF f

\* blake256_Init starts a message of no bytes.
LEMMA FreshIsWhole ==
  ASSUME NEW buf \in [1 .. BlockBytes -> Int]
  PROVE  Whole(Fresh(buf), <<>>)
  <1> DEFINE c == Fresh(buf)
  <1>1. <<>> \in Seq(Compressed) /\ <<>> \in Seq(Int) /\ Len(<<>>) = 0
    BY EmptySeq
  <1>2. Holds(c, 0, 0, FALSE, 0, buf, <<>>)
    <2>1. 0 \in Nat /\ FALSE \in BOOLEAN
      OBVIOUS
    <2>2. c = Context(0, 0, FALSE, 0, buf, <<>>)
      BY Zenon DEF Fresh, Context
    <2>3. QED
      BY <1>1, <2>1, <2>2, ContextIs, Zenon
  <1> HIDE DEF c
  <1>3. /\ c \in Contexts /\ c.t0 = 0 /\ c.t1 = 0 /\ c.buflen = 0 /\ c.blocks = <<>>
    BY <1>2 DEF Holds
  <1>4. ~c.nullt
    BY <1>2, Zenon DEF Holds
  <1>5. Sz(0) = 0 /\ 0 % Wrap = 0 /\ 0 \div Wrap = 0 /\ BlockBytes \in Nat \ {0}
    <2>1. Sz(0) = 0
      BY SzSteps
    <2>2. Wrap \in Nat \ {0} /\ BlockBytes \in Nat \ {0}
      BY Sizes
    <2>3. QED
      BY <2>1, <2>2
  <1>6. BlocksRead(c.blocks, <<>>) /\ BlocksCounted(c.blocks)
    BY <1>1, <1>3 DEF BlocksRead, BlocksCounted
  <1>7. Reads(c, <<>>)
    BY <1>1, <1>3, <1>4, <1>5, <1>6, Zenon DEF Reads
  <1>8. InPlace(c, <<>>)
    BY <1>1, <1>3, <1>5, <1>6 DEF InPlace
  <1>9. Fed(c) = Len(<<>>)
    BY <1>1, <1>3, <1>5 DEF Fed
  <1>10. QED
    BY <1>7, <1>8, <1>9, Zenon DEF Whole, Ready, c

\* A piece more.
LEMMA UpdateIsWhole ==
  ASSUME NEW c, NEW m, Whole(c, m), NEW n \in PieceSizes
  PROVE  Whole(Update(c, Piece(Len(m), n)), m \o Piece(Len(m), n))
  <1> DEFINE in == Piece(Len(m), n)
             p == m \o in
             d == Update(c, in)
  <1>1. /\ InPlace(c, m) /\ Reads(c, m) /\ Fed(c) = Len(m) /\ m \in Seq(Int) /\ Len(m) \in Nat
    BY LenProperties DEF Whole, Ready, InPlace
  <1>2. n \in Nat /\ n # 0
    <2>1. MaxPiece \in Nat
      BY HashAssumption DEF HashAssumption
    <2>2. QED
      BY <2>1 DEF PieceSizes
  <1>3. in \in Seq(Int) /\ Len(in) = n
    <2>1. in \in [1 .. n -> Int]
      BY <1>1, <1>2 DEF Piece, Byte
    <2>2. QED
      BY <1>2, <2>1, SeqDef
  <1> HIDE DEF in
  <1>4. /\ p \in Seq(Int) /\ Len(p) = Len(m) + Len(in)
        /\ \A i \in 1 .. Len(m) + Len(in) : p[i] = IF i <= Len(m) THEN m[i] ELSE in[i - Len(m)]
    BY <1>1, <1>3, ConcatProperties
  <1>5. Len(m) <= Len(p) /\ Fed(c) <= Len(m)
    BY <1>1, <1>2, <1>3, <1>4
  <1>6. \A i \in 1 .. Len(m) : p[i] = m[i]
    <2>1. TAKE i \in 1 .. Len(m)
    <2>2. i \in 1 .. Len(m) + Len(in) /\ i <= Len(m)
      BY <1>1, <1>2, <1>3
    <2>3. QED
      BY <1>4, <2>2
  <1>7. Starts(p, p)
    <2>1. Len(p) \in Nat
      BY <1>4, LenProperties
    <2>2. QED
      BY <1>4, <2>1 DEF Starts
  <1>8. Continues(c, in, p)
    BY <1>1, <1>3, <1>7, StartsContinues, Zenon
  <1> HIDE DEF p
  <1>9. InPlace(c, p) /\ Reads(c, p)
    BY <1>1, <1>4, <1>5, <1>6, ReadsMore, Zenon
  <1>10. Ready(d, p) /\ Fed(d) = Fed(c) + Len(in)
    <2>1. Len(in) # 0 /\ Ready(c, p)
      BY <1>2, <1>3, <1>9 DEF Ready
    <2>2. QED
      BY <1>8, <2>1, UpdateReads
  <1>11. QED
    BY <1>1, <1>4, <1>10, Zenon DEF Whole, p, in

-----------------------------------------------------------------------------
\* What holds of the hash between two calls: it holds the message, until the
\* last of them makes it the blocks of the message.
HashInv ==
  /\ message \in Seq(Int)
  /\ ctx.buf \in [1 .. BlockBytes -> Int]
  /\ ~final => Whole(ctx, message)
  /\ final => ctx.blocks = Blocks(message)

\* The message and the buffer of such a context are bytes.
LEMMA WholeBuffer ==
  ASSUME NEW c, NEW m, Whole(c, m)
  PROVE  m \in Seq(Int) /\ c.buf \in [1 .. BlockBytes -> Int]
  BY ContextFields DEF Whole, Ready, InPlace

\* The inductive invariant holds before the first call.
LEMMA HashInitially == HashInit => HashInv
  <1> SUFFICES ASSUME HashInit PROVE HashInv
    OBVIOUS
  <1>1. BlockBytes \in Nat
    BY Sizes
  <1>2. Zeros(BlockBytes) \in [1 .. BlockBytes -> Int]
    BY <1>1 DEF Zeros
  <1>3. Whole(ctx, message)
    BY <1>2, FreshIsWhole, Zenon DEF HashInit
  <1>4. message \in Seq(Int) /\ ctx.buf \in [1 .. BlockBytes -> Int]
    BY <1>3, WholeBuffer
  <1>5. ~final
    BY DEF HashInit
  <1>6. QED
    BY <1>3, <1>4, <1>5 DEF HashInv

\* Every call of the program keeps the inductive invariant.
LEMMA HashSteps ==
  HashInv /\ [HashNext]_hashVars => HashInv'
  <1> SUFFICES ASSUME HashInv, [HashNext]_hashVars PROVE HashInv'
    OBVIOUS
  <1>1. CASE BeginHash
    <2>1. Whole(ctx', message')
      BY <1>1, FreshIsWhole, Zenon DEF BeginHash, HashInv
    <2>2. message' \in Seq(Int) /\ ctx'.buf \in [1 .. BlockBytes -> Int]
      BY <2>1, WholeBuffer
    <2>3. ~final'
      BY <1>1 DEF BeginHash
    <2>4. QED
      BY <2>1, <2>2, <2>3 DEF HashInv
  <1>2. ASSUME NEW n \in PieceSizes, UpdateHash(n)
        PROVE  HashInv'
    <2>1. ~final /\ ~final' /\ Whole(ctx, message)
      BY <1>2 DEF UpdateHash, HashInv
    <2>2. Whole(ctx', message')
      BY <1>2, <2>1, UpdateIsWhole, Zenon DEF UpdateHash
    <2>3. message' \in Seq(Int) /\ ctx'.buf \in [1 .. BlockBytes -> Int]
      BY <2>2, WholeBuffer
    <2>4. QED
      BY <2>1, <2>2, <2>3 DEF HashInv
  <1>3. CASE FinishHash
    <2>1. Whole(ctx, message) /\ ctx' = Finish(ctx) /\ message' = message /\ final'
      BY <1>3 DEF FinishHash, HashInv
    <2>2. ctx' \in Contexts /\ ctx'.blocks = Blocks(message)
      BY <2>1, FinishIs, Zenon
    <2>3. message \in Seq(Int) /\ ctx'.buf \in [1 .. BlockBytes -> Int]
      BY <2>2, ContextFields DEF HashInv
    <2>4. QED
      BY <2>1, <2>2, <2>3, Zenon DEF HashInv
  <1>4. CASE UNCHANGED hashVars
    BY <1>4 DEF hashVars, HashInv
  <1>5. QED
    BY <1>1, <1>2, <1>3, <1>4 DEF HashNext

\* However a message is cut into pieces, blake256_Final compresses the blocks
\* and counters of the definition of BLAKE-256.
THEOREM HashIsOfTheMessage == HashSpec => []HashesMessage
  <1>1. HashInv => HashesMessage
    BY DEF HashInv, HashesMessage
  <1>2. QED
    BY HashInitially, HashSteps, <1>1, PTL DEF HashSpec

-----------------------------------------------------------------------------
\* The text of an amount.  First powers, and the digits of a number.

\* The powers of ten and of two.
LEMMA TensArePowers == PowersOf(TenTo, 10) /\ PowersOf(TwoTo, 2)
<1>1. PowersOf(TenTo, 10)
  <2>1. \E f : PowersOf(f, 10)
    BY PowersExist
  <2>2. TenTo = CHOOSE f : PowersOf(f, 10)
    BY Zenon DEF TenTo, PowersOf
  <2>3. QED
    BY <2>1, <2>2
<1>2. PowersOf(TwoTo, 2)
  <2>1. \E f : PowersOf(f, 2)
    BY PowersExist
  <2>2. TwoTo = CHOOSE f : PowersOf(f, 2)
    BY Zenon DEF TwoTo, PowersOf
  <2>3. QED
    BY <2>1, <2>2
<1>3. QED
  BY <1>1, <1>2

LEMMA TensAre ==
  /\ TenTo[0] = 1 /\ \A n \in Nat : TenTo[n] \in Nat \ {0} /\ TenTo[n + 1] = 10 * TenTo[n]
  /\ TwoTo[0] = 1 /\ \A n \in Nat : TwoTo[n] \in Nat \ {0} /\ TwoTo[n + 1] = 2 * TwoTo[n]
<1>3. 10 \in Nat \ {0} /\ 2 \in Nat \ {0}
  OBVIOUS
<1>4. QED
  BY <1>3, TensArePowers, PowersStep

LEMMA TensMultiply ==
  ASSUME NEW m \in Nat, NEW n \in Nat
  PROVE  TenTo[m + n] = TenTo[m] * TenTo[n] /\ TwoTo[m + n] = TwoTo[m] * TwoTo[n]
<1>1. 10 \in Nat \ {0} /\ 2 \in Nat \ {0}
  OBVIOUS
<1>2. QED
  BY <1>1, TensArePowers, PowersMultiply

\* The digit of a number at the place of t, below the digits k.
LEMMA DigitAbove ==
  ASSUME NEW t \in Nat \ {0}, NEW k \in Int, NEW d \in 0 .. 9, NEW b \in 0 .. t - 1,
         NEW n \in Int, n = k * 10 + d, NEW x, x = n * t + b
  PROVE  (x \div t) % 10 = d
<1>1. x \div t = n
  BY DivisionIs
<1>2. 10 \in Nat \ {0} /\ d \in 0 .. 10 - 1
  OBVIOUS
<1>3. (k * 10 + d) % 10 = d
  BY <1>2, DivisionIs
<1>4. QED
  BY <1>1, <1>3

\* Numbers below m and from m to 2 * m - 1, divided by m.
LEMMA DivisionFew ==
  ASSUME NEW m \in Nat \ {0}, NEW y \in 0 .. m - 1
  PROVE  y \div m = 0 /\ y % m = y /\ (m + y) \div m = 1 /\ (m + y) % m = y
<1>1. 0 * m + y = y /\ 1 * m + y = m + y /\ 0 \in Int /\ 1 \in Int
  OBVIOUS
<1>2. (0 * m + y) \div m = 0 /\ (0 * m + y) % m = y
  BY <1>1, DivisionIs
<1>3. (1 * m + y) \div m = 1 /\ (1 * m + y) % m = y
  BY <1>1, DivisionIs
<1>4. QED
  BY <1>1, <1>2, <1>3

\* A number around its digit at the place of t.
LEMMA AroundDigit ==
  ASSUME NEW t \in Nat \ {0}, NEW x \in Nat
  PROVE  \E k \in Nat, b \in 0 .. t - 1 :
           (x \div t) % 10 \in 0 .. 9 /\ x = (k * 10 + ((x \div t) % 10)) * t + b
<1> DEFINE y == x \div t
           b == x % t
           k == y \div 10
           d == y % 10
<1>1. y \in Int /\ b \in 0 .. t - 1 /\ x = t * y + b
  BY DivMod
<1>2. y \in Nat
  <2>1. CASE y < 0
    <3>1. t * y <= -t
      <4>1. y <= -1
        BY <1>1, <2>1
      <4> HIDE DEF y
      <4>2. QED
        BY <1>1, <4>1
    <3>2. t * y \in Int
      BY <1>1
    <3> HIDE DEF y, b
    <3>3. QED
      BY <1>1, <3>1, <3>2
  <2>2. QED
    BY <1>1, <2>1
<1> HIDE DEF y, b
<1>3. k \in Int /\ d \in 0 .. 9 /\ y = 10 * k + d
  BY <1>2, DivMod
<1>4. k \in Nat
  <2> HIDE DEF k, d
  <2>1. QED
    BY <1>2, <1>3
<1>5. x = (k * 10 + d) * t + b
  <2> HIDE DEF k, d
  <2>1. k * 10 + d = y
    BY <1>3
  <2>2. t * y = y * t
    BY <1>1
  <2>3. QED
    BY <1>1, <2>1, <2>2
<1>6. QED
  BY <1>1, <1>3, <1>4, <1>5 DEF y

-----------------------------------------------------------------------------
\* A limb, doubled.

\* What a digit carries when it is doubled.
Carried(d) == IF d >= 5 THEN 1 ELSE 0

\* A digit, doubled.
LEMMA DigitDoubled ==
  ASSUME NEW d \in 0 .. 9, NEW h \in {0, 1}
  PROVE  /\ ((2 * d) % 10) + h \in 0 .. 9 /\ Carried(d) \in {0, 1}
         /\ 2 * d + h = 10 * Carried(d) + (((2 * d) % 10) + h)
         /\ (Corrected(d) * 2) % 16 = (2 * d) % 10
         /\ Corrected(d) >= 8 <=> d >= 5
<1>1. d \in {0, 1, 2, 3, 4, 5, 6, 7, 8, 9}
  OBVIOUS
<1>2. QED
  BY <1>1 DEF Carried, Corrected

\* Doubling a number modulo n, where h is carried to the place of t.
LEMMA DoubledAround ==
  ASSUME NEW t \in Nat, NEW k \in Int, NEW d \in Int, NEW b \in Int, NEW c \in Int,
         NEW e \in Int, NEW u \in Int, NEW h \in Int, NEW z \in Int, NEW g \in Int, NEW f \in Int,
         2 * d + h = 10 * g + f, 2 * b + c = h * t + z
  PROVE  2 * ((k * 10 + d) * t + b) - e * ((10 * t) * u) + c = ((2 * k - e * u + g) * 10 + f) * t + z
<1> DEFINE x == k * t
           y == e * (u * t)
<1>1. (k * 10 + d) * t = 10 * x + d * t
  <2>1. (k * 10 + d) * t = (k * 10) * t + d * t
    BY Distribute
  <2>2. (k * 10) * t = 10 * (k * t)
    OBVIOUS
  <2>3. QED
    BY <2>1, <2>2
<1>2. e * ((10 * t) * u) = 10 * y
  OBVIOUS
<1>3. ((2 * k - e * u + g) * 10 + f) * t = 20 * x - 10 * y + (10 * g + f) * t
  <2> DEFINE v == e * u
  <2>1. v * t = y /\ v \in Int
    OBVIOUS
  <2>2. (2 * k - v + g) * 10 + f = 20 * k + (-10) * v + (10 * g + f) /\ 10 * g + f \in Int
    BY <2>1
  <2> HIDE DEF v
  <2>3. (20 * k + (-10) * v + (10 * g + f)) * t = (20 * k + (-10) * v) * t + (10 * g + f) * t
    BY <2>1, <2>2, Distribute
  <2>4. (20 * k + (-10) * v) * t = (20 * k) * t + ((-10) * v) * t
    BY <2>1, Distribute
  <2>5. (20 * k) * t = 20 * x /\ ((-10) * v) * t = (-10) * (v * t)
    BY <2>1
  <2>6. (10 * g + f) * t \in Int /\ x \in Int /\ y \in Int
    BY <2>2
  <2> HIDE DEF x, y
  <2>7. (20 * k + (-10) * v + (10 * g + f)) * t = 20 * x - 10 * y + (10 * g + f) * t
    BY <2>1, <2>3, <2>4, <2>5, <2>6
  <2>8. QED
    BY <2>2, <2>7 DEF v
<1>4. (10 * g + f) * t = 2 * (d * t) + h * t
  <2>1. (2 * d + h) * t = (2 * d) * t + h * t
    BY Distribute
  <2>2. (2 * d) * t = 2 * (d * t)
    OBVIOUS
  <2>3. QED
    BY <2>1, <2>2
<1>5. x \in Int /\ y \in Int /\ d * t \in Int /\ h * t \in Int
  OBVIOUS
<1> HIDE DEF x, y
<1>6. QED
  BY <1>1, <1>2, <1>3, <1>4, <1>5

\* The leading digit of a number says whether the number carries when it is doubled.
LEMMA LeadingDigit ==
  ASSUME NEW s \in Nat \ {0}, NEW x \in 0 .. 10 * s - 1, NEW c \in {0, 1}
  PROVE  \E d \in 0 .. 9, q \in 0 .. s - 1 :
           /\ x = d * s + q
           /\ d >= 5 => 2 * x >= 10 * s
           /\ d < 5 => 2 * x + c <= 10 * s - 1 /\ 2 * x <= 10 * s - 2
<1> DEFINE d == x \div s
           q == x % s
<1>1. x \in Int /\ s \in Int /\ x >= 0 /\ x < 10 * s /\ s >= 1
  OBVIOUS
<1>2. d \in Int /\ q \in 0 .. s - 1 /\ x = s * d + q
  BY <1>1, DivMod
<1>3. s * d = d * s /\ d * s \in Int
  BY <1>2
<1> HIDE DEF d, q
<1>4. d >= 0
  <2>1. d < 0 => d * s + s <= 0 * s /\ 0 * s = 0
    BY <1>2, Multiples
  <2>2. QED
    BY <1>1, <1>2, <1>3, <2>1
<1>5. d <= 9
  <2>1. 10 <= d => 10 * s <= d * s
    BY <1>2, Multiples
  <2>2. QED
    BY <1>1, <1>2, <1>3, <2>1
<1>6. d >= 5 => 2 * x >= 10 * s
  <2>1. 5 <= d => 5 * s <= d * s
    BY <1>2, Multiples
  <2>2. QED
    BY <1>1, <1>2, <1>3, <2>1
<1>7. d < 5 => 2 * x + c <= 10 * s - 1 /\ 2 * x <= 10 * s - 2
  <2>1. d < 5 => d * s + s <= 5 * s
    BY <1>2, Multiples
  <2>2. QED
    BY <1>1, <1>2, <1>3, <2>1
<1>8. d \in 0 .. 9 /\ x = d * s + q
  BY <1>2, <1>3, <1>4, <1>5
<1>9. QED
  BY <1>2, <1>6, <1>7, <1>8

LimbAfter(limb, c) == ((2 * limb) % Unit) + c

\* The carry of a limb is that of its leading digit.
LEMMA LimbCarries ==
  ASSUME NEW limb \in 0 .. Unit - 1, NEW c \in {0, 1}
  PROVE  LET e == Carried(DigitOf(limb, DecimalDigits - 1))
         IN  /\ e \in {0, 1} /\ (2 * limb) \div Unit = e
             /\ LimbAfter(limb, c) = 2 * limb - e * Unit + c
             /\ LimbAfter(limb, c) \in 0 .. Unit - 1
<1> DEFINE s == TenTo[DecimalDigits - 1]
           e == Carried(DigitOf(limb, DecimalDigits - 1))
<1>1. /\ DecimalDigits - 1 \in Nat /\ s \in Nat \ {0} /\ Unit = 10 * s /\ Unit \in Nat \ {0}
      /\ limb \in Nat /\ limb \in Int
  <2>1. DecimalDigits - 1 \in Nat /\ (DecimalDigits - 1) + 1 = DecimalDigits
    BY AmountAssumption DEF AmountAssumption
  <2>2. s \in Nat \ {0} /\ TenTo[(DecimalDigits - 1) + 1] = 10 * s
    BY <2>1, TensAre
  <2> HIDE DEF s
  <2>3. Unit = 10 * s /\ Unit \in Nat \ {0}
    BY <2>1, <2>2 DEF Unit
  <2>4. QED
    BY <2>1, <2>2, <2>3
<1>2. PICK d \in 0 .. 9, q \in 0 .. s - 1 :
        /\ limb = d * s + q
        /\ d >= 5 => 2 * limb >= 10 * s
        /\ d < 5 => 2 * limb + c <= 10 * s - 1 /\ 2 * limb <= 10 * s - 2
  <2> HIDE DEF s
  <2>1. limb \in 0 .. 10 * s - 1
    BY <1>1
  <2>2. QED
    BY <1>1, <2>1, LeadingDigit
<1>3. DigitOf(limb, DecimalDigits - 1) = d
  <2> HIDE DEF s
  <2>1. limb = d * s + q /\ d = 0 * 10 + d /\ 0 \in Int /\ d \in Int
    BY <1>1, <1>2
  <2>2. (limb \div s) % 10 = d
    BY <1>1, <2>1, DigitAbove
  <2>3. QED
    BY <2>2 DEF DigitOf, s
<1>4. e = Carried(d) /\ e \in {0, 1}
  BY <1>3 DEF Carried
<1> HIDE DEF s, e
<1>5. CASE d >= 5
  <2>1. e = 1 /\ 2 * limb - Unit \in 0 .. Unit - 2
    BY <1>1, <1>2, <1>4, <1>5 DEF Carried
  <2>2. 2 * limb - Unit \in 0 .. Unit - 1
    BY <1>1, <2>1
  <2>3. (Unit + (2 * limb - Unit)) \div Unit = 1 /\ (Unit + (2 * limb - Unit)) % Unit = 2 * limb - Unit
    <3> DEFINE y == 2 * limb - Unit
    <3>1. y \in 0 .. Unit - 1
      BY <2>2
    <3> HIDE DEF y
    <3>2. QED
      BY <1>1, <3>1, DivisionFew DEF y
  <2>4. Unit + (2 * limb - Unit) = 2 * limb /\ e * Unit = Unit
    BY <1>1, <2>1
  <2>5. (2 * limb) \div Unit = e /\ LimbAfter(limb, c) = 2 * limb - e * Unit + c
    BY <2>1, <2>3, <2>4 DEF LimbAfter
  <2>6. LimbAfter(limb, c) \in 0 .. Unit - 1
    BY <1>1, <2>1, <2>4, <2>5
  <2>7. QED
    BY <1>4, <2>5, <2>6 DEF e
<1>6. CASE d < 5
  <2>1. e = 0 /\ 2 * limb \in 0 .. Unit - 2
    BY <1>1, <1>2, <1>4, <1>6 DEF Carried
  <2>2. 2 * limb \in 0 .. Unit - 1
    BY <1>1, <2>1
  <2>3. (2 * limb) \div Unit = 0 /\ (2 * limb) % Unit = 2 * limb
    <3> DEFINE y == 2 * limb
    <3>1. y \in 0 .. Unit - 1
      BY <2>2
    <3> HIDE DEF y
    <3>2. QED
      BY <1>1, <3>1, DivisionFew DEF y
  <2>4. e * Unit = 0
    BY <1>1, <2>1
  <2>5. (2 * limb) \div Unit = e /\ LimbAfter(limb, c) = 2 * limb - e * Unit + c
    BY <1>1, <2>1, <2>3, <2>4 DEF LimbAfter
  <2>6. LimbAfter(limb, c) \in 0 .. Unit - 1
    BY <1>1, <2>1, <2>4, <2>5
  <2>7. QED
    BY <1>4, <2>5, <2>6 DEF e
<1>7. QED
  BY <1>5, <1>6

\* What is carried to digit r of a limb.
CarriedTo(limb, c, r) == IF r = 0 THEN c ELSE Carried(DigitOf(limb, r - 1))

\* n is what stands above the place of t, and b below it.
Splits(limb, t, n, b) == n \in Nat /\ b \in 0 .. t - 1 /\ limb = n * t + b

\* The digits below digit r, doubled.
LEMMA BelowDigit ==
  ASSUME NEW r \in Nat, NEW c \in {0, 1}, NEW t, t = TenTo[r],
         NEW n, NEW b, NEW limb, Splits(limb, t, n, b)
  PROVE  /\ CarriedTo(limb, c, r) \in {0, 1}
         /\ \E z \in 0 .. t - 1 : 2 * b + c = CarriedTo(limb, c, r) * t + z
<1> DEFINE h == CarriedTo(limb, c, r)
<1>0. n \in Nat /\ b \in 0 .. t - 1 /\ limb = n * t + b
  BY DEF Splits
<1>1. CASE r = 0
  <2>1. t = 1 /\ b = 0 /\ h = c
    BY <1>0, <1>1, TensAre DEF CarriedTo
  <2>2. h \in {0, 1} /\ 2 * b + c = h * 1 + 0 /\ 0 \in 0 .. 1 - 1
    BY <2>1
  <2>3. QED
    BY <2>1, <2>2
<1>2. CASE r # 0
  <2> DEFINE s == TenTo[r - 1]
  <2>1. s \in Nat \ {0} /\ t = 10 * s /\ t \in Nat
    <3>1. r - 1 \in Nat /\ (r - 1) + 1 = r
      BY <1>2
    <3>2. QED
      BY <3>1, TensAre
  <2>11. limb = n * t + b /\ b \in 0 .. t - 1 /\ n \in Nat
    BY <1>0
  <2> HIDE DEF s
  <2>2. b \in 0 .. 10 * s - 1 /\ b \in Int
    BY <2>1, <2>11
  <2>3. PICK e \in 0 .. 9, q \in 0 .. s - 1 :
          /\ b = e * s + q
          /\ e >= 5 => 2 * b >= 10 * s
          /\ e < 5 => 2 * b + c <= 10 * s - 1 /\ 2 * b <= 10 * s - 2
    BY <2>1, <2>2, LeadingDigit
  <2>4. limb = (n * 10 + e) * s + q
    <3>1. n * (10 * s) = (n * 10) * s
      BY <2>1, <2>11
    <3>2. n * 10 \in Int /\ e \in Int /\ s \in Int
      BY <2>1, <2>11
    <3>3. (n * 10 + e) * s = (n * 10) * s + e * s
      BY <3>2, Distribute
    <3>4. (n * 10) * s \in Int /\ e * s \in Int
      BY <2>1, <2>11
    <3>5. limb = n * (10 * s) + (e * s + q)
      BY <2>1, <2>11, <2>3
    <3>6. QED
      BY <3>1, <3>3, <3>4, <3>5
  <2>5. (limb \div s) % 10 = e
    <3> DEFINE m == n * 10 + e
    <3>1. m \in Int /\ limb = m * s + q
      BY <2>4, <2>11
    <3>2. m % 10 = e
      BY <2>11
    <3> HIDE DEF m
    <3>3. limb \div s = m
      BY <2>1, <2>3, <3>1, DivisionIs
    <3>5. QED
      BY <3>2, <3>3
  <2>6. h = Carried(e)
    BY <1>2, <2>5 DEF CarriedTo, DigitOf, s
  <2> HIDE DEF h
  <2>7. CASE e >= 5
    <3>1. h = 1 /\ 2 * b + c - t \in 0 .. t - 1 /\ 2 * b + c = h * t + (2 * b + c - t)
      BY <2>1, <2>2, <2>3, <2>6, <2>7, <2>11 DEF Carried
    <3>2. QED
      BY <3>1 DEF h
  <2>8. CASE e < 5
    <3>1. h = 0 /\ 2 * b + c \in 0 .. t - 1 /\ 2 * b + c = h * t + (2 * b + c)
      BY <2>1, <2>2, <2>3, <2>6, <2>8, <2>11 DEF Carried
    <3>2. QED
      BY <3>1 DEF h
  <2>9. QED
    BY <2>7, <2>8
<1>3. QED
  BY <1>1, <1>2

\* The digits of a limb that was doubled are those of the limb, doubled one by one.
LEMMA LimbDoubled ==
  ASSUME NEW limb \in 0 .. Unit - 1, NEW c \in {0, 1}, NEW r \in 0 .. DecimalDigits - 1
  PROVE  /\ DigitOf(limb, r) \in 0 .. 9
         /\ DigitOf(LimbAfter(limb, c), r) = ((2 * DigitOf(limb, r)) % 10) + CarriedTo(limb, c, r)
<1> DEFINE t == TenTo[r]
           u == TenTo[DecimalDigits - 1 - r]
           d == DigitOf(limb, r)
           h == CarriedTo(limb, c, r)
           e == Carried(DigitOf(limb, DecimalDigits - 1))
           g == Carried(d)
           f == ((2 * d) % 10) + h
<1>1. /\ r \in Nat /\ DecimalDigits - 1 - r \in Nat /\ r + 1 \in Nat
      /\ (r + 1) + (DecimalDigits - 1 - r) = DecimalDigits
  BY AmountAssumption DEF AmountAssumption
<1>2. t \in Nat \ {0} /\ u \in Nat \ {0} /\ Unit = (10 * t) * u /\ Unit \in Nat
  <2>1. t \in Nat \ {0} /\ u \in Nat \ {0} /\ TenTo[r + 1] = 10 * t
    BY <1>1, TensAre
  <2>2. TenTo[(r + 1) + (DecimalDigits - 1 - r)] = TenTo[r + 1] * u
    BY <1>1, TensMultiply
  <2>3. Unit = (10 * t) * u
    BY <1>1, <2>1, <2>2 DEF Unit
  <2> HIDE DEF t, u
  <2>4. (10 * t) * u \in Nat
    BY <2>1
  <2>5. QED
    BY <2>1, <2>3, <2>4
<1>3. limb \in Nat
  BY <1>2
<1>4. PICK k \in Nat, b \in 0 .. t - 1 : d \in 0 .. 9 /\ limb = (k * 10 + d) * t + b
  <2>1. \E k \in Nat, b \in 0 .. t - 1 :
           (limb \div t) % 10 \in 0 .. 9 /\ limb = (k * 10 + ((limb \div t) % 10)) * t + b
    <3> HIDE DEF t
    <3>1. QED
      BY <1>2, <1>3, AroundDigit
  <2>2. d = (limb \div t) % 10
    BY DEF DigitOf
  <2>3. QED
    BY <2>1, <2>2
<1>5. h \in {0, 1} /\ \E z \in 0 .. t - 1 : 2 * b + c = h * t + z
  <2> DEFINE n == k * 10 + d
  <2>1. t = TenTo[r] /\ h = CarriedTo(limb, c, r) /\ n \in Nat
    BY <1>4
  <2>2. Splits(limb, t, n, b)
    BY <1>4, <2>1 DEF Splits
  <2> HIDE DEF n, d, t, h, u, e, g, f
  <2>3. QED
    BY <1>1, <2>1, <2>2, BelowDigit
<1>6. PICK z \in 0 .. t - 1 : 2 * b + c = h * t + z
  BY <1>5
<1>7. f \in 0 .. 9 /\ g \in {0, 1} /\ 2 * d + h = 10 * g + f
  <2> HIDE DEF d, h
  <2>1. QED
    BY <1>4, <1>5, DigitDoubled
<1>8. e \in {0, 1} /\ LimbAfter(limb, c) = 2 * limb - e * Unit + c
  BY LimbCarries
<1> HIDE DEF t, u, d, h, e, g, f
<1>9. 2 * ((k * 10 + d) * t + b) - e * ((10 * t) * u) + c = ((2 * k - e * u + g) * 10 + f) * t + z
  <2>1. /\ t \in Nat /\ k \in Int /\ d \in Int /\ b \in Int /\ c \in Int /\ e \in Int /\ u \in Int
        /\ h \in Int /\ z \in Int /\ g \in Int /\ f \in Int
    BY <1>2, <1>4, <1>5, <1>7, <1>8
  <2>2. QED
    BY <1>6, <1>7, <2>1, DoubledAround
<1>10. LimbAfter(limb, c) = ((2 * k - e * u + g) * 10 + f) * t + z
  BY <1>2, <1>4, <1>8, <1>9
<1>11. 2 * k - e * u + g \in Int
  BY <1>2, <1>4, <1>7, <1>8
<1>12. (LimbAfter(limb, c) \div t) % 10 = f
  <2> DEFINE m == 2 * k - e * u + g
             n == m * 10 + f
  <2>1. m \in Int /\ n \in Int /\ n = m * 10 + f /\ LimbAfter(limb, c) = n * t + z
    BY <1>7, <1>10, <1>11
  <2> HIDE DEF m, n
  <2>2. LimbAfter(limb, c) \div t = n
    BY <1>2, <2>1, DivisionIs
  <2>3. n % 10 = f
    BY <1>7, <2>1
  <2>4. QED
    BY <2>2, <2>3
<1>13. QED
  BY <1>4, <1>12 DEF DigitOf, d, f, h, t

-----------------------------------------------------------------------------
\* An amount in limbs, doubled.

\* The constants of the display.
LEMMA DisplaySizes ==
  /\ DecimalDigits \in Nat \ {0} /\ CoinDigits \in Nat \ {0} /\ SCRATCH_SIZE \in Nat
  /\ SCRATCH_SIZE = CoinDigits + DecimalDigits /\ SCRATCH_SIZE >= 2
  /\ AmountBytes \in Nat \ {0} /\ ByteBits \in Nat \ {0} /\ Unit \in Nat \ {0}
  /\ AmountBytes * ByteBits <= 13 * (SCRATCH_SIZE \div 4)
<1>1. /\ DecimalDigits \in Nat \ {0} /\ CoinDigits \in Nat \ {0}
      /\ AmountBytes \in Nat \ {0} /\ ByteBits \in Nat \ {0}
      /\ AmountBytes * ByteBits <= 13 * (SCRATCH_SIZE \div 4)
  BY AmountAssumption DEF AmountAssumption
<1>2. Unit \in Nat \ {0}
  BY <1>1, TensAre DEF Unit
<1>3. SCRATCH_SIZE = CoinDigits + DecimalDigits
  BY DEF SCRATCH_SIZE
<1>4. QED
  BY <1>1, <1>2, <1>3

\* What is carried to position k.
CarryIn(digits, bit, k) == IF k = SCRATCH_SIZE - 1 THEN bit ELSE Carried(digits[k + 1])

\* The limb of a position and its place there, and those of the position to its right.
LEMMA PlaceIs ==
  ASSUME NEW q \in 0 .. SCRATCH_SIZE - 1
  PROVE  /\ q \div DecimalDigits \in Limbs /\ q % DecimalDigits \in 0 .. DecimalDigits - 1
         /\ q = 0 => q \div DecimalDigits = 0 /\ q % DecimalDigits = 0
         /\ q > 0 /\ q % DecimalDigits > 0 =>
              /\ (q - 1) \div DecimalDigits = q \div DecimalDigits
              /\ (q - 1) % DecimalDigits = (q % DecimalDigits) - 1
         /\ q > 0 /\ q % DecimalDigits = 0 =>
              /\ q \div DecimalDigits # 0
              /\ (q - 1) \div DecimalDigits = q \div DecimalDigits - 1
              /\ (q - 1) % DecimalDigits = DecimalDigits - 1
<1> DEFINE D == DecimalDigits
           i == q \div D
           r == q % D
           w == CoinDigits \div D
           y == CoinDigits % D
<1>1. D \in Nat \ {0} /\ D \in Int /\ q \in Int /\ CoinDigits \in Int /\ q >= 0 /\ q < CoinDigits + D
  BY DisplaySizes
<1>2. i \in Int /\ r \in 0 .. D - 1 /\ q = D * i + r
  BY <1>1, DivMod
<1>3. w \in Int /\ y \in 0 .. D - 1 /\ CoinDigits = D * w + y
  BY <1>1, DivMod
<1>4. Limbs = 0 .. w + 1
  BY DEF Limbs
<1>5. q = i * D + r /\ CoinDigits = w * D + y /\ i * D \in Int /\ w * D \in Int
  <2> HIDE DEF i, r, w, y
  <2>1. D * i = i * D /\ D * w = w * D /\ i * D \in Int /\ w * D \in Int
    BY <1>1, <1>2, <1>3
  <2>2. QED
    BY <1>2, <1>3, <2>1
<1> HIDE DEF D, w, y
<1>6. i >= 0
  <2> HIDE DEF i, r
  <2>1. i < 0 => i * D + D <= 0 * D /\ 0 * D = 0
    BY <1>1, <1>2, Multiples
  <2>2. QED
    BY <1>1, <1>2, <1>5, <2>1
<1>7. i <= w + 1
  <2> HIDE DEF i, r
  <2>1. w + 1 < i => (w + 1) * D + D <= i * D
    BY <1>1, <1>2, <1>3, Multiples
  <2>2. (w + 1) * D = w * D + D
    BY <1>1, <1>3, Multiples
  <2>3. QED
    BY <1>1, <1>2, <1>3, <1>5, <2>1, <2>2
<1>8. q = 0 => i = 0 /\ r = 0
  <2>1. 0 \in 0 .. D - 1
    BY <1>1
  <2>2. 0 \div D = 0 /\ 0 % D = 0
    BY <1>1, <2>1, DivisionFew
  <2>3. QED
    BY <2>2
<1>9. q > 0 /\ r > 0 => (q - 1) \div D = i /\ (q - 1) % D = r - 1
  <2> HIDE DEF i, r
  <2> SUFFICES ASSUME q > 0, r > 0 PROVE (q - 1) \div D = i /\ (q - 1) % D = r - 1
    OBVIOUS
  <2>1. r - 1 \in 0 .. D - 1 /\ q - 1 = i * D + (r - 1)
    BY <1>1, <1>2, <1>5
  <2> DEFINE p == q - 1
             z == r - 1
  <2>2. p = i * D + z /\ z \in 0 .. D - 1
    BY <2>1
  <2> HIDE DEF p, z
  <2>3. p \div D = i /\ p % D = z
    BY <1>1, <1>2, <2>2, DivisionIs
  <2>4. QED
    BY <2>3 DEF p, z
<1>10. q > 0 /\ r = 0 => i # 0 /\ (q - 1) \div D = i - 1 /\ (q - 1) % D = D - 1
  <2> HIDE DEF i, r
  <2> SUFFICES ASSUME q > 0, r = 0 PROVE i # 0 /\ (q - 1) \div D = i - 1 /\ (q - 1) % D = D - 1
    OBVIOUS
  <2>1. (i - 1) * D = i * D - D /\ 0 * D = 0
    BY <1>1, <1>2, Multiples
  <2>2. D - 1 \in 0 .. D - 1 /\ i - 1 \in Int /\ q - 1 = (i - 1) * D + (D - 1) /\ i # 0
    BY <1>1, <1>2, <1>5, <2>1
  <2> DEFINE p == q - 1
             z == D - 1
             h == i - 1
  <2>3. p = h * D + z /\ z \in 0 .. D - 1 /\ h \in Int
    BY <2>2
  <2> HIDE DEF p, z, h
  <2>4. p \div D = h /\ p % D = z
    BY <1>1, <2>3, DivisionIs
  <2>5. QED
    BY <2>2, <2>4 DEF p, z, h
<1>11. i \in Limbs /\ r \in 0 .. D - 1
  <2> HIDE DEF i, r
  <2>1. QED
    BY <1>2, <1>3, <1>4, <1>6, <1>7
<1>12. QED
  BY <1>8, <1>9, <1>10, <1>11 DEF D

\* The digits of an amount that was doubled are its digits, doubled one by one.
LEMMA DigitsDoubled ==
  ASSUME NEW l \in [Limbs -> 0 .. Unit - 1], NEW bit \in {0, 1}
  PROVE  /\ Doubled(l, bit) \in [Limbs -> 0 .. Unit - 1]
         /\ \A k \in Positions :
              /\ DigitAt(l, k) \in 0 .. 9
              /\ DigitAt(Doubled(l, bit), k)
                   = ((2 * DigitAt(l, k)) % 10) + CarryIn([j \in Positions |-> DigitAt(l, j)], bit, k)
<1> DEFINE carry(i) == IF i = 0 THEN bit ELSE (2 * l[i - 1]) \div Unit
           m == Doubled(l, bit)
           digits == [j \in Positions |-> DigitAt(l, j)]
<1>1. ASSUME NEW i \in Limbs, i # 0
      PROVE  i - 1 \in Limbs /\ carry(i) = Carried(DigitOf(l[i - 1], DecimalDigits - 1))
  <2>1. CoinDigits \div DecimalDigits \in Int
    BY DisplaySizes
  <2>2. i - 1 \in Limbs
    BY <1>1, <2>1 DEF Limbs
  <2>3. l[i - 1] \in 0 .. Unit - 1
    BY <2>2
  <2>4. (2 * l[i - 1]) \div Unit = Carried(DigitOf(l[i - 1], DecimalDigits - 1))
    <3>1. 0 \in {0, 1}
      OBVIOUS
    <3>2. QED
      BY <2>3, <3>1, LimbCarries, Zenon
  <2>5. QED
    BY <1>1, <2>2, <2>4
<1>2. ASSUME NEW i \in Limbs
      PROVE  carry(i) \in {0, 1} /\ m[i] = LimbAfter(l[i], carry(i)) /\ m[i] \in 0 .. Unit - 1
  <2>1. carry(i) \in {0, 1}
    <3>1. CASE i = 0
      BY <3>1
    <3>2. CASE i # 0
      BY <1>1, <3>2 DEF Carried
    <3>3. QED
      BY <3>1, <3>2
  <2>2. m[i] = LimbAfter(l[i], carry(i))
    BY DEF Doubled, LimbAfter
  <2> HIDE DEF carry, m
  <2>3. LimbAfter(l[i], carry(i)) \in 0 .. Unit - 1
    <3>1. l[i] \in 0 .. Unit - 1
      OBVIOUS
    <3>2. QED
      BY <2>1, <3>1, LimbCarries, Zenon
  <2>4. QED
    BY <2>1, <2>2, <2>3
<1>3. m \in [Limbs -> 0 .. Unit - 1]
  <2>1. m = [i \in Limbs |-> m[i]]
    BY DEF Doubled
  <2> HIDE DEF m, carry
  <2>2. QED
    BY <1>2, <2>1
<1> HIDE DEF m
<1>4. ASSUME NEW k \in Positions
      PROVE  DigitAt(l, k) \in 0 .. 9 /\ DigitAt(m, k) = ((2 * DigitAt(l, k)) % 10) + CarryIn(digits, bit, k)
  <2> DEFINE q == SCRATCH_SIZE - 1 - k
             i == q \div DecimalDigits
             r == q % DecimalDigits
  <2>1. q \in 0 .. SCRATCH_SIZE - 1 /\ k \in Int /\ SCRATCH_SIZE \in Nat
    BY DisplaySizes DEF Positions
  <2>11. q > 0 <=> k # SCRATCH_SIZE - 1
    BY <2>1
  <2>12. q > 0 => k + 1 \in Positions /\ SCRATCH_SIZE - 1 - (k + 1) = q - 1
    BY <2>1 DEF Positions
  <2>2. DigitAt(l, k) = DigitOf(l[i], r) /\ DigitAt(m, k) = DigitOf(m[i], r)
    BY DEF DigitAt
  <2>3. q > 0 => CarryIn(digits, bit, k) = Carried(DigitOf(l[(q - 1) \div DecimalDigits], (q - 1) % DecimalDigits))
    BY <2>11, <2>12 DEF CarryIn, DigitAt
  <2>4. q = 0 => CarryIn(digits, bit, k) = bit
    BY <2>1 DEF CarryIn
  <2> HIDE DEF q
  <2>5. /\ i \in Limbs /\ r \in 0 .. DecimalDigits - 1
        /\ q = 0 => i = 0 /\ r = 0
        /\ q > 0 /\ r > 0 => (q - 1) \div DecimalDigits = i /\ (q - 1) % DecimalDigits = r - 1
        /\ q > 0 /\ r = 0 => i # 0 /\ (q - 1) \div DecimalDigits = i - 1
                                   /\ (q - 1) % DecimalDigits = DecimalDigits - 1
    BY <2>1, PlaceIs
  <2> HIDE DEF i, r
  <2>6. CarryIn(digits, bit, k) = CarriedTo(l[i], carry(i), r)
    <3>1. CASE q = 0
      BY <2>4, <2>5, <3>1 DEF CarriedTo
    <3>2. CASE q > 0 /\ r > 0
      BY <2>3, <2>5, <3>2 DEF CarriedTo
    <3>3. CASE q > 0 /\ r = 0
      <4>1. carry(i) = Carried(DigitOf(l[i - 1], DecimalDigits - 1))
        BY <1>1, <2>5, <3>3
      <4> HIDE DEF carry
      <4>2. QED
        BY <2>3, <2>5, <3>3, <4>1 DEF CarriedTo
    <3>4. QED
      <4>1. q = 0 \/ q > 0
        BY <2>1
      <4>2. r = 0 \/ r > 0
        BY <2>5
      <4>3. QED
        BY <3>1, <3>2, <3>3, <4>1, <4>2
  <2> HIDE DEF carry
  <2>7. l[i] \in 0 .. Unit - 1 /\ carry(i) \in {0, 1} /\ m[i] = LimbAfter(l[i], carry(i))
    BY <1>2, <2>5
  <2>8. /\ DigitOf(l[i], r) \in 0 .. 9
        /\ DigitOf(LimbAfter(l[i], carry(i)), r) = ((2 * DigitOf(l[i], r)) % 10) + CarriedTo(l[i], carry(i), r)
    BY <2>5, <2>7, LimbDoubled, Zenon
  <2>9. QED
    BY <2>2, <2>6, <2>7, <2>8
<1>5. QED
  BY <1>3, <1>4 DEF m

-----------------------------------------------------------------------------
\* A turn of the inner loop doubles the digits.

\* v[k] is the number of the first k digits.
NumberOf(digits, v) ==
  /\ v \in [0 .. SCRATCH_SIZE -> Nat]
  /\ v[0] = 0
  /\ \A k \in Positions : v[k + 1] = 10 * v[k] + digits[k]

\* The digits after a doubling.
DigitsAfter(digits, bit) == [k \in Positions |-> ((2 * digits[k]) % 10) + CarryIn(digits, bit, k)]

Scratches == [Positions -> 0 .. 9]

\* The positions of the scratch.
LEMMA PositionsAre ==
  /\ 0 \in Positions /\ SCRATCH_SIZE - 1 \in Positions /\ SCRATCH_SIZE - 2 \in Positions
  /\ \A k \in Positions : k \in Int /\ k >= 0 /\ k < SCRATCH_SIZE
  /\ \A k \in Positions : k # SCRATCH_SIZE - 1 => k + 1 \in Positions
  /\ \A k \in Positions : k # 0 => k - 1 \in Positions
<1>1. SCRATCH_SIZE \in Nat /\ SCRATCH_SIZE >= 2
  BY DisplaySizes
<1>2. QED
  BY <1>1 DEF Positions

\* Doubled digits are digits.
LEMMA DigitsAfterType ==
  ASSUME NEW digits \in Scratches, NEW bit \in {0, 1}
  PROVE  /\ DigitsAfter(digits, bit) \in Scratches
         /\ \A k \in Positions : CarryIn(digits, bit, k) \in {0, 1}
<1>1. ASSUME NEW k \in Positions PROVE CarryIn(digits, bit, k) \in {0, 1}
  <2>1. CASE k = SCRATCH_SIZE - 1
    BY <2>1 DEF CarryIn
  <2>2. CASE k # SCRATCH_SIZE - 1
    BY <2>2 DEF CarryIn, Carried
  <2>3. QED
    BY <2>1, <2>2
<1>2. ASSUME NEW k \in Positions PROVE ((2 * digits[k]) % 10) + CarryIn(digits, bit, k) \in 0 .. 9
  <2>1. digits[k] \in 0 .. 9
    BY DEF Scratches
  <2>2. QED
    BY <1>1, <2>1, DigitDoubled
<1>3. QED
  BY <1>1, <1>2 DEF DigitsAfter, Scratches

\* The number of the doubled digits.
LEMMA NumberDoubled ==
  ASSUME NEW digits \in Scratches, NEW bit \in {0, 1}, NEW v, NumberOf(digits, v), digits[0] < 5
  PROVE  \E w : NumberOf(DigitsAfter(digits, bit), w) /\ w[SCRATCH_SIZE] = 2 * v[SCRATCH_SIZE] + bit
<1> DEFINE S == SCRATCH_SIZE
           w == [k \in 0 .. S |-> IF k = S THEN 2 * v[S] + bit ELSE 2 * v[k] + Carried(digits[k])]
<1>1. S \in Nat /\ S >= 2 /\ v \in [0 .. S -> Nat]
  BY DisplaySizes DEF NumberOf
<1>2. \A k \in Positions : k \in 0 .. S /\ k # S /\ k + 1 \in 0 .. S /\ digits[k] \in 0 .. 9
  BY <1>1 DEF Positions, Scratches
<1>3. \A k \in Positions : Carried(digits[k]) \in {0, 1}
  BY DEF Carried
<1>4. w \in [0 .. S -> Nat]
  <2>1. ASSUME NEW k \in 0 .. S, k # S PROVE k \in Positions
    BY <1>1, <2>1 DEF Positions
  <2>2. ASSUME NEW k \in 0 .. S, k # S PROVE 2 * v[k] + Carried(digits[k]) \in Nat
    <3>1. v[k] \in Nat /\ Carried(digits[k]) \in {0, 1}
      BY <1>1, <1>3, <2>1, <2>2
    <3>2. \A m \in Nat, c \in {0, 1} : 2 * m + c \in Nat
      OBVIOUS
    <3>3. QED
      BY <3>1, <3>2
  <2>3. 2 * v[S] + bit \in Nat
    BY <1>1
  <2>4. QED
    BY <2>2, <2>3
<1>5. w[0] = 0
  <2>1. 0 \in Positions /\ 0 \in 0 .. S /\ 0 # S
    BY <1>1 DEF Positions
  <2>2. Carried(digits[0]) = 0 /\ v[0] = 0
    <3>1. ~(digits[0] >= 5)
      BY <1>2, <2>1
    <3>2. QED
      BY <3>1 DEF Carried, NumberOf
  <2>3. QED
    BY <2>1, <2>2
<1>6. ASSUME NEW k \in Positions
      PROVE  w[k + 1] = 2 * v[k + 1] + CarryIn(digits, bit, k)
  <2>1. CASE k = S - 1
    BY <1>1, <1>2, <2>1 DEF CarryIn
  <2>2. CASE k # S - 1
    <3>1. k + 1 # S
      BY <1>1, <1>2, <2>2 DEF Positions
    <3>2. QED
      BY <1>2, <2>2, <3>1 DEF CarryIn
  <2>3. QED
    BY <2>1, <2>2
<1>7. \A k \in Positions : w[k] = 2 * v[k] + Carried(digits[k])
  BY <1>2
<1> HIDE DEF w
<1>8. ASSUME NEW k \in Positions
      PROVE  w[k + 1] = 10 * w[k] + DigitsAfter(digits, bit)[k]
  <2> DEFINE d == digits[k]
             h == CarryIn(digits, bit, k)
  <2>1. d \in 0 .. 9 /\ h \in {0, 1}
    BY <1>2, DigitsAfterType
  <2>2. DigitsAfter(digits, bit)[k] = ((2 * d) % 10) + h
    BY DEF DigitsAfter
  <2>3. v[k + 1] = 10 * v[k] + d /\ v[k] \in Nat
    BY <1>1, <1>2 DEF NumberOf
  <2>4. w[k + 1] = 2 * v[k + 1] + h /\ w[k] = 2 * v[k] + Carried(d)
    BY <1>6, <1>7
  <2> HIDE DEF d, h
  <2>5. 2 * d + h = 10 * Carried(d) + (((2 * d) % 10) + h) /\ Carried(d) \in {0, 1}
    BY <2>1, DigitDoubled
  <2>6. QED
    BY <2>1, <2>2, <2>3, <2>4, <2>5
<1>9. NumberOf(DigitsAfter(digits, bit), w)
  BY <1>4, <1>5, <1>8 DEF NumberOf
<1>10. w[S] = 2 * v[S] + bit
  BY <1>1 DEF w
<1>11. QED
  BY <1>9, <1>10

\* The first digit counts.
LEMMA FirstCounts ==
  ASSUME NEW digits \in Scratches, NEW v, NumberOf(digits, v)
  PROVE  v[SCRATCH_SIZE] \in Nat /\ v[SCRATCH_SIZE] >= digits[0] * TenTo[SCRATCH_SIZE - 1]
<1> DEFINE S == SCRATCH_SIZE
           a == digits[0]
           T == {n \in Nat : n < S => v[n + 1] >= a * TenTo[n]}
<1>1. S \in Nat /\ S >= 2 /\ v \in [0 .. S -> Nat]
  BY DisplaySizes DEF NumberOf
<1>2. a \in 0 .. 9
  BY PositionsAre DEF Scratches
<1> HIDE DEF a
<1>3. 0 \in T
  <2>1. v[0 + 1] = 10 * v[0] + a /\ v[0] = 0
    BY PositionsAre DEF NumberOf, a
  <2>2. TenTo[0] = 1
    BY TensAre
  <2>3. v[0 + 1] = a /\ a * TenTo[0] = a
    BY <1>2, <2>1, <2>2
  <2>4. QED
    BY <1>2, <2>3
<1>4. ASSUME NEW n \in Nat, n \in T PROVE n + 1 \in T
  <2>1. SUFFICES ASSUME n + 1 < S PROVE v[(n + 1) + 1] >= a * TenTo[n + 1]
    OBVIOUS
  <2>2. n + 1 \in Positions /\ n + 1 \in 0 .. S /\ (n + 1) + 1 \in 0 .. S /\ n < S
    BY <1>1, <2>1 DEF Positions
  <2>3. v[(n + 1) + 1] = 10 * v[n + 1] + digits[n + 1] /\ digits[n + 1] \in 0 .. 9
    BY <2>2 DEF NumberOf, Scratches
  <2>4. v[n + 1] >= a * TenTo[n] /\ v[n + 1] \in Nat
    BY <1>1, <1>4, <2>2
  <2>5. TenTo[n + 1] = 10 * TenTo[n] /\ TenTo[n] \in Nat
    BY TensAre
  <2>6. a * TenTo[n + 1] = 10 * (a * TenTo[n]) /\ a * TenTo[n] \in Nat
    BY <1>2, <2>5
  <2>7. QED
    BY <2>3, <2>4, <2>6
<1> HIDE DEF T
<1>5. Nat \subseteq T
  BY <1>3, <1>4, NaturalsIn
<1>6. S - 1 \in T /\ (S - 1) + 1 = S /\ S - 1 < S
  BY <1>1, <1>5
<1>7. v[(S - 1) + 1] >= a * TenTo[S - 1]
  BY <1>6 DEF T
<1>8. QED
  BY <1>1, <1>6, <1>7 DEF a

\* Powers of two grow.
LEMMA TwosGrow ==
  ASSUME NEW a \in Nat, NEW b \in Nat, a <= b
  PROVE  TwoTo[a] <= TwoTo[b] /\ TenTo[a] <= TenTo[b]
<1> DEFINE T == {n \in Nat : TwoTo[a] <= TwoTo[a + n] /\ TenTo[a] <= TenTo[a + n]}
<1>1. 0 \in T
  BY TensAre
<1>2. ASSUME NEW n \in Nat, n \in T PROVE n + 1 \in T
  <2>1. a + n \in Nat /\ a + (n + 1) = (a + n) + 1
    OBVIOUS
  <2>2. TwoTo[(a + n) + 1] = 2 * TwoTo[a + n] /\ TenTo[(a + n) + 1] = 10 * TenTo[a + n]
    BY <2>1, TensAre
  <2>3. /\ TwoTo[a + n] \in Nat /\ TenTo[a + n] \in Nat /\ TwoTo[a] \in Nat /\ TenTo[a] \in Nat
    BY <2>1, TensAre
  <2>4. TwoTo[a] <= TwoTo[a + (n + 1)] /\ TenTo[a] <= TenTo[a + (n + 1)]
    BY <1>2, <2>1, <2>2, <2>3
  <2>5. QED
    BY <2>4
<1> HIDE DEF T
<1>3. Nat \subseteq T
  BY <1>1, <1>2, NaturalsIn
<1>4. b - a \in T /\ a + (b - a) = b
  BY <1>3
<1>5. QED
  BY <1>4 DEF T

\* Four digits hold thirteen bits.
LEMMA FourHoldThirteen ==
  ASSUME NEW n \in Nat
  PROVE  TwoTo[13 * n] <= TenTo[4 * n]
<1> DEFINE T == {k \in Nat : TwoTo[13 * k] <= TenTo[4 * k]}
<1>1. 0 \in T
  BY TensAre
<1>2. TwoTo[13] = 8192 /\ TenTo[4] = 10000
  <2>1. \A k \in Nat : TwoTo[k] = (IF k = 0 THEN 1 ELSE 2 * TwoTo[k - 1])
                    /\ TenTo[k] = (IF k = 0 THEN 1 ELSE 10 * TenTo[k - 1])
    BY TensArePowers DEF PowersOf
  <2>2. TwoTo[1] = 2 /\ TwoTo[2] = 4 /\ TwoTo[3] = 8 /\ TwoTo[4] = 16 /\ TwoTo[5] = 32
    BY <2>1
  <2>3. TwoTo[6] = 64 /\ TwoTo[7] = 128 /\ TwoTo[8] = 256 /\ TwoTo[9] = 512
    BY <2>1, <2>2
  <2>4. TwoTo[10] = 1024 /\ TwoTo[11] = 2048 /\ TwoTo[12] = 4096 /\ TwoTo[13] = 8192
    BY <2>1, <2>3, SMT
  <2>5. TenTo[1] = 10 /\ TenTo[2] = 100 /\ TenTo[3] = 1000 /\ TenTo[4] = 10000
    BY <2>1, SMT
  <2>6. QED
    BY <2>4, <2>5, SMT
<1>3. ASSUME NEW k \in Nat, k \in T PROVE k + 1 \in T
  <2> DEFINE a == 13 * k
             b == 4 * k
  <2>1. a \in Nat /\ b \in Nat /\ 13 * (k + 1) = a + 13 /\ 4 * (k + 1) = b + 4 /\ TwoTo[a] <= TenTo[b]
    BY <1>3
  <2> HIDE DEF a, b
  <2>2. TwoTo[a + 13] = TwoTo[a] * TwoTo[13] /\ TenTo[b + 4] = TenTo[b] * TenTo[4]
    BY <2>1, TensMultiply
  <2>3. TwoTo[a] \in Nat /\ TenTo[b] \in Nat
    BY <2>1, TensAre
  <2>4. TwoTo[a] * 8192 <= TenTo[b] * 10000
    BY <2>1, <2>3, SMT
  <2>5. TwoTo[13 * (k + 1)] <= TenTo[4 * (k + 1)]
    BY <1>2, <2>1, <2>2, <2>4, SMT
  <2>6. QED
    BY <2>5
<1> HIDE DEF T
<1>4. Nat \subseteq T
  BY <1>1, <1>3, NaturalsIn
<1>5. QED
  BY <1>4 DEF T

\* The scratch has room for every amount: its first digit never carries.
LEMMA FirstIsSmall ==
  ASSUME NEW digits \in Scratches, NEW v, NumberOf(digits, v),
         NEW n \in Nat, n < AmountBytes * ByteBits, v[SCRATCH_SIZE] < TwoTo[n]
  PROVE  digits[0] < 5
<1> DEFINE S == SCRATCH_SIZE
           bits == AmountBytes * ByteBits
           q == S \div 4
           x == v[S]
<1>1. S \in Nat /\ S >= 2 /\ bits \in Nat /\ bits <= 13 * q /\ q \in Nat /\ 4 * q <= S
  BY DisplaySizes
<1>2. TwoTo[bits] <= TwoTo[13 * q] /\ TwoTo[13 * q] <= TenTo[4 * q] /\ TenTo[4 * q] <= TenTo[S]
  <2> HIDE DEF bits, q, S
  <2>1. 13 * q \in Nat /\ 4 * q \in Nat
    BY <1>1
  <2>2. QED
    BY <1>1, <2>1, TwosGrow, FourHoldThirteen
<1>3. n + 1 <= bits /\ n + 1 \in Nat
  BY <1>1
<1>4. TwoTo[n + 1] <= TwoTo[bits] /\ TwoTo[n + 1] = 2 * TwoTo[n]
  <2> HIDE DEF bits
  <2>1. QED
    BY <1>1, <1>3, TwosGrow, TensAre
<1>5. TenTo[S] = 10 * TenTo[S - 1] /\ TenTo[S - 1] \in Nat
  <2>1. S - 1 \in Nat /\ (S - 1) + 1 = S
    BY <1>1
  <2>2. QED
    BY <2>1, TensAre
<1>6. x \in Nat /\ x >= digits[0] * TenTo[S - 1] /\ x < TwoTo[n]
  BY FirstCounts
<1>7. digits[0] \in 0 .. 9
  BY PositionsAre DEF Scratches
<1>8. SUFFICES ASSUME digits[0] >= 5 PROVE FALSE
  BY <1>7
<1>9. digits[0] * TenTo[S - 1] >= 5 * TenTo[S - 1]
  BY <1>5, <1>7, <1>8
<1>10. /\ TwoTo[bits] \in Nat /\ TwoTo[13 * q] \in Nat /\ TenTo[4 * q] \in Nat /\ TenTo[S] \in Nat
       /\ TwoTo[n] \in Nat
  <2> HIDE DEF bits, q, S
  <2>1. 13 * q \in Nat /\ 4 * q \in Nat
    BY <1>1
  <2>2. QED
    BY <1>1, <2>1, TensAre
<1>11. digits[0] * TenTo[S - 1] \in Int
  BY <1>5, <1>7
<1> DEFINE p == digits[0] * TenTo[S - 1]
<1> HIDE DEF S, bits, q, x, p
<1>12. p >= 5 * TenTo[S - 1] /\ x >= p /\ p \in Int
  BY <1>6, <1>9, <1>11 DEF p
<1>13. QED
  BY <1>2, <1>4, <1>5, <1>6, <1>10, <1>12

\* The digits before the window are zero.
WindowHolds(d) ==
  /\ d.scratch \in Scratches /\ d.smin \in 0 .. SCRATCH_SIZE - 2
  /\ \A k \in Positions : k < d.smin => d.scratch[k] = 0

\* A turn of the inner loop doubles the digits, and the window follows them.
LEMMA ShiftDoubles ==
  ASSUME NEW d, WindowHolds(d), d.scratch[0] < 5, NEW bit \in {0, 1}
  PROVE  /\ Shift(d, bit).scratch = DigitsAfter(d.scratch, bit)
         /\ WindowHolds(Shift(d, bit))
<1> DEFINE s == d.scratch
           m == d.smin
           S == SCRATCH_SIZE
           c == [k \in Positions |-> IF k >= m THEN Corrected(s[k]) ELSE s[k]]
           low == Window(c, m)
           carry(k) == IF k = S - 1 THEN bit ELSE IF c[k + 1] >= 8 THEN 1 ELSE 0
           new == [k \in Positions |-> IF k >= low THEN ((c[k] * 2) % 16) + carry(k) ELSE c[k]]
<1>1. /\ s \in Scratches /\ m \in 0 .. S - 2 /\ S \in Nat /\ S >= 2
      /\ \A k \in Positions : k < m => s[k] = 0
  BY DisplaySizes DEF WindowHolds
<1>2. Shift(d, bit).scratch = new /\ Shift(d, bit).smin = low
  BY DEF Shift
<1>3. \A k \in Positions : s[k] \in 0 .. 9 /\ k \in Int /\ k >= 0 /\ k <= S - 1
  BY <1>1 DEF Scratches, Positions
<1>31. m \in Positions /\ m \in Int
  BY <1>1 DEF Positions
<1>4. ASSUME NEW k \in Positions
      PROVE  c[k] = Corrected(s[k]) /\ (c[k] >= 8 <=> s[k] >= 5) /\ (c[k] * 2) % 16 = (2 * s[k]) % 10
  <2>1. c[k] = Corrected(s[k])
    <3>1. CASE k >= m
      BY <3>1
    <3>2. CASE ~(k >= m)
      <4>1. s[k] = 0
        BY <1>1, <1>3, <1>31, <3>2
      <4>2. c[k] = 0 /\ Corrected(0) = 0
        BY <3>2, <4>1 DEF Corrected
      <4>3. QED
        BY <4>1, <4>2
    <3>3. QED
      BY <3>1, <3>2
  <2>2. s[k] \in 0 .. 9
    BY <1>3
  <2> HIDE DEF c, s
  <2>3. 0 \in {0, 1}
    OBVIOUS
  <2>4. QED
    BY <2>1, <2>2, <2>3, DigitDoubled
<1> HIDE DEF c
<1>5. ASSUME NEW k \in Positions
      PROVE  carry(k) = CarryIn(s, bit, k)
  <2>1. CASE k = S - 1
    BY <2>1 DEF CarryIn
  <2>2. CASE k # S - 1
    <3>1. k + 1 \in Positions
      BY <2>2, PositionsAre
    <3>2. c[k + 1] >= 8 <=> s[k + 1] >= 5
      BY <1>4, <3>1
    <3>3. QED
      BY <2>2, <3>2 DEF CarryIn, Carried
  <2>3. QED
    BY <2>1, <2>2
<1>6. CASE s[m] >= 5
  <2>1. c[m] >= 8 /\ low = m - 1
    BY <1>4, <1>6, <1>31 DEF Window
  <2>2. m # 0
    BY <1>3, <1>6, PositionsAre
  <2>3. low \in 0 .. S - 2 /\ m - 1 \in Int
    BY <1>1, <2>1, <2>2
  <2>4. ASSUME NEW k \in Positions
        PROVE  new[k] = ((2 * s[k]) % 10) + CarryIn(s, bit, k) /\ (k < low => new[k] = 0)
    <3>1. CASE k >= low
      BY <1>3, <1>4, <1>5, <2>3, <3>1
    <3>2. CASE ~(k >= low)
      <4>1. k < m /\ k < low /\ k + 1 < m /\ k # S - 1 /\ k + 1 \in Positions
        BY <1>1, <1>3, <1>31, <2>1, <3>2 DEF Positions
      <4>2. s[k] = 0 /\ s[k + 1] = 0
        BY <1>1, <4>1
      <4>3. c[k] = 0
        BY <1>4, <4>2 DEF Corrected
      <4>4. CarryIn(s, bit, k) = 0
        BY <4>1, <4>2 DEF CarryIn, Carried
      <4>5. new[k] = 0
        BY <3>2, <4>3
      <4>6. QED
        BY <4>2, <4>4, <4>5
    <3>3. QED
      BY <3>1, <3>2
  <2>5. QED
    <3>1. new = DigitsAfter(s, bit)
      BY <2>4 DEF DigitsAfter
    <3>2. new \in Scratches
      BY <1>1, <3>1, DigitsAfterType
    <3>3. \A k \in Positions : k < low => new[k] = 0
      BY <2>4
    <3> HIDE DEF new, low
    <3>4. QED
      BY <1>2, <2>3, <3>1, <3>2, <3>3 DEF WindowHolds
<1>7. CASE ~(s[m] >= 5)
  <2>1. low = m
    BY <1>4, <1>7, <1>31 DEF Window
  <2>2. ASSUME NEW k \in Positions
        PROVE  new[k] = ((2 * s[k]) % 10) + CarryIn(s, bit, k) /\ (k < low => new[k] = 0)
    <3>1. CASE k >= low
      BY <1>3, <1>4, <1>5, <1>31, <2>1, <3>1
    <3>2. CASE ~(k >= low)
      <4>1. k < m /\ k < low /\ k # S - 1 /\ k + 1 \in Positions /\ (k + 1 < m \/ k + 1 = m)
        BY <1>1, <1>3, <1>31, <2>1, <3>2 DEF Positions
      <4>2. s[k] = 0 /\ ~(s[k + 1] >= 5)
        <5>1. s[k] = 0
          BY <1>1, <4>1
        <5>2. CASE k + 1 < m
          BY <1>1, <4>1, <5>2
        <5>3. CASE k + 1 = m
          BY <1>7, <5>1, <5>3
        <5>4. QED
          BY <4>1, <5>1, <5>2, <5>3
      <4>3. c[k] = 0
        BY <1>4, <4>2 DEF Corrected
      <4>4. CarryIn(s, bit, k) = 0
        BY <4>1, <4>2 DEF CarryIn, Carried
      <4>5. new[k] = 0
        BY <3>2, <4>3
      <4>6. QED
        BY <4>2, <4>4, <4>5
    <3>3. QED
      BY <3>1, <3>2
  <2>3. QED
    <3>1. new = DigitsAfter(s, bit)
      BY <2>2 DEF DigitsAfter
    <3>2. new \in Scratches
      BY <1>1, <3>1, DigitsAfterType
    <3>3. \A k \in Positions : k < low => new[k] = 0
      BY <2>2
    <3> HIDE DEF new, low
    <3>4. QED
      BY <1>1, <1>2, <2>1, <3>1, <3>2, <3>3 DEF WindowHolds
<1>8. QED
  BY <1>6, <1>7

\* The scratch and the limbs hold the same amount, of n bits.
SameAmount(d, l, n) ==
  /\ WindowHolds(d)
  /\ l \in [Limbs -> 0 .. Unit - 1]
  /\ \A k \in Positions : d.scratch[k] = DigitAt(l, k)
  /\ \E v : NumberOf(d.scratch, v) /\ v[SCRATCH_SIZE] < TwoTo[n]

\* One bit more.
LEMMA BitShifted ==
  ASSUME NEW d, NEW l, NEW n \in Nat, SameAmount(d, l, n), n < AmountBytes * ByteBits, NEW bit \in {0, 1}
  PROVE  SameAmount(Shift(d, bit), Doubled(l, bit), n + 1)
<1> DEFINE s == d.scratch
<1>1. /\ WindowHolds(d) /\ s \in Scratches /\ l \in [Limbs -> 0 .. Unit - 1]
      /\ \A k \in Positions : s[k] = DigitAt(l, k)
  BY DEF SameAmount, WindowHolds
<1>2. PICK v : NumberOf(s, v) /\ v[SCRATCH_SIZE] < TwoTo[n]
  BY DEF SameAmount
<1>3. s[0] < 5
  BY <1>1, <1>2, FirstIsSmall
<1>4. Shift(d, bit).scratch = DigitsAfter(s, bit) /\ WindowHolds(Shift(d, bit))
  BY <1>1, <1>3, ShiftDoubles
<1>5. PICK w : NumberOf(DigitsAfter(s, bit), w) /\ w[SCRATCH_SIZE] = 2 * v[SCRATCH_SIZE] + bit
  BY <1>1, <1>2, <1>3, NumberDoubled
<1>6. w[SCRATCH_SIZE] < TwoTo[n + 1]
  <2>1. v[SCRATCH_SIZE] \in Nat
    BY <1>1, <1>2, FirstCounts
  <2>2. TwoTo[n + 1] = 2 * TwoTo[n] /\ TwoTo[n] \in Nat
    BY TensAre
  <2>3. QED
    BY <1>2, <1>5, <2>1, <2>2
<1>7. /\ Doubled(l, bit) \in [Limbs -> 0 .. Unit - 1]
      /\ \A k \in Positions :
           DigitAt(Doubled(l, bit), k)
             = ((2 * DigitAt(l, k)) % 10) + CarryIn([j \in Positions |-> DigitAt(l, j)], bit, k)
  BY <1>1, DigitsDoubled
<1>8. s = [j \in Positions |-> DigitAt(l, j)]
  BY <1>1 DEF Scratches
<1>9. ASSUME NEW k \in Positions PROVE DigitsAfter(s, bit)[k] = DigitAt(Doubled(l, bit), k)
  <2>1. DigitAt(Doubled(l, bit), k) = ((2 * s[k]) % 10) + CarryIn(s, bit, k)
    BY <1>1, <1>7, <1>8
  <2>2. QED
    BY <2>1 DEF DigitsAfter
<1> HIDE DEF s
<1>10. QED
  BY <1>4, <1>5, <1>6, <1>7, <1>9 DEF SameAmount

-----------------------------------------------------------------------------
\* The bits of a byte, folded.

\* The recursions of the two folds over the bits of a byte.
ShiftTurns(g, b, bits) ==
  g = [s \in SUBSET DOMAIN bits |->
         IF s = {} THEN b ELSE Shift(g[s \ {Max(s)}], bits[Max(s)])]

DoubledTurns(g, b, bits) ==
  g = [s \in SUBSET DOMAIN bits |->
         IF s = {} THEN b ELSE Doubled(g[s \ {Max(s)}], bits[Max(s)])]

\* What the two folds run through.
DigitRows == [scratch : [Positions -> Int], smin : Int]
LimbRows == [Limbs -> Int]

\* A turn of either loop yields what the next one takes.
LEMMA TurnTypes ==
  ASSUME NEW bit \in {0, 1}
  PROVE  /\ \A d \in DigitRows : Shift(d, bit) \in DigitRows
         /\ \A l \in LimbRows : Doubled(l, bit) \in LimbRows
<1>1. ASSUME NEW d \in DigitRows PROVE Shift(d, bit) \in DigitRows
  <2> DEFINE c == [k \in Positions |->
                     IF k >= d.smin THEN Corrected(d.scratch[k]) ELSE d.scratch[k]]
             low == Window(c, d.smin)
             carry(k) == IF k = SCRATCH_SIZE - 1 THEN bit ELSE IF c[k + 1] >= 8 THEN 1 ELSE 0
             new == [k \in Positions |-> IF k >= low THEN ((c[k] * 2) % 16) + carry(k) ELSE c[k]]
  <2>1. d.smin \in Int /\ \A k \in Positions : d.scratch[k] \in Int
    BY DEF DigitRows
  <2>2. \A k \in Positions : c[k] \in Int
    BY <2>1 DEF Corrected
  <2>3. low \in Int
    BY <2>1 DEF Window
  <2> HIDE DEF c, low
  <2>4. \A k \in Positions : carry(k) \in Int
    OBVIOUS
  <2> HIDE DEF carry
  <2>5. \A x \in Int : (x * 2) % 16 \in Int
    OBVIOUS
  <2>6. \A k \in Positions : ((c[k] * 2) % 16) + carry(k) \in Int
    BY <2>2, <2>4, <2>5
  <2>7. new \in [Positions -> Int]
    BY <2>2, <2>6
  <2>8. Shift(d, bit) = [smin |-> low, scratch |-> new]
    BY DEF Shift, low, c, carry
  <2> HIDE DEF new
  <2>9. QED
    BY <2>3, <2>7, <2>8 DEF DigitRows
<1>2. ASSUME NEW l \in LimbRows PROVE Doubled(l, bit) \in LimbRows
  <2> DEFINE carry(i) == IF i = 0 THEN bit ELSE (2 * l[i - 1]) \div Unit
  <2>1. Unit \in Nat \ {0}
    BY DisplaySizes
  <2>2. \A i \in Limbs : i = 0 \/ i - 1 \in Limbs
    BY DisplaySizes DEF Limbs
  <2>3. \A i \in Limbs : l[i] \in Int
    BY DEF LimbRows
  <2>4. \A x \in Int : (2 * x) \div Unit \in Int /\ (2 * x) % Unit \in Int
    <3>1. TAKE x \in Int
    <3>2. 2 * x \in Int
      OBVIOUS
    <3>3. QED
      BY <2>1, <3>2, DivMod
  <2>5. \A i \in Limbs : carry(i) \in Int
    BY <2>2, <2>3, <2>4
  <2> HIDE DEF carry
  <2>6. \A i \in Limbs : ((2 * l[i]) % Unit) + carry(i) \in Int
    BY <2>3, <2>4, <2>5
  <2>7. Doubled(l, bit) = [i \in Limbs |-> ((2 * l[i]) % Unit) + carry(i)]
    BY DEF Doubled, carry
  <2>8. QED
    BY <2>6, <2>7 DEF LimbRows
<1>3. QED
  BY <1>1, <1>2

\* A list of q bits.
BitList(list, q) == DOMAIN list = 1 .. q /\ \A i \in 1 .. q : list[i] \in {0, 1}

\* The two folds are defined.
LEMMA FoldsExist ==
  ASSUME NEW q \in Nat, NEW list, BitList(list, q), NEW d \in DigitRows, NEW l \in LimbRows
  PROVE  (\E g : ShiftTurns(g, d, list)) /\ (\E h : DoubledTurns(h, l, list))
<1> DEFINE D == 1 .. q
<1>1. DOMAIN list = D /\ \A i \in D : list[i] \in {0, 1}
  BY DEF BitList
<1>2. \E g : ShiftTurns(g, d, list)
  <2> DEFINE step == [x \in D \X DigitRows |-> Shift(x[2], list[x[1]])]
  <2>1. step \in [D \X DigitRows -> DigitRows]
    BY <1>1, TurnTypes
  <2>2. \A i \in D, b \in DigitRows : step[<<i, b>>] = Shift(b, list[i])
    OBVIOUS
  <2> HIDE DEF step
  <2>3. PICK g \in [SUBSET D -> DigitRows] :
          \A e \in SUBSET D :
             /\ g[e] = IF e = {} THEN d ELSE step[<<Max(e), g[e \ {Max(e)}]>>]
             /\ e # {} => Max(e) \in D
    BY <2>1, FoldExists
  <2>4. ASSUME NEW e \in SUBSET D
        PROVE  g[e] = IF e = {} THEN d ELSE Shift(g[e \ {Max(e)}], list[Max(e)])
    <3>1. CASE e = {}
      BY <2>3, <3>1
    <3>2. CASE e # {}
      <4>1. Max(e) \in D /\ g[e \ {Max(e)}] \in DigitRows
        BY <2>3, <3>2
      <4>2. QED
        BY <2>2, <2>3, <3>2, <4>1
    <3>3. QED
      BY <3>1, <3>2
  <2>5. g = [e \in SUBSET D |-> g[e]]
    BY <2>3
  <2> HIDE DEF D
  <2>6. QED
    BY <1>1, <2>4, <2>5, Zenon DEF ShiftTurns
<1>3. \E h : DoubledTurns(h, l, list)
  <2> DEFINE step == [x \in D \X LimbRows |-> Doubled(x[2], list[x[1]])]
  <2>1. step \in [D \X LimbRows -> LimbRows]
    BY <1>1, TurnTypes
  <2>2. \A i \in D, b \in LimbRows : step[<<i, b>>] = Doubled(b, list[i])
    OBVIOUS
  <2> HIDE DEF step
  <2>3. PICK g \in [SUBSET D -> LimbRows] :
          \A e \in SUBSET D :
             /\ g[e] = IF e = {} THEN l ELSE step[<<Max(e), g[e \ {Max(e)}]>>]
             /\ e # {} => Max(e) \in D
    BY <2>1, FoldExists
  <2>4. ASSUME NEW e \in SUBSET D
        PROVE  g[e] = IF e = {} THEN l ELSE Doubled(g[e \ {Max(e)}], list[Max(e)])
    <3>1. CASE e = {}
      BY <2>3, <3>1
    <3>2. CASE e # {}
      <4>1. Max(e) \in D /\ g[e \ {Max(e)}] \in LimbRows
        BY <2>3, <3>2
      <4>2. QED
        BY <2>2, <2>3, <3>2, <4>1
    <3>3. QED
      BY <3>1, <3>2
  <2>5. g = [e \in SUBSET D |-> g[e]]
    BY <2>3
  <2> HIDE DEF D
  <2>6. QED
    BY <1>1, <2>4, <2>5, Zenon DEF DoubledTurns
<1>4. QED
  BY <1>2, <1>3

\* The bits of a list shifted in, one after the other.
LEMMA ListShifted ==
  ASSUME NEW q \in Nat, NEW list, BitList(list, q), NEW d, NEW l, NEW n \in Nat,
         SameAmount(d, l, n), n + q <= AmountBytes * ByteBits, d \in DigitRows
  PROVE  SameAmount(FoldLeft(Shift, d, list), FoldLeft(Doubled, l, list), n + q)
<1> DEFINE g == CHOOSE g : ShiftTurns(g, d, list)
           h == CHOOSE h : DoubledTurns(h, l, list)
           T == {k \in Nat : k <= q => SameAmount(g[1 .. k], h[1 .. k], n + k)}
<1>1. l \in LimbRows
  BY DisplaySizes DEF SameAmount, LimbRows
<1>2. ShiftTurns(g, d, list) /\ DoubledTurns(h, l, list)
  <2>1. (\E x : ShiftTurns(x, d, list)) /\ (\E x : DoubledTurns(x, l, list))
    BY <1>1, FoldsExist
  <2>2. QED
    BY <2>1, Zenon
<1>3. FoldLeft(Shift, d, list) = g[DOMAIN list]
  BY Zenon DEF FoldLeft, MapThenFoldSet, ShiftTurns
<1>4. FoldLeft(Doubled, l, list) = h[DOMAIN list]
  BY Zenon DEF FoldLeft, MapThenFoldSet, DoubledTurns
<1>5. DOMAIN list = 1 .. q /\ \A i \in 1 .. q : list[i] \in {0, 1}
  BY DEF BitList
<1> HIDE DEF g, h
<1>6. ASSUME NEW e \in SUBSET (1 .. q)
      PROVE  /\ g[e] = IF e = {} THEN d ELSE Shift(g[e \ {Max(e)}], list[Max(e)])
             /\ h[e] = IF e = {} THEN l ELSE Doubled(h[e \ {Max(e)}], list[Max(e)])
  BY <1>2, <1>5, Zenon DEF ShiftTurns, DoubledTurns
<1>7. 0 \in T
  <2>1. 1 .. 0 = {} /\ {} \in SUBSET (1 .. q) /\ n + 0 = n
    OBVIOUS
  <2>2. g[1 .. 0] = d /\ h[1 .. 0] = l
    BY <1>6, <2>1
  <2>3. QED
    BY <2>1, <2>2
<1>8. ASSUME NEW k \in Nat, k \in T PROVE k + 1 \in T
  <2>1. SUFFICES ASSUME k + 1 <= q
                 PROVE  SameAmount(g[1 .. k + 1], h[1 .. k + 1], n + (k + 1))
    OBVIOUS
  <2>2. SameAmount(g[1 .. k], h[1 .. k], n + k)
    BY <1>8, <2>1
  <2>3. /\ k + 1 \in Nat /\ k + 1 # 0 /\ (k + 1) - 1 = k /\ k + 1 \in 1 .. q
        /\ 1 .. k + 1 \in SUBSET (1 .. q)
    BY <2>1
  <2>4. 1 .. k + 1 # {} /\ Max(1 .. k + 1) = k + 1 /\ (1 .. k + 1) \ {k + 1} = 1 .. k
    BY <2>3, LastPlace
  <2>5. g[1 .. k + 1] = Shift(g[1 .. k], list[k + 1]) /\ h[1 .. k + 1] = Doubled(h[1 .. k], list[k + 1])
    BY <1>6, <2>3, <2>4
  <2>6. n + k \in Nat /\ n + k < AmountBytes * ByteBits /\ n + (k + 1) = (n + k) + 1
    <3>1. AmountBytes * ByteBits \in Nat
      BY DisplaySizes
    <3>2. QED
      BY <2>1, <3>1
  <2>7. SameAmount(Shift(g[1 .. k], list[k + 1]), Doubled(h[1 .. k], list[k + 1]), (n + k) + 1)
    BY <1>5, <2>2, <2>3, <2>6, BitShifted
  <2>8. QED
    BY <2>5, <2>6, <2>7
<1> HIDE DEF T
<1>9. Nat \subseteq T
  BY <1>7, <1>8, NaturalsIn
<1>10. SameAmount(g[1 .. q], h[1 .. q], n + q)
  BY <1>9 DEF T
<1>11. QED
  BY <1>3, <1>4, <1>5, <1>10

\* The bits of a byte are bits.
LEMMA BitsAre ==
  ASSUME NEW byte \in BytesSeen
  PROVE  BitList(Bits(byte), ByteBits)
<1>1. byte \in Nat
  BY AmountAssumption, TensAre DEF AmountAssumption
<1>2. ASSUME NEW j \in 1 .. ByteBits
      PROVE  (byte \div TwoTo[ByteBits - j]) % 2 \in {0, 1}
  <2>1. ByteBits - j \in Nat
    BY AmountAssumption DEF AmountAssumption
  <2>2. TwoTo[ByteBits - j] \in Nat \ {0}
    BY <2>1, TensAre
  <2>3. byte \div TwoTo[ByteBits - j] \in Int
    <3>1. \A t \in Nat \ {0} : byte \div t \in Int
      BY <1>1, DivMod
    <3>2. QED
      BY <2>2, <3>1
  <2>4. \A x \in Int : x % 2 \in {0, 1}
    OBVIOUS
  <2>5. QED
    BY <2>3, <2>4
<1>3. QED
  BY <1>2 DEF BitList, Bits

-----------------------------------------------------------------------------
\* The text of the digits.

\* The ends of a set of naturals below a bound.
LEMMA EndsOfSet ==
  ASSUME NEW b \in Nat, NEW T, T \subseteq 0 .. b - 1, T # {}
  PROVE  /\ Min(T) \in T /\ \A x \in T : Min(T) <= x
         /\ Max(T) \in T /\ \A x \in T : Max(T) >= x
<1>1. \A x \in T : x \in Nat /\ b - x \in Nat /\ x \in Int
  OBVIOUS
<1>2. \E x \in T : \A y \in T : x =< y
  <2>1. T \subseteq Nat
    BY <1>1
  <2>2. QED
    BY <2>1, LeastNatural
<1>3. \E x \in T : \A y \in T : x >= y
  <2> DEFINE U == {b - x : x \in T}
  <2>1. U \subseteq Nat /\ U # {}
    BY <1>1
  <2> HIDE DEF U
  <2>2. PICK u \in U : \A z \in U : u <= z
    BY <2>1, LeastNatural
  <2>3. PICK x \in T : u = b - x
    BY <2>2 DEF U
  <2>4. \A y \in T : b - y \in U
    BY DEF U
  <2>5. \A y \in T : x >= y
    BY <1>1, <2>2, <2>3, <2>4
  <2>6. QED
    BY <2>5
<1>4. Min(T) \in T /\ \A x \in T : Min(T) =< x
  BY <1>2 DEF Min
<1>5. Max(T) \in T /\ \A x \in T : Max(T) >= x
  BY <1>3 DEF Max
<1>6. QED
  BY <1>4, <1>5

\* A text of n coins and m decimals is read off the scratch.
ReadOff(coins, decimals, n, m) ==
  /\ n \in 1 .. CoinDigits /\ m \in 0 .. DecimalDigits
  /\ coins \in [1 .. n -> 0 .. 9] /\ decimals \in [1 .. m -> 0 .. 9]
  /\ \A k \in 1 .. CoinDigits :
       scratch[k - 1] = IF k > CoinDigits - n THEN coins[k - CoinDigits + n] ELSE 0
  /\ \A j \in 1 .. DecimalDigits :
       scratch[CoinDigits + j - 1] = IF j <= m THEN decimals[j] ELSE 0
  /\ n > 1 => coins[1] # 0
  /\ m > 0 => decimals[m] # 0

\* The coins printed.
LEMMA CoinsReadOff ==
  ASSUME scratch \in Scratches
  PROVE  \E n \in 1 .. CoinDigits :
           /\ Coins \in [1 .. n -> 0 .. 9]
           /\ \A k \in 1 .. CoinDigits :
                scratch[k - 1] = IF k > CoinDigits - n THEN Coins[k - CoinDigits + n] ELSE 0
           /\ n > 1 => Coins[1] # 0
<1> DEFINE C == CoinDigits
           nonzero == {k \in 0 .. C - 1 : scratch[k] # 0}
<1>1. C \in Nat \ {0} /\ \A k \in 0 .. C - 1 : scratch[k] \in 0 .. 9
  BY DisplaySizes DEF Positions, Scratches
<1>2. CASE nonzero = {}
  <2>1. Coins = <<0>>
    BY <1>2 DEF Coins
  <2>2. Coins \in [1 .. 1 -> 0 .. 9] /\ Coins[1] = 0
    BY <2>1
  <2>3. \A k \in 1 .. C : k - 1 \in 0 .. C - 1 /\ (k > C - 1 => k - C + 1 = 1)
    BY <1>1
  <2>4. \A k \in 0 .. C - 1 : scratch[k] = 0
    BY <1>2
  <2>5. \A k \in 1 .. C : scratch[k - 1] = IF k > C - 1 THEN Coins[k - C + 1] ELSE 0
    BY <2>2, <2>3, <2>4
  <2>6. 1 \in 1 .. C
    BY <1>1
  <2>7. QED
    BY <2>2, <2>5, <2>6
<1>3. CASE nonzero # {}
  <2> DEFINE a == Min(nonzero)
             n == C - a
  <2>1. a \in nonzero /\ \A x \in nonzero : a <= x
    <3>1. nonzero \subseteq 0 .. C - 1 /\ C \in Nat
      BY <1>1
    <3> HIDE DEF nonzero
    <3>2. QED
      BY <1>3, <3>1, EndsOfSet
  <2>2. Coins = [k \in 1 .. n |-> scratch[a + k - 1]]
    BY <1>3 DEF Coins
  <2>3. a \in 0 .. C - 1 /\ scratch[a] # 0
    BY <2>1
  <2>4. \A k \in 0 .. C - 1 : k < a => scratch[k] = 0
    <3>1. TAKE k \in 0 .. C - 1
    <3>2. scratch[k] # 0 => a <= k
      BY <2>1
    <3>3. QED
      BY <2>3, <3>2
  <2> HIDE DEF a, nonzero
  <2>5. n \in 1 .. C /\ a = C - n /\ n \in Nat
    BY <1>1, <2>3
  <2>6. Coins \in [1 .. n -> 0 .. 9]
    <3>1. \A k \in 1 .. n : a + k - 1 \in 0 .. C - 1
      BY <1>1, <2>3
    <3>2. QED
      BY <1>1, <2>2, <3>1
  <2>7. ASSUME NEW k \in 1 .. C
        PROVE  scratch[k - 1] = IF k > C - n THEN Coins[k - C + n] ELSE 0
    <3>1. CASE k > C - n
      <4>1. k - C + n \in 1 .. n /\ a + (k - C + n) - 1 = k - 1
        BY <1>1, <2>3, <3>1
      <4>2. QED
        BY <2>2, <3>1, <4>1
    <3>2. CASE ~(k > C - n)
      <4>1. k - 1 \in 0 .. C - 1 /\ k - 1 < a
        BY <1>1, <2>3, <3>2
      <4>2. QED
        BY <2>4, <3>2, <4>1
    <3>3. QED
      BY <3>1, <3>2
  <2>8. Coins[1] # 0
    <3>1. 1 \in 1 .. n /\ a + 1 - 1 = a
      BY <1>1, <2>3, <2>5
    <3>2. QED
      BY <2>2, <2>3, <3>1
  <2> HIDE DEF n
  <2>9. QED
    BY <2>5, <2>6, <2>7, <2>8
<1>4. QED
  BY <1>2, <1>3

\* The decimals printed.
LEMMA DecimalsReadOff ==
  ASSUME scratch \in Scratches
  PROVE  \E m \in 0 .. DecimalDigits :
           /\ Decimals \in [1 .. m -> 0 .. 9]
           /\ \A j \in 1 .. DecimalDigits :
                scratch[CoinDigits + j - 1] = IF j <= m THEN Decimals[j] ELSE 0
           /\ m > 0 => Decimals[m] # 0
<1> DEFINE C == CoinDigits
           D == DecimalDigits
           nonzero == {j \in 0 .. D - 1 : scratch[C + j] # 0}
           m == IF nonzero = {} THEN 0 ELSE Max(nonzero) + 1
<1>1. /\ C \in Nat \ {0} /\ D \in Nat \ {0}
      /\ \A j \in 1 .. D : scratch[C + j - 1] \in 0 .. 9
  <2>1. /\ C \in Nat \ {0} /\ D \in Nat \ {0} /\ SCRATCH_SIZE = C + D
    BY DisplaySizes
  <2>2. \A j \in 1 .. D : C + j - 1 \in Positions
    BY <2>1 DEF Positions
  <2>3. QED
    BY <2>1, <2>2 DEF Scratches
<1>2. Decimals = [j \in 1 .. m |-> scratch[C + j - 1]]
  BY DEF Decimals
<1>3. /\ m \in 0 .. D /\ \A j \in 1 .. D : j > m => scratch[C + j - 1] = 0
      /\ m > 0 => scratch[C + m - 1] # 0
  <2>1. CASE nonzero = {}
    <3>1. \A j \in 0 .. D - 1 : scratch[C + j] = 0
      BY <2>1
    <3>2. \A j \in 1 .. D : j - 1 \in 0 .. D - 1 /\ C + (j - 1) = C + j - 1
      BY <1>1
    <3>3. \A j \in 1 .. D : scratch[C + j - 1] = 0
      BY <3>1, <3>2
    <3>4. QED
      BY <1>1, <2>1, <3>3
  <2>2. CASE nonzero # {}
    <3> DEFINE a == Max(nonzero)
    <3>1. a \in nonzero /\ \A x \in nonzero : a >= x
      <4>1. nonzero \subseteq 0 .. D - 1 /\ D \in Nat
        BY <1>1
      <4> HIDE DEF nonzero
      <4>2. QED
        BY <2>2, <4>1, EndsOfSet
    <3>2. m = a + 1
      BY <2>2
    <3>3. a \in 0 .. D - 1 /\ scratch[C + a] # 0
      BY <3>1
    <3>4. \A j \in 0 .. D - 1 : j > a => scratch[C + j] = 0
      <4>1. TAKE j \in 0 .. D - 1
      <4>2. scratch[C + j] # 0 => a >= j
        BY <3>1
      <4>3. QED
        BY <3>3, <4>2
    <3> HIDE DEF a, nonzero, m
    <3>5. \A j \in 1 .. D : j > m => scratch[C + j - 1] = 0
      <4>1. TAKE j \in 1 .. D
      <4>2. j - 1 \in 0 .. D - 1 /\ C + (j - 1) = C + j - 1 /\ (j > m => j - 1 > a)
        BY <1>1, <3>2, <3>3
      <4>3. QED
        BY <3>4, <4>2
    <3>6. C + m - 1 = C + a /\ m \in 0 .. D
      BY <1>1, <3>2, <3>3
    <3>7. QED
      BY <3>3, <3>5, <3>6
  <2>3. QED
    BY <2>1, <2>2
<1> HIDE DEF m
<1>4. Decimals \in [1 .. m -> 0 .. 9]
  <2>1. \A j \in 1 .. m : j \in 1 .. D
    BY <1>1, <1>3
  <2>2. QED
    BY <1>1, <1>2, <2>1
<1>5. ASSUME NEW j \in 1 .. D
      PROVE  scratch[C + j - 1] = IF j <= m THEN Decimals[j] ELSE 0
  <2>1. CASE j <= m
    <3>1. j \in 1 .. m
      BY <1>1, <1>3, <2>1
    <3>2. QED
      BY <1>2, <2>1, <3>1
  <2>2. CASE ~(j <= m)
    <3>1. j > m
      BY <1>3, <2>2
    <3>2. QED
      BY <1>3, <2>2, <3>1
  <2>3. QED
    BY <2>1, <2>2
<1>6. m > 0 => Decimals[m] # 0
  <2>1. m > 0 => m \in 1 .. m
    BY <1>3
  <2>2. QED
    BY <1>2, <1>3, <2>1
<1>7. QED
  BY <1>3, <1>4, <1>5, <1>6

\* Two lists, one after the other.
LEMMA Followed ==
  ASSUME NEW E, NEW a \in Seq(E), NEW b \in Seq(E)
  PROVE  /\ a \o b \in Seq(E) /\ Len(a \o b) = Len(a) + Len(b)
         /\ \A i \in 1 .. Len(a) : (a \o b)[i] = a[i]
         /\ \A j \in 1 .. Len(b) : (a \o b)[Len(a) + j] = b[j]
<1> DEFINE k == Len(a)
           h == Len(b)
<1>1. /\ a \o b \in Seq(E) /\ Len(a \o b) = k + h
      /\ \A i \in 1 .. k + h : (a \o b)[i] = IF i <= k THEN a[i] ELSE b[i - k]
  BY ConcatProperties
<1>2. k \in Nat /\ h \in Nat
  BY LenProperties
<1> HIDE DEF k, h
<1>3. \A i \in 1 .. k : i \in 1 .. k + h /\ i <= k
  BY <1>2
<1>4. \A j \in 1 .. h : k + j \in 1 .. k + h /\ ~(k + j <= k) /\ (k + j) - k = j
  BY <1>2
<1>5. \A i \in 1 .. k : (a \o b)[i] = a[i]
  BY <1>1, <1>3
<1>6. \A j \in 1 .. h : (a \o b)[k + j] = b[j]
  BY <1>1, <1>4
<1>7. QED
  BY <1>1, <1>5, <1>6 DEF k, h

\* A text of n coins and m decimals, a point between them when there are any.
Printed(text, n, m) ==
  /\ text \in Seq(0 .. 10) /\ Len(text) = IF m = 0 THEN n ELSE n + 1 + m
  /\ \A i \in 1 .. n : text[i] = Coins[i]
  /\ m > 0 => text[n + 1] = Point
  /\ \A j \in 1 .. m : text[n + 1 + j] = Decimals[j]

\* What is written is that text.
LEMMA TextIsPrinted ==
  ASSUME NEW n, NEW m, ReadOff(Coins, Decimals, n, m)
  PROVE  Printed(Displayable, n, m)
<1> DEFINE E == 0 .. 10
<1>1. /\ n \in Nat /\ n >= 1 /\ m \in Nat
      /\ Coins \in [1 .. n -> 0 .. 9] /\ Decimals \in [1 .. m -> 0 .. 9]
  <2>1. CoinDigits \in Nat /\ DecimalDigits \in Nat
    BY DisplaySizes
  <2>2. QED
    BY <2>1 DEF ReadOff
<1>2. /\ Coins \in Seq(E) /\ Len(Coins) = n /\ Decimals \in Seq(E) /\ Len(Decimals) = m
      /\ <<Point>> \in Seq(E) /\ Len(<<Point>>) = 1 /\ <<Point>>[1] = Point
  BY <1>1 DEF Point
<1>3. Printed(Displayable, n, m)
  <2>1. CASE m = 0
    <3>1. Decimals = <<>>
      BY <1>2, <2>1, EmptySeq
    <3>2. Displayable = Coins
      BY <3>1 DEF Displayable
    <3>3. QED
      BY <1>1, <1>2, <2>1, <3>2 DEF Printed
  <2>2. CASE m # 0
    <3>1. Decimals # <<>>
      BY <1>2, <2>2
    <3>2. Displayable = (Coins \o <<Point>>) \o Decimals
      BY <3>1 DEF Displayable
    <3> DEFINE h == Coins \o <<Point>>
    <3>3. /\ h \in Seq(E) /\ Len(h) = n + 1
          /\ \A i \in 1 .. n : h[i] = Coins[i]
          /\ h[n + 1] = Point
      <4>1. /\ h \in Seq(E) /\ Len(h) = Len(Coins) + Len(<<Point>>)
            /\ \A i \in 1 .. Len(Coins) : h[i] = Coins[i]
            /\ \A j \in 1 .. Len(<<Point>>) : h[Len(Coins) + j] = <<Point>>[j]
        <5> HIDE DEF E
        <5>1. QED
          BY <1>2, Followed
      <4>2. 1 \in 1 .. Len(<<Point>>)
        BY <1>2
      <4> HIDE DEF h
      <4>3. QED
        BY <1>2, <4>1, <4>2
    <3>4. /\ Displayable \in Seq(E) /\ Len(Displayable) = Len(h) + Len(Decimals)
          /\ \A i \in 1 .. Len(h) : Displayable[i] = h[i]
          /\ \A j \in 1 .. Len(Decimals) : Displayable[Len(h) + j] = Decimals[j]
      <4>1. Displayable = h \o Decimals
        BY <3>2
      <4>2. h \in Seq(E) /\ Decimals \in Seq(E)
        BY <1>2, <3>3
      <4> HIDE DEF h, E
      <4>3. /\ h \o Decimals \in Seq(E) /\ Len(h \o Decimals) = Len(h) + Len(Decimals)
            /\ \A i \in 1 .. Len(h) : (h \o Decimals)[i] = h[i]
            /\ \A j \in 1 .. Len(Decimals) : (h \o Decimals)[Len(h) + j] = Decimals[j]
        BY <4>2, Followed
      <4>4. QED
        BY <4>1, <4>3
    <3> HIDE DEF h
    <3>5. \A i \in 1 .. n + 1 : Displayable[i] = h[i]
      BY <3>3, <3>4
    <3>6. \A i \in 1 .. n : i \in 1 .. n + 1
      BY <1>1
    <3>7. \A i \in 1 .. n : Displayable[i] = Coins[i]
      BY <3>3, <3>5, <3>6
    <3>8. Displayable[n + 1] = Point
      BY <1>1, <3>3, <3>5
    <3>9. \A j \in 1 .. m : Displayable[n + 1 + j] = Decimals[j]
      BY <1>2, <3>3, <3>4
    <3>10. Len(Displayable) = n + 1 + m
      BY <1>2, <3>3, <3>4
    <3>11. QED
      BY <2>2, <3>4, <3>7, <3>8, <3>9, <3>10 DEF Printed
  <2>3. QED
    BY <2>1, <2>2
<1>4. QED
  BY <1>3

\* The coins and the decimals of a text are found again.
LEMMA TextParts ==
  ASSUME NEW n, NEW m, ReadOff(Coins, Decimals, n, m), Printed(shown, n, m)
  PROVE  CoinsShown = n /\ DecimalsShown = m
<1> DEFINE t == shown \o <<Point>>
           I == {i \in 1 .. Len(t) : t[i] = Point}
           E == 0 .. 10
<1>1. /\ n \in Nat /\ n >= 1 /\ m \in Nat
      /\ Coins \in [1 .. n -> 0 .. 9] /\ Decimals \in [1 .. m -> 0 .. 9]
  <2>1. CoinDigits \in Nat /\ DecimalDigits \in Nat
    BY DisplaySizes
  <2>2. QED
    BY <2>1 DEF ReadOff
<1>2. /\ Coins \in Seq(E) /\ Len(Coins) = n /\ Decimals \in Seq(E) /\ Len(Decimals) = m
      /\ <<Point>> \in Seq(E) /\ Len(<<Point>>) = 1 /\ <<Point>>[1] = Point
  BY <1>1 DEF Point
<1>3. /\ shown \in Seq(E) /\ Len(shown) = IF m = 0 THEN n ELSE n + 1 + m
      /\ \A i \in 1 .. n : shown[i] = Coins[i]
      /\ m > 0 => shown[n + 1] = Point
      /\ \A j \in 1 .. m : shown[n + 1 + j] = Decimals[j]
  BY DEF Printed
<1>4. /\ Len(shown) \in Nat /\ Len(shown) >= n /\ (m > 0 => Len(shown) >= n + 1)
      /\ (m = 0 => Len(shown) = n) /\ (m > 0 => Len(shown) = n + 1 + m)
  BY <1>1, <1>3
<1>5. /\ t \in Seq(E) /\ Len(t) = Len(shown) + 1
      /\ \A i \in 1 .. Len(shown) : t[i] = shown[i]
      /\ t[Len(shown) + 1] = Point
  <2>1. /\ t \in Seq(E) /\ Len(t) = Len(shown) + Len(<<Point>>)
        /\ \A i \in 1 .. Len(shown) : t[i] = shown[i]
        /\ \A j \in 1 .. Len(<<Point>>) : t[Len(shown) + j] = <<Point>>[j]
    <3> DEFINE mark == <<Point>>
               text == shown
    <3>1. text \in Seq(E) /\ mark \in Seq(E)
      BY <1>2, <1>3
    <3> HIDE DEF E, mark, text
    <3>2. /\ text \o mark \in Seq(E) /\ Len(text \o mark) = Len(text) + Len(mark)
          /\ \A i \in 1 .. Len(text) : (text \o mark)[i] = text[i]
          /\ \A j \in 1 .. Len(mark) : (text \o mark)[Len(text) + j] = mark[j]
      BY <3>1, Followed
    <3>3. QED
      BY <3>2 DEF mark, text
  <2>2. 1 \in 1 .. Len(<<Point>>)
    BY <1>2
  <2> HIDE DEF t
  <2>3. QED
    BY <1>2, <2>1, <2>2
<1>6. \A i \in 1 .. n : t[i] # Point
  <2>1. TAKE i \in 1 .. n
  <2>2. i \in 1 .. Len(shown)
    BY <1>1, <1>4
  <2>3. Coins[i] # Point
    BY <1>1 DEF Point
  <2>4. QED
    BY <1>3, <1>5, <2>2, <2>3
<1>7. n + 1 \in I
  <2>1. n + 1 \in 1 .. Len(t)
    BY <1>1, <1>4, <1>5
  <2>2. t[n + 1] = Point
    <3> HIDE DEF t
    <3>1. CASE m = 0
      BY <1>4, <1>5, <3>1
    <3>2. CASE m > 0
      <4>1. n + 1 \in 1 .. Len(shown)
        BY <1>1, <1>4, <3>2
      <4>2. QED
        BY <1>3, <1>5, <3>2, <4>1
    <3>3. QED
      BY <1>1, <3>1, <3>2
  <2>3. QED
    BY <2>1, <2>2
<1>8. Min(I) = n + 1
  <2>1. I \subseteq 0 .. (Len(t) + 1) - 1 /\ Len(t) + 1 \in Nat
    BY <1>4, <1>5
  <2>2. Min(I) \in I /\ Min(I) <= n + 1
    <3> HIDE DEF I, t
    <3>1. QED
      BY <1>7, <2>1, EndsOfSet
  <2>3. ~(Min(I) \in 1 .. n)
    BY <1>6, <2>2
  <2>4. Min(I) \in 1 .. Len(t) /\ Len(t) \in Nat
    <3>1. Len(t) \in Nat
      BY <1>4, <1>5
    <3>2. \A x \in I : x \in 1 .. Len(t)
      OBVIOUS
    <3> HIDE DEF I, t
    <3>3. QED
      BY <2>2, <3>1, <3>2
  <2> HIDE DEF I, t
  <2>5. QED
    BY <1>1, <2>2, <2>3, <2>4
<1>9. CoinsShown = n
  <2>1. CoinsShown = (IF I # {} THEN Min(I) ELSE 0) - 1
    BY DEF CoinsShown, SelectInSeq
  <2> HIDE DEF I, t
  <2>2. QED
    BY <1>1, <1>7, <1>8, <2>1
<1>10. DecimalsShown = m
  <2>1. CASE m = 0
    BY <1>1, <1>4, <1>9, <2>1 DEF DecimalsShown
  <2>2. CASE m > 0
    BY <1>1, <1>4, <1>9, <2>2 DEF DecimalsShown
  <2>3. QED
    BY <1>1, <2>1, <2>2
<1>11. QED
  BY <1>9, <1>10

\* The text read back is the amount.
LEMMA TextIsExact ==
  ASSUME scratch \in Scratches, \A k \in Positions : scratch[k] = Digit(k), shown = Displayable
  PROVE  DisplayExact
<1> DEFINE C == CoinDigits
           D == DecimalDigits
<1>1. PICK n \in 1 .. C :
        /\ Coins \in [1 .. n -> 0 .. 9]
        /\ \A k \in 1 .. C : scratch[k - 1] = IF k > C - n THEN Coins[k - C + n] ELSE 0
        /\ n > 1 => Coins[1] # 0
  BY CoinsReadOff
<1>2. PICK m \in 0 .. D :
        /\ Decimals \in [1 .. m -> 0 .. 9]
        /\ \A j \in 1 .. D : scratch[C + j - 1] = IF j <= m THEN Decimals[j] ELSE 0
        /\ m > 0 => Decimals[m] # 0
  BY DecimalsReadOff
<1>3. C \in Nat \ {0} /\ D \in Nat \ {0} /\ SCRATCH_SIZE = C + D /\ n \in Nat /\ m \in Nat /\ n >= 1
  BY <1>1, <1>2, DisplaySizes
<1>4. ReadOff(Coins, Decimals, n, m)
  BY <1>1, <1>2 DEF ReadOff
<1>5. /\ CoinsShown = n /\ DecimalsShown = m
      /\ Len(shown) = IF m = 0 THEN n ELSE n + 1 + m
      /\ \A i \in 1 .. n : shown[i] = Coins[i]
      /\ \A j \in 1 .. m : shown[n + 1 + j] = Decimals[j]
  <2>1. Printed(shown, n, m)
    BY <1>4, TextIsPrinted
  <2>2. QED
    BY <1>4, <2>1, TextParts DEF Printed
<1>6. ASSUME NEW k \in 1 .. C
      PROVE  Digit(k - 1) = IF k > C - n THEN shown[k - C + n] ELSE 0
  <2>1. k - 1 \in Positions
    BY <1>3 DEF Positions
  <2>2. k > C - n => k - C + n \in 1 .. n
    BY <1>3
  <2>3. QED
    BY <1>1, <1>5, <2>1, <2>2
<1>7. ASSUME NEW j \in 1 .. D
      PROVE  Digit(C + j - 1) = IF j <= m THEN shown[n + 1 + j] ELSE 0
  <2>1. C + j - 1 \in Positions
    BY <1>3 DEF Positions
  <2>2. j <= m => j \in 1 .. m
    BY <1>3
  <2>3. QED
    BY <1>2, <1>5, <2>1, <2>2
<1>8. n > 1 => shown[1] # 0
  <2>1. 1 \in 1 .. n
    BY <1>3
  <2>2. QED
    BY <1>1, <1>5, <2>1
<1>9. m > 0 => shown[Len(shown)] # 0
  <2>1. m > 0 => m \in 1 .. m /\ Len(shown) = n + 1 + m
    BY <1>3, <1>5
  <2>2. QED
    BY <1>2, <1>5, <2>1
<1>10. n < Len(shown) => m > 0
  BY <1>3, <1>5
<1>11. QED
  BY <1>5, <1>6, <1>7, <1>8, <1>9, <1>10 DEF DisplayExact

-----------------------------------------------------------------------------
\* The invariant of the display.

DisplayInv ==
  /\ count \in 0 .. AmountBytes
  /\ SameAmount([scratch |-> scratch, smin |-> smin], value, count * ByteBits)
  /\ shown # Unformatted => count = AmountBytes /\ shown = Displayable

\* Nothing shifted in yet.
LEMMA ZerosFirst ==
  SameAmount([scratch |-> [k \in Positions |-> 0], smin |-> SCRATCH_SIZE - 2],
             [i \in Limbs |-> 0], 0 * ByteBits)
<1> DEFINE d == [scratch |-> [k \in Positions |-> 0], smin |-> SCRATCH_SIZE - 2]
           l == [i \in Limbs |-> 0]
           v == [k \in 0 .. SCRATCH_SIZE |-> 0]
<1>1. SCRATCH_SIZE \in Nat /\ SCRATCH_SIZE >= 2 /\ ByteBits \in Nat /\ Unit \in Nat \ {0}
  BY DisplaySizes
<1>2. d.scratch = [k \in Positions |-> 0] /\ d.smin = SCRATCH_SIZE - 2
  OBVIOUS
<1> HIDE DEF d
<1>3. WindowHolds(d)
  BY <1>1, <1>2 DEF WindowHolds, Scratches
<1>4. l \in [Limbs -> 0 .. Unit - 1]
  BY <1>1
<1>5. ASSUME NEW k \in Positions PROVE d.scratch[k] = DigitAt(l, k)
  <2> DEFINE q == SCRATCH_SIZE - 1 - k
  <2>1. q \in 0 .. SCRATCH_SIZE - 1
    BY <1>1 DEF Positions
  <2>2. q \div DecimalDigits \in Limbs /\ q % DecimalDigits \in Nat
    BY <2>1, PlaceIs, DisplaySizes
  <2>3. l[q \div DecimalDigits] = 0
    BY <2>2
  <2>4. \A t \in Nat \ {0} : 0 \div t = 0
    <3>1. TAKE t \in Nat \ {0}
    <3>2. 0 * t = 0 /\ 0 \in 0 .. t - 1 /\ 0 * t + 0 = 0
      OBVIOUS
    <3>3. (0 * t + 0) \div t = 0
      BY <3>2, DivisionIs
    <3>4. QED
      BY <3>2, <3>3
  <2>5. TenTo[q % DecimalDigits] \in Nat \ {0}
    BY <2>2, TensAre
  <2>6. DigitOf(0, q % DecimalDigits) = 0
    BY <2>4, <2>5 DEF DigitOf
  <2>7. DigitAt(l, k) = 0
    BY <2>3, <2>6 DEF DigitAt
  <2>8. QED
    BY <1>2, <2>7
<1>6. NumberOf(d.scratch, v) /\ v[SCRATCH_SIZE] < TwoTo[0 * ByteBits]
  <2>1. \A k \in Positions : k \in 0 .. SCRATCH_SIZE /\ k + 1 \in 0 .. SCRATCH_SIZE
    BY <1>1 DEF Positions
  <2>2. 0 \in 0 .. SCRATCH_SIZE /\ SCRATCH_SIZE \in 0 .. SCRATCH_SIZE /\ 0 * ByteBits = 0
    BY <1>1
  <2>3. NumberOf(d.scratch, v)
    BY <1>2, <2>1, <2>2 DEF NumberOf
  <2>4. v[SCRATCH_SIZE] = 0 /\ TwoTo[0 * ByteBits] = 1
    BY <2>2, TensAre
  <2> HIDE DEF v
  <2>5. QED
    BY <2>3, <2>4
<1>7. QED
  BY <1>3, <1>4, <1>5, <1>6 DEF SameAmount, d

\* What the display starts from.
LEMMA DisplayStarts ==
  DisplayInit => DisplayInv
<1>1. 0 \in 0 .. AmountBytes
  BY DisplaySizes
<1>2. QED
  BY <1>1, ZerosFirst DEF DisplayInit, DisplayInv

\* A byte more.
LEMMA ByteShifted ==
  ASSUME DisplayInv, NEW byte \in BytesSeen, ShiftByte(byte)
  PROVE  DisplayInv'
<1> DEFINE d == [scratch |-> scratch, smin |-> smin]
           e == FoldLeft(Shift, d, Bits(byte))
<1>1. count \in Nat /\ count < AmountBytes /\ count + 1 \in 0 .. AmountBytes /\ count' = count + 1
  BY DisplaySizes DEF DisplayInv, ShiftByte
<1>2. shown = Unformatted /\ shown' = shown
  BY <1>1 DEF DisplayInv, ShiftByte
<1>3. d \in DigitRows
  <2>1. scratch \in Scratches /\ smin \in 0 .. SCRATCH_SIZE - 2
    BY DEF DisplayInv, SameAmount, WindowHolds
  <2>2. scratch \in [Positions -> Int] /\ smin \in Int
    BY <2>1, DisplaySizes DEF Scratches
  <2>3. QED
    BY <2>2 DEF DigitRows
<1>4. SameAmount(d, value, count * ByteBits)
  BY DEF DisplayInv
<1>5. /\ count * ByteBits \in Nat /\ count * ByteBits + ByteBits <= AmountBytes * ByteBits
      /\ (count + 1) * ByteBits = count * ByteBits + ByteBits
  BY <1>1, DisplaySizes, Multiples
<1>6. BitList(Bits(byte), ByteBits) /\ ByteBits \in Nat
  BY BitsAre, DisplaySizes
<1> HIDE DEF d
<1>7. SameAmount(e, FoldLeft(Doubled, value, Bits(byte)), count * ByteBits + ByteBits)
  BY <1>3, <1>4, <1>5, <1>6, ListShifted
<1>8. scratch' = e.scratch /\ smin' = e.smin /\ value' = FoldLeft(Doubled, value, Bits(byte))
  BY DEF ShiftByte, d
<1> HIDE DEF e
<1>9. SameAmount([scratch |-> scratch', smin |-> smin'], value', count' * ByteBits)
  BY <1>1, <1>5, <1>7, <1>8 DEF SameAmount, WindowHolds
<1>10. QED
  BY <1>1, <1>2, <1>9 DEF DisplayInv

\* Every step of the display keeps it.
LEMMA DisplayStep ==
  DisplayInv /\ [DisplayNext]_displayVars => DisplayInv'
<1> SUFFICES ASSUME DisplayInv, [DisplayNext]_displayVars PROVE DisplayInv'
  OBVIOUS
<1>1. CASE \E byte \in BytesSeen : ShiftByte(byte)
  BY <1>1, ByteShifted
<1>2. CASE Display
  <2>1. UNCHANGED <<count, scratch, smin, value>> /\ count = AmountBytes
    BY <1>2 DEF Display
  <2>2. Displayable' = Displayable
    BY <2>1 DEF Displayable, Coins, Decimals
  <2>3. shown' = Displayable'
    BY <1>2, <2>2 DEF Display
  <2>4. QED
    BY <2>1, <2>3 DEF DisplayInv
<1>3. CASE NextAmount
  <2>1. 0 \in 0 .. AmountBytes
    BY DisplaySizes
  <2>2. QED
    BY <1>3, <2>1, ZerosFirst DEF NextAmount, DisplayInv
<1>4. CASE UNCHANGED displayVars
  <2>1. Displayable' = Displayable
    BY <1>4 DEF Displayable, Coins, Decimals, displayVars
  <2>2. QED
    BY <1>4, <2>1 DEF DisplayInv, displayVars
<1>5. QED
  BY <1>1, <1>2, <1>3, <1>4 DEF DisplayNext

\* The text on the screen, read back, is the amount to the last atom, for every
\* amount of AmountBytes bytes (btchip_bcd.c).
THEOREM AmountsAreShown == DisplaySpec => []DisplayExact
<1>1. DisplayInv => DisplayExact
  <2>1. SUFFICES ASSUME DisplayInv PROVE DisplayExact
    OBVIOUS
  <2>2. CASE shown = Unformatted
    BY <2>2 DEF DisplayExact
  <2>3. CASE shown # Unformatted
    <3>1. shown = Displayable
      BY <2>1, <2>3 DEF DisplayInv
    <3>2. scratch \in Scratches /\ \A k \in Positions : scratch[k] = Digit(k)
      BY <2>1 DEF DisplayInv, SameAmount, WindowHolds, Digit
    <3>3. QED
      BY <3>1, <3>2, TextIsExact
  <2>4. QED
    BY <2>2, <2>3
<1>2. QED
  BY <1>1, DisplayStarts, DisplayStep, PTL DEF DisplaySpec
=============================================================================
