--------------------------- MODULE Base58Proofs ---------------------------
(***************************************************************************)
(* The conversions of base 58: the digits are the bytes read so far, and   *)
(* what is encoded is decoded to the same, for inputs of every length, any *)
(* two bases, and any size of the output that is large enough (RoomHolds,  *)
(* which RoomOfTheCode shows of the numbers of the code).                  *)
(***************************************************************************)
EXTENDS Base58, Induction, SequenceTheorems

-----------------------------------------------------------------------------
\* Powers of the two bases, and the room for the digits.

DigitPower[n \in Nat] == IF n = 0 THEN 1 ELSE DigitBase * DigitPower[n - 1]
BytePower[n \in Nat] == IF n = 0 THEN 1 ELSE ByteBase * BytePower[n - 1]

\* The constants of the conversions.
LEMMA Bases ==
  /\ DigitBase \in Nat \ {0, 1} /\ DigitBase \in Nat \ {0} /\ DigitBase \in Int
  /\ ByteBase \in Nat \ {0, 1} /\ ByteBase \in Nat \ {0} /\ ByteBase \in Int
  /\ DigitBase < ByteBase
  /\ Per \in Nat /\ Of \in Nat \ {0} /\ Of <= Per
<1>1. /\ DigitBase \in Nat \ {0, 1} /\ ByteBase \in Nat \ 0 .. DigitBase
      /\ Per \in Nat /\ Of \in Nat \ {0} /\ Of <= Per
  BY BaseAssumption
<1>2. QED
  BY <1>1

\* They are powers.
LEMMA BasePowers == PowersOf(DigitPower, DigitBase) /\ PowersOf(BytePower, ByteBase)
<1>1. PowersOf(DigitPower, DigitBase)
  <2>1. \E f : PowersOf(f, DigitBase)
    BY PowersExist, Bases
  <2>2. DigitPower = CHOOSE f : PowersOf(f, DigitBase)
    BY Zenon DEF DigitPower, PowersOf
  <2>3. QED
    BY <2>1, <2>2
<1>2. PowersOf(BytePower, ByteBase)
  <2>1. \E f : PowersOf(f, ByteBase)
    BY PowersExist, Bases
  <2>2. BytePower = CHOOSE f : PowersOf(f, ByteBase)
    BY Zenon DEF BytePower, PowersOf
  <2>3. QED
    BY <2>1, <2>2
<1>3. QED
  BY <1>1, <1>2

\* One by one.
LEMMA BasePowersStep ==
  /\ DigitPower[0] = 1 /\ BytePower[0] = 1
  /\ \A n \in Nat : /\ DigitPower[n] \in Nat \ {0} /\ DigitPower[n + 1] = DigitBase * DigitPower[n]
                    /\ BytePower[n] \in Nat \ {0} /\ BytePower[n + 1] = ByteBase * BytePower[n]
BY Bases, BasePowers, PowersStep

\* Per / Of digits for a byte are enough: some number q of bytes fits p digits, and p / q is
\* no more than that.
RoomHolds ==
  \E q \in Nat \ {0}, p \in Nat : BytePower[q] <= DigitPower[p] /\ p * Of <= Per * q

\* The digits reserved for n bytes, but for the one of the rounding.
Places(n) == (n * Per) \div Of

\* Another byte, another place at least.
LEMMA PlacesGrow ==
  ASSUME NEW m \in Nat, NEW n \in Nat
  PROVE  /\ Places(m) \in Nat /\ Places(0) = 0
         /\ n * Per < Of * (Places(n) + 1)
         /\ m <= n => Places(m) <= Places(n)
         /\ m < n => Places(m) + 1 <= Places(n)
<1> DEFINE a == Places(m)
           b == Places(n)
           x == m * Per
           y == n * Per
<1>1. Of \in Nat \ {0} /\ Of \in Nat /\ Per \in Nat /\ Of <= Per
  BY Bases
<1>2. x \in Nat /\ y \in Nat
  BY <1>1
<1>3. /\ a \in Int /\ x % Of \in 0 .. Of - 1 /\ x = Of * a + (x % Of)
      /\ b \in Int /\ y % Of \in 0 .. Of - 1 /\ y = Of * b + (y % Of)
  BY <1>1, <1>2, DivMod DEF Places
<1>4. Of * a = a * Of /\ Of * b = b * Of /\ a * Of \in Int /\ b * Of \in Int
  BY <1>1, <1>3
<1>5. m <= n => x <= y
  BY <1>1, ProductsGrow
<1>6. m < n => x + Per <= y
  <2>1. SUFFICES ASSUME m < n PROVE x + Per <= y
    OBVIOUS
  <2>2. m + 1 <= n /\ m + 1 \in Nat /\ (m + 1) * Per = x + Per
    BY <1>1, <2>1
  <2>3. (m + 1) * Per <= y
    BY <1>1, <2>2, ProductsGrow
  <2>4. QED
    BY <2>2, <2>3
<1> DEFINE r == x % Of
           t == y % Of
           v == a * Of
           w == b * Of
<1>7. x = v + r /\ y = w + t /\ r \in 0 .. Of - 1 /\ t \in 0 .. Of - 1 /\ v \in Int /\ w \in Int
  BY <1>3, <1>4
<1> HIDE DEF r, t
<1>8. a >= 0
  <2> HIDE DEF a, x, y
  <2>1. a < 0 => v + Of <= 0 * Of /\ 0 * Of = 0
    BY <1>1, <1>3, Multiples
  <2> HIDE DEF v
  <2>2. QED
    BY <1>1, <1>2, <1>3, <1>7, <2>1
<1>9. m <= n => a <= b
  <2> HIDE DEF a, b, x, y
  <2>1. b < a => w + Of <= v
    BY <1>1, <1>3, Multiples
  <2> HIDE DEF v, w
  <2>2. QED
    BY <1>1, <1>2, <1>3, <1>5, <1>7, <2>1
<1>10. m < n => a + 1 <= b
  <2> HIDE DEF a, b, x, y
  <2>1. b <= a => w <= v
    BY <1>1, <1>3, Multiples
  <2> HIDE DEF v, w
  <2>2. QED
    BY <1>1, <1>2, <1>3, <1>6, <1>7, <2>1
<1>11. n * Per < Of * (Places(n) + 1)
  <2>1. Of * (b + 1) = w + Of
    BY <1>1, <1>3
  <2> HIDE DEF b, w, y
  <2>2. y < Of * (b + 1)
    BY <1>1, <1>7, <2>1
  <2>3. QED
    BY <2>2 DEF b, y
<1>12. Places(0) = 0
  <2>1. 0 * Per = 0 /\ 0 * Of + 0 = 0 /\ 0 \in 0 .. Of - 1
    BY <1>1
  <2>2. (0 * Of + 0) \div Of = 0
    BY <1>1, <2>1, DivisionIs
  <2>3. QED
    BY <2>1, <2>2 DEF Places
<1>13. QED
  BY <1>3, <1>8, <1>9, <1>10, <1>11, <1>12

\* The digits reserved hold every number of n bytes.
LEMMA RoomEnough ==
  ASSUME RoomHolds, NEW n \in Nat
  PROVE  BytePower[n] < DigitPower[Places(n) + 1]
<1>1. PICK q \in Nat \ {0}, p \in Nat : BytePower[q] <= DigitPower[p] /\ p * Of <= Per * q
  BY DEF RoomHolds
<1> DEFINE d == Places(n) + 1
<1>2. d \in Nat /\ n * Per < Of * d /\ q \in Nat /\ q > 0
  BY PlacesGrow, <1>1
<1>3. /\ BytePower[n] \in Nat /\ DigitPower[d] \in Nat
      /\ Of \in Nat \ {0} /\ Of \in Nat /\ Per \in Nat
  BY <1>2, BasePowersStep, Bases
<1> HIDE DEF d
<1>4. SUFFICES ASSUME DigitPower[d] <= BytePower[n] PROVE FALSE
  BY <1>3 DEF d
<1>5. BytePower[q * n] <= DigitPower[p * n]
  BY <1>1, Bases, BasePowers, PowersCompare
<1>6. DigitPower[d * q] <= BytePower[n * q]
  BY <1>1, <1>2, <1>4, Bases, BasePowers, PowersCompare
<1> DEFINE x == d * q
           y == p * n
<1>7. x \in Nat /\ y \in Nat /\ q * n = n * q /\ n * q \in Nat
  BY <1>1, <1>2
<1>8. x <= y
  <2> HIDE DEF x, y
  <2>1. y < x => DigitPower[y] < DigitPower[x]
    BY <1>7, Bases, BasePowers, PowersGrow
  <2>2. DigitPower[x] \in Nat /\ DigitPower[y] \in Nat /\ BytePower[n * q] \in Nat
    BY <1>7, BasePowersStep
  <2>3. DigitPower[x] <= DigitPower[y]
    BY <1>5, <1>6, <1>7, <2>2 DEF x, y
  <2>4. QED
    BY <1>7, <2>1, <2>2, <2>3
<1>9. x * Of <= y * Of
  BY <1>3, <1>7, <1>8, ProductsGrow
<1>10. y * Of <= (Per * q) * n
  <2>1. y * Of = (p * Of) * n /\ p * Of \in Nat /\ Per * q \in Nat
    BY <1>1, <1>3
  <2>2. QED
    BY <1>1, <2>1, ProductsGrow
<1>11. (Per * q) * n = (n * Per) * q /\ x * Of = (Of * d) * q
  BY <1>1, <1>2, <1>3
<1>12. (n * Per) * q < (Of * d) * q
  <2> DEFINE g == n * Per
             h == Of * d
  <2>1. g \in Nat /\ h \in Nat /\ g < h
    BY <1>2, <1>3
  <2> HIDE DEF g, h
  <2>2. g * q + q <= h * q /\ g * q \in Nat /\ h * q \in Nat
    BY <1>1, <2>1, Multiples
  <2>3. g * q < h * q
    BY <1>2, <2>2
  <2>4. QED
    BY <2>3 DEF g, h
<1>13. x * Of \in Nat /\ y * Of \in Nat /\ (Per * q) * n \in Nat
  BY <1>1, <1>3, <1>7
<1> HIDE DEF x, y
<1>14. QED
  BY <1>9, <1>10, <1>11, <1>12, <1>13

\* 138 digits for 100 bytes are enough: 8 bytes fit 11 digits.
LEMMA RoomOfTheCode ==
  ASSUME ByteBase = 256, DigitBase = 58, Per = 138, Of = 100
  PROVE  RoomHolds
<1>1. \A n \in Nat : /\ DigitPower[n + 1] = 58 * DigitPower[n]
                     /\ BytePower[n + 1] = 256 * BytePower[n]
  BY BasePowersStep
<1>2. /\ DigitPower[0 + 1] = 58 /\ BytePower[0 + 1] = 256
  BY <1>1, BasePowersStep
<1>3. DigitPower[1 + 1] = 3364 /\ BytePower[1 + 1] = 65536
  BY <1>1, <1>2, SMT
<1>4. DigitPower[2 + 1] = 195112 /\ BytePower[2 + 1] = 16777216
  BY <1>1, <1>3, SMT
<1>5. DigitPower[3 + 1] = 11316496 /\ BytePower[3 + 1] = 4294967296
  BY <1>1, <1>4, SMT
<1>6. DigitPower[4 + 1] = 656356768 /\ BytePower[4 + 1] = 1099511627776
  BY <1>1, <1>5, SMT
<1>7. DigitPower[5 + 1] = 38068692544 /\ BytePower[5 + 1] = 281474976710656
  BY <1>1, <1>6, SMT
<1>8. DigitPower[6 + 1] = 2207984167552 /\ BytePower[6 + 1] = 72057594037927936
  BY <1>1, <1>7, SMT
<1>9. DigitPower[7 + 1] = 128063081718016 /\ BytePower[7 + 1] = 18446744073709551616
  BY <1>1, <1>8, SMT
<1>10. DigitPower[8 + 1] = 7427658739644928
  BY <1>1, <1>9, SMT
<1>11. DigitPower[9 + 1] = 430804206899405824
  BY <1>1, <1>10, SMT
<1>12. DigitPower[10 + 1] = 24986644000165537792
  BY <1>1, <1>11, SMT
<1>13. BytePower[8] <= DigitPower[11] /\ 11 * Of <= Per * 8
  BY <1>9, <1>12, SMT
<1>14. QED
  BY <1>13 DEF RoomHolds

-----------------------------------------------------------------------------
\* The number of a list of digits, most significant first.

\* v[k] is the number of the first k elements of s.
Counts(v, s, base) ==
  /\ v \in [0 .. Len(s) -> Nat] /\ v[0] = 0
  /\ \A k \in 1 .. Len(s) : v[k] = v[k - 1] * base + s[k]

\* Every list has its numbers.
LEMMA CountsExist ==
  ASSUME NEW s \in Seq(Nat), NEW base \in Nat
  PROVE  \E v : Counts(v, s, base)
<1> DEFINE n == Len(s)
           step == [p \in Nat \X (1 .. n) |-> p[1] * base + s[p[2]]]
<1>1. n \in Nat /\ \A k \in 1 .. n : s[k] \in Nat
  BY LenProperties, ElementOfSeq
<1>2. step \in [Nat \X (1 .. n) -> Nat]
  <2>1. \A x \in Nat, k \in 1 .. n : x * base + s[k] \in Nat
    <3>1. TAKE x \in Nat, k \in 1 .. n
    <3>2. x * base \in Nat /\ s[k] \in Nat
      BY <1>1
    <3>3. QED
      BY <3>2
  <2>2. QED
    BY <2>1
<1>3. \A x \in Nat, k \in 1 .. n : step[<<x, k>>] = x * base + s[k]
  OBVIOUS
<1> HIDE DEF step
<1>4. PICK g \in [0 .. n -> Nat] : Iterates(g, 0, step, n)
  <2>1. 0 \in Nat
    OBVIOUS
  <2>2. QED
    BY <1>1, <1>2, <2>1, RecursionExists, Zenon
<1>5. g[0] = 0 /\ \A k \in 1 .. n : g[k] = step[<<g[k - 1], k>>]
  BY <1>4 DEF Iterates
<1>6. ASSUME NEW k \in 1 .. n PROVE g[k] = g[k - 1] * base + s[k]
  <2>1. k - 1 \in 0 .. n
    BY <1>1
  <2>2. g[k - 1] \in Nat
    BY <1>4, <2>1
  <2>3. QED
    BY <1>3, <1>5, <2>2
<1>7. Counts(g, s, base)
  BY <1>4, <1>5, <1>6 DEF Counts
<1>8. QED
  BY <1>7

\* The numbers of a list are those of any list it begins with.
LEMMA CountsOfPrefix ==
  ASSUME NEW s \in Seq(Nat), NEW base \in Nat, NEW v, Counts(v, s, base), NEW k \in 0 .. Len(s)
  PROVE  /\ SubSeq(s, 1, k) \in Seq(Nat) /\ Len(SubSeq(s, 1, k)) = k
         /\ Counts([i \in 0 .. k |-> v[i]], SubSeq(s, 1, k), base)
<1> DEFINE t == SubSeq(s, 1, k)
           u == [i \in 0 .. k |-> v[i]]
<1>1. Len(s) \in Nat /\ k \in Nat /\ k <= Len(s)
  BY LenProperties
<1>2. t \in Seq(Nat) /\ Len(t) = k /\ \A i \in 1 .. k : t[i] = s[i]
  BY <1>1, SubSeqProperties, ElementOfSeq
<1>3. /\ v \in [0 .. Len(s) -> Nat] /\ v[0] = 0
      /\ \A i \in 1 .. Len(s) : v[i] = v[i - 1] * base + s[i]
  BY DEF Counts
<1>4. u \in [0 .. k -> Nat] /\ u[0] = 0
  <2>1. \A i \in 0 .. k : i \in 0 .. Len(s)
    BY <1>1
  <2>2. \A i \in 0 .. k : v[i] \in Nat
    BY <1>3, <2>1
  <2>3. 0 \in 0 .. k
    BY <1>1
  <2>4. QED
    BY <1>3, <2>2, <2>3
<1>5. ASSUME NEW i \in 1 .. k PROVE u[i] = u[i - 1] * base + t[i]
  <2>1. i \in 1 .. Len(s) /\ i \in 0 .. k /\ i - 1 \in 0 .. k
    BY <1>1
  <2>2. u[i] = v[i] /\ u[i - 1] = v[i - 1] /\ t[i] = s[i]
    BY <1>2, <2>1
  <2>3. QED
    BY <1>3, <2>1, <2>2
<1> HIDE DEF u, t
<1>6. Counts(u, t, base)
  BY <1>2, <1>4, <1>5 DEF Counts
<1>7. QED
  BY <1>2, <1>6 DEF u, t

\* The recursion of the fold of Residue.
ResidueTurns(g, s, base, m) ==
  g = [d \in SUBSET DOMAIN s |->
         IF d = {} THEN 0 ELSE (g[d \ {Max(d)}] * base + s[Max(d)]) % m]

\* Residue is the remainder of the number.
LEMMA ResidueIs ==
  ASSUME NEW s \in Seq(Nat), NEW base \in Nat, NEW v, Counts(v, s, base), NEW m \in Nat \ {0}
  PROVE  Residue(s, base, m) = v[Len(s)] % m
<1> DEFINE q == Len(s)
           g == CHOOSE g : ResidueTurns(g, s, base, m)
<1>1. q \in Nat /\ DOMAIN s = 1 .. q /\ \A k \in 1 .. q : s[k] \in Nat
  BY LenProperties, ElementOfSeq
<1>2. /\ v \in [0 .. q -> Nat] /\ v[0] = 0
      /\ \A k \in 1 .. q : v[k] = v[k - 1] * base + s[k]
  BY DEF Counts
<1>3. \A x \in Nat, d \in Nat : (x * base + d) % m \in Nat
  <2>1. TAKE x \in Nat, d \in Nat
  <2>2. x * base + d \in Int
    OBVIOUS
  <2>3. (x * base + d) % m \in 0 .. m - 1
    BY <2>2, DivMod
  <2>4. QED
    BY <2>3
<1>4. ResidueTurns(g, s, base, m)
  <2> DEFINE step == [x \in (1 .. q) \X Nat |-> (x[2] * base + s[x[1]]) % m]
  <2>1. step \in [(1 .. q) \X Nat -> Nat]
    BY <1>1, <1>3
  <2>2. \A k \in 1 .. q, x \in Nat : step[<<k, x>>] = (x * base + s[k]) % m
    OBVIOUS
  <2> HIDE DEF step
  <2>3. PICK h \in [SUBSET (1 .. q) -> Nat] :
          \A d \in SUBSET (1 .. q) :
            /\ h[d] = IF d = {} THEN 0 ELSE step[<<Max(d), h[d \ {Max(d)}]>>]
            /\ d # {} => Max(d) \in 1 .. q
    <3>1. 0 \in Nat
      OBVIOUS
    <3>2. QED
      BY <1>1, <2>1, <3>1, FoldExists
  <2>4. ASSUME NEW d \in SUBSET (1 .. q)
        PROVE  h[d] = IF d = {} THEN 0 ELSE (h[d \ {Max(d)}] * base + s[Max(d)]) % m
    <3>1. CASE d = {}
      BY <2>3, <3>1
    <3>2. CASE d # {}
      <4>1. Max(d) \in 1 .. q /\ h[d \ {Max(d)}] \in Nat
        BY <2>3, <3>2
      <4>2. QED
        BY <2>2, <2>3, <3>2, <4>1
    <3>3. QED
      BY <3>1, <3>2
  <2>5. h = [d \in SUBSET (1 .. q) |-> h[d]]
    BY <2>3
  <2> HIDE DEF q
  <2>6. ResidueTurns(h, s, base, m)
    BY <1>1, <2>4, <2>5, Zenon DEF ResidueTurns
  <2>7. QED
    BY <2>6, Zenon
<1>5. Residue(s, base, m) = g[DOMAIN s]
  BY Zenon DEF Residue, FoldLeft, MapThenFoldSet, ResidueTurns
<1> HIDE DEF g
<1>6. ASSUME NEW d \in SUBSET (1 .. q)
      PROVE  g[d] = IF d = {} THEN 0 ELSE (g[d \ {Max(d)}] * base + s[Max(d)]) % m
  BY <1>1, <1>4, Zenon DEF ResidueTurns
<1> DEFINE T == {k \in Nat : k <= q => g[1 .. k] = v[k] % m}
<1>7. 0 \in T
  <2>1. 1 .. 0 = {} /\ {} \in SUBSET (1 .. q) /\ 0 \in 0 .. m - 1
    OBVIOUS
  <2>2. g[1 .. 0] = 0
    BY <1>6, <2>1
  <2>3. 0 * m + 0 = 0 /\ (0 * m + 0) % m = 0
    BY <2>1, DivisionIs
  <2>4. QED
    BY <1>2, <2>2, <2>3
<1>8. ASSUME NEW k \in Nat, k \in T PROVE k + 1 \in T
  <2>1. SUFFICES ASSUME k + 1 <= q PROVE g[1 .. k + 1] = v[k + 1] % m
    OBVIOUS
  <2>2. /\ k + 1 \in Nat /\ k + 1 # 0 /\ (k + 1) - 1 = k /\ k + 1 \in 1 .. q /\ k \in 0 .. q
        /\ 1 .. k + 1 \in SUBSET (1 .. q)
    BY <2>1
  <2>3. 1 .. k + 1 # {} /\ Max(1 .. k + 1) = k + 1 /\ (1 .. k + 1) \ {k + 1} = 1 .. k
    BY <2>2, LastPlace
  <2>4. g[1 .. k + 1] = (g[1 .. k] * base + s[k + 1]) % m
    BY <1>6, <2>2, <2>3
  <2>5. g[1 .. k] = v[k] % m /\ v[k] \in Nat /\ s[k + 1] \in Nat
    <3>1. k <= q
      BY <1>1, <2>1
    <3>2. g[1 .. k] = v[k] % m
      BY <1>8, <3>1
    <3> HIDE DEF q, T
    <3>3. v[k] \in Nat
      BY <1>2, <2>2
    <3>4. s[k + 1] \in Nat
      BY <1>1, <2>2
    <3>5. QED
      BY <3>2, <3>3, <3>4
  <2>6. v[k + 1] = v[k] * base + s[k + 1]
    BY <1>2, <2>2
  <2> DEFINE x == v[k]
             d == s[k + 1]
  <2>7. x \in Int /\ x \in Nat /\ d \in Nat
    BY <2>5
  <2> HIDE DEF x, d
  <2>8. ((x % m) * base + d) % m = (x * base + d) % m
    <3> DEFINE c == x \div m
               r == x % m
               y == r * base + d
    <3>1. c \in Int /\ r \in 0 .. m - 1 /\ x = m * c + r
      BY <2>7, DivMod
    <3>2. y \in Int
      BY <2>7, <3>1
    <3>3. y \div m \in Int /\ y % m \in 0 .. m - 1 /\ y = m * (y \div m) + (y % m)
      BY <3>2, DivMod
    <3>4. x * base + d = m * (c * base) + y /\ c * base \in Int
      <4> HIDE DEF c, r
      <4>1. (m * c + r) * base = m * (c * base) + r * base /\ c * base \in Int
        BY <3>1
      <4>2. QED
        BY <2>7, <3>1, <4>1
    <3> DEFINE e == c * base
               h == y \div m
               o == y % m
    <3>5. e \in Int /\ h \in Int /\ o \in 0 .. m - 1 /\ x * base + d = m * e + y /\ y = m * h + o
      BY <3>3, <3>4
    <3> HIDE DEF e, h, o, y
    <3>6. m * e + (m * h + o) = m * (e + h) + o /\ e + h \in Int
      BY <3>5
    <3>7. (m * (e + h) + o) % m = o
      BY <3>5, <3>6, UniqueRemainder
    <3>8. (x * base + d) % m = o
      BY <3>5, <3>6, <3>7
    <3>9. QED
      BY <3>8 DEF o, y
  <2>9. QED
    BY <2>4, <2>5, <2>6, <2>8 DEF x, d
<1> HIDE DEF T
<1>9. Nat \subseteq T
  BY <1>7, <1>8, NaturalsIn
<1>10. QED
  BY <1>1, <1>5, <1>9 DEF T

\* The zeros in front of a list.
LEMMA ZerosLead ==
  ASSUME NEW s \in Seq(Nat)
  PROVE  /\ LeadingZeros(s) \in 0 .. Len(s) /\ LeadingZeros(s) \in Nat /\ Len(s) \in Nat
         /\ \A k \in 1 .. LeadingZeros(s) : s[k] = 0
         /\ LeadingZeros(s) < Len(s) => s[LeadingZeros(s) + 1] # 0
<1> DEFINE I == {k \in 1 .. Len(s) : s[k] # 0}
           z == LeadingZeros(s)
<1>1. Len(s) \in Nat
  BY LenProperties
<1>2. SelectInSeq(s, LAMBDA b : b # 0) = IF I # {} THEN Min(I) ELSE 0
  BY DEF SelectInSeq
<1>3. CASE I = {}
  <2>1. z = Len(s)
    BY <1>2, <1>3 DEF LeadingZeros
  <2>2. \A k \in 1 .. Len(s) : s[k] = 0
    BY <1>3
  <2>3. QED
    BY <1>1, <2>1, <2>2
<1>4. CASE I # {}
  <2>1. Min(I) \in I /\ \A k \in I : Min(I) <= k
    <3>1. I \subseteq Nat
      BY <1>1
    <3> HIDE DEF I
    <3>2. \E k \in I : \A i \in I : k <= i
      BY <1>4, <3>1, LeastNatural
    <3>3. QED
      BY <3>2 DEF Min
  <2>2. Min(I) \in 1 .. Len(s) /\ s[Min(I)] # 0
    BY <2>1
  <2>3. \A k \in 1 .. Len(s) : k < Min(I) => s[k] = 0
    <3>1. TAKE k \in 1 .. Len(s)
    <3>2. s[k] # 0 => Min(I) <= k
      BY <2>1
    <3>3. QED
      BY <2>2, <3>2
  <2> DEFINE a == Min(I)
  <2>4. z = IF a = 0 THEN Len(s) ELSE a - 1
    BY <1>2, <1>4 DEF LeadingZeros
  <2> HIDE DEF a, I, z
  <2>5. z = a - 1 /\ a \in 1 .. Len(s)
    BY <1>1, <2>2, <2>4 DEF a
  <2>6. \A k \in 1 .. z : s[k] = 0
    BY <1>1, <2>3, <2>5 DEF a
  <2>7. z + 1 = a /\ s[a] # 0
    BY <2>2, <2>5 DEF a
  <2>8. z \in 0 .. Len(s) /\ z \in Nat
    BY <1>1, <2>5
  <2>9. QED
    BY <1>1, <2>6, <2>7, <2>8 DEF z
<1>5. QED
  BY <1>3, <1>4

\* The elements of Digits.
LEMMA DigitsOf ==
  ASSUME NEW n \in Nat, NEW base \in Nat, NEW f \in [0 .. n - 1 -> 0 .. base - 1]
  PROVE  /\ Digits(f, n) \in Seq(Nat) /\ Len(Digits(f, n)) = n
         /\ \A k \in 1 .. n : Digits(f, n)[k] = f[k - 1]
         /\ Digits(f, n) \in Seq(0 .. base - 1)
<1>1. ASSUME NEW k \in 1 .. n PROVE f[k - 1] \in 0 .. base - 1 /\ f[k - 1] \in Nat
  <2>1. k - 1 \in 0 .. n - 1
    OBVIOUS
  <2>2. f[k - 1] \in 0 .. base - 1
    BY <2>1
  <2>3. QED
    BY <2>2
<1>2. Digits(f, n) \in [1 .. n -> 0 .. base - 1] /\ Digits(f, n) \in [1 .. n -> Nat]
  BY <1>1 DEF Digits
<1>3. QED
  BY <1>2 DEF Digits

\* A number that begins with zeros is below a power of the base.
LEMMA CountsBelow ==
  ASSUME NEW s \in Seq(0 .. ByteBase - 1), NEW v, Counts(v, s, ByteBase),
         NEW z \in 0 .. Len(s), \A k \in 1 .. z : s[k] = 0
  PROVE  \A k \in z .. Len(s) : v[k] < BytePower[k - z]
<1>1. /\ Len(s) \in Nat /\ z \in Nat /\ z <= Len(s)
      /\ \A k \in 1 .. Len(s) : s[k] \in 0 .. ByteBase - 1
  <2>1. Len(s) \in Nat
    BY LenProperties
  <2>2. \A k \in 1 .. Len(s) : s[k] \in 0 .. ByteBase - 1
    BY ElementOfSeq
  <2>3. QED
    BY <2>1, <2>2
<1>2. /\ v \in [0 .. Len(s) -> Nat] /\ v[0] = 0
      /\ \A k \in 1 .. Len(s) : v[k] = v[k - 1] * ByteBase + s[k]
  BY DEF Counts
<1> DEFINE Y == {k \in Nat : k <= z => v[k] = 0}
           T == {k \in Nat : k <= Len(s) - z => v[z + k] < BytePower[k]}
<1>3. 0 \in Y
  BY <1>2
<1>4. ASSUME NEW k \in Nat, k \in Y PROVE k + 1 \in Y
  <2>1. SUFFICES ASSUME k + 1 <= z PROVE v[k + 1] = 0
    OBVIOUS
  <2>2. k + 1 \in 1 .. z /\ k + 1 \in 1 .. Len(s) /\ (k + 1) - 1 = k /\ k <= z
    BY <1>1, <2>1
  <2>3. v[k] = 0
    BY <1>4, <2>2
  <2>4. v[k + 1] = 0 * ByteBase + 0
    BY <1>2, <2>2, <2>3
  <2>5. QED
    BY <2>4, Bases
<1> HIDE DEF Y
<1>5. Nat \subseteq Y
  BY <1>3, <1>4, NaturalsIn
<1>6. v[z] = 0
  BY <1>1, <1>5 DEF Y
<1>7. 0 \in T
  <2>1. z + 0 = z /\ BytePower[0] = 1
    BY <1>1, BasePowersStep
  <2>2. v[z + 0] < BytePower[0]
    BY <1>6, <2>1
  <2>3. QED
    BY <2>2
<1>8. ASSUME NEW k \in Nat, k \in T PROVE k + 1 \in T
  <2>1. SUFFICES ASSUME k + 1 <= Len(s) - z PROVE v[z + (k + 1)] < BytePower[k + 1]
    OBVIOUS
  <2>2. z + (k + 1) \in 1 .. Len(s) /\ (z + (k + 1)) - 1 = z + k /\ k <= Len(s) - z /\ z + k \in 0 .. Len(s)
    BY <1>1, <2>1
  <2>3. v[z + k] < BytePower[k]
    BY <1>8, <2>2
  <2> DEFINE x == v[z + k]
             p == BytePower[k]
             d == s[z + (k + 1)]
  <2>4. x \in Nat /\ p \in Nat /\ x < p /\ d \in 0 .. ByteBase - 1
    BY <1>1, <1>2, <2>2, <2>3, BasePowersStep
  <2>5. v[z + (k + 1)] = x * ByteBase + d /\ BytePower[k + 1] = ByteBase * p
    BY <1>2, <2>2, BasePowersStep
  <2> HIDE DEF x, p, d
  <2>6. x * ByteBase + ByteBase <= p * ByteBase /\ x * ByteBase \in Int /\ p * ByteBase = ByteBase * p
    BY <2>4, Bases, Multiples
  <2>7. p * ByteBase \in Int
    BY <2>4, Bases
  <2> DEFINE a == x * ByteBase
             b == p * ByteBase
  <2>8. a + ByteBase <= b /\ a \in Int /\ b \in Int /\ v[z + (k + 1)] = a + d /\ BytePower[k + 1] = b
    BY <2>5, <2>6, <2>7
  <2> HIDE DEF a, b
  <2>9. a + d < b
    BY <2>4, <2>8, Bases
  <2>10. QED
    BY <2>8, <2>9
<1> HIDE DEF T
<1>9. Nat \subseteq T
  BY <1>7, <1>8, NaturalsIn
<1>10. ASSUME NEW k \in z .. Len(s) PROVE v[k] < BytePower[k - z]
  <2>1. k - z \in Nat /\ k - z <= Len(s) - z /\ z + (k - z) = k
    BY <1>1
  <2>2. QED
    BY <1>9, <2>1 DEF T
<1>11. QED
  BY <1>10

\* A number whose digits are all zero.
LEMMA CountsOfZeros ==
  ASSUME NEW s \in Seq(Nat), NEW base \in Nat, NEW v, Counts(v, s, base), NEW m \in 0 .. Len(s),
         \A k \in 1 .. m : s[k] = 0
  PROVE  v[m] = 0
<1>1. Len(s) \in Nat /\ m \in Nat /\ m <= Len(s)
  BY LenProperties
<1>2. /\ v[0] = 0
      /\ \A k \in 1 .. Len(s) : v[k] = v[k - 1] * base + s[k]
  BY DEF Counts
<1> DEFINE Y == {k \in Nat : k <= m => v[k] = 0}
<1>3. 0 \in Y
  BY <1>2
<1>4. ASSUME NEW k \in Nat, k \in Y PROVE k + 1 \in Y
  <2>1. SUFFICES ASSUME k + 1 <= m PROVE v[k + 1] = 0
    OBVIOUS
  <2>2. k + 1 \in 1 .. m /\ k + 1 \in 1 .. Len(s) /\ (k + 1) - 1 = k /\ k <= m
    BY <1>1, <2>1
  <2>3. v[k] = 0
    BY <1>4, <2>2
  <2>4. v[k + 1] = 0 * base + 0
    BY <1>2, <2>2, <2>3
  <2>5. QED
    BY <2>4
<1> HIDE DEF Y
<1>5. Nat \subseteq Y
  BY <1>3, <1>4, NaturalsIn
<1>6. QED
  BY <1>1, <1>5 DEF Y

\* The lists are as long as each other and differ in place i at most.
Differ(s, t, i) == Len(s) = Len(t) /\ \A k \in 1 .. Len(s) : k # i => s[k] = t[k]

\* What another digit in place i does to the number.
LEMMA CountsChange ==
  ASSUME NEW base \in Nat \ {0}, NEW f, PowersOf(f, base), NEW s \in Seq(Nat), NEW t \in Seq(Nat),
         NEW v, Counts(v, s, base), NEW u, Counts(u, t, base),
         NEW i \in 1 .. Len(s), Differ(s, t, i)
  PROVE  /\ \A k \in 0 .. i - 1 : v[k] = u[k]
         /\ v[Len(s)] = u[Len(s)] + (s[i] - t[i]) * f[Len(s) - i]
<1> DEFINE q == Len(s)
           e == s[i] - t[i]
<1>1. /\ q \in Nat /\ i \in Nat /\ 1 <= i /\ i <= q /\ Len(t) = q
      /\ \A k \in 1 .. q : s[k] \in Nat /\ t[k] \in Nat
  BY LenProperties, ElementOfSeq DEF Differ
<1>2. /\ v \in [0 .. q -> Nat] /\ v[0] = 0
      /\ \A k \in 1 .. q : v[k] = v[k - 1] * base + s[k]
      /\ u \in [0 .. q -> Nat] /\ u[0] = 0
      /\ \A k \in 1 .. q : u[k] = u[k - 1] * base + t[k]
  BY DEF Counts, Differ
<1>3. \A k \in 1 .. q : k # i => s[k] = t[k]
  BY DEF Differ
<1>4. e \in Int
  BY <1>1
<1> HIDE DEF q
<1> DEFINE Y == {k \in Nat : k <= i - 1 => v[k] = u[k]}
           T == {k \in Nat : k <= q - i => v[i + k] = u[i + k] + e * f[k]}
<1>5. 0 \in Y
  BY <1>2
<1>6. ASSUME NEW k \in Nat, k \in Y PROVE k + 1 \in Y
  <2>1. SUFFICES ASSUME k + 1 <= i - 1 PROVE v[k + 1] = u[k + 1]
    OBVIOUS
  <2>2. k + 1 # i /\ k + 1 \in 1 .. q /\ (k + 1) - 1 = k /\ k <= i - 1
    BY <1>1, <2>1
  <2>3. v[k] = u[k] /\ s[k + 1] = t[k + 1]
    BY <1>3, <1>6, <2>2
  <2>4. QED
    BY <1>2, <2>2, <2>3
<1> HIDE DEF Y
<1>7. Nat \subseteq Y
  BY <1>5, <1>6, NaturalsIn
<1>8. \A k \in 0 .. i - 1 : v[k] = u[k]
  BY <1>1, <1>7 DEF Y
<1>9. 0 \in T
  <2>1. i - 1 \in 0 .. q /\ i - 1 \in 0 .. i - 1 /\ i \in 1 .. q /\ i + 0 = i
    BY <1>1
  <2>2. v[i - 1] = u[i - 1] /\ u[i - 1] \in Nat
    BY <1>2, <1>8, <2>1
  <2>3. v[i] = u[i - 1] * base + s[i] /\ u[i] = u[i - 1] * base + t[i]
    BY <1>2, <2>1, <2>2
  <2>4. u[i - 1] * base \in Int /\ s[i] \in Int /\ t[i] \in Int
    BY <1>1, <2>1, <2>2
  <2>5. v[i] = u[i] + e
    BY <2>3, <2>4
  <2>6. e * f[0] = e
    <3>1. f[0] = 1
      BY PowersStep
    <3>2. e * 1 = e
      BY <1>4
    <3>3. QED
      BY <3>1, <3>2
  <2> HIDE DEF e
  <2>7. QED
    BY <2>1, <2>5, <2>6
<1>10. ASSUME NEW k \in Nat, k \in T PROVE k + 1 \in T
  <2> HIDE DEF e
  <2>1. SUFFICES ASSUME k + 1 <= q - i
                 PROVE  v[i + (k + 1)] = u[i + (k + 1)] + e * f[k + 1]
    OBVIOUS
  <2> DEFINE o == i + (k + 1)
  <2>2. o # i /\ o \in 1 .. q /\ o - 1 = i + k /\ k <= q - i /\ i + k \in 0 .. q
    BY <1>1, <2>1
  <2>3. v[i + k] = u[i + k] + e * f[k] /\ s[o] = t[o] /\ s[o] \in Nat
    BY <1>1, <1>3, <1>10, <2>2
  <2>4. v[o] = v[i + k] * base + s[o] /\ u[o] = u[i + k] * base + s[o]
    BY <1>2, <2>2, <2>3
  <2>5. u[i + k] \in Int /\ f[k] \in Int /\ f[k + 1] = base * f[k]
    <3>1. u[i + k] \in Nat
      BY <1>2, <2>2
    <3>2. f[k] \in Nat \ {0} /\ f[k + 1] = base * f[k]
      BY PowersStep
    <3>3. QED
      BY <3>1, <3>2
  <2> DEFINE x == u[i + k]
             p == f[k]
             g == e * p
  <2>6. x \in Int /\ p \in Int /\ g \in Int /\ e * (base * p) = g * base
    <3> DEFINE y == base
    <3>1. x \in Int /\ p \in Int /\ y \in Int
      BY <2>5
    <3> HIDE DEF x, p, y
    <3>2. g \in Int
      BY <1>4, <3>1
    <3>3. e * (y * p) = (e * p) * y
      BY <1>4, <3>1
    <3>4. QED
      BY <3>1, <3>2, <3>3 DEF y
  <2>7. (x + g) * base = x * base + g * base /\ x * base \in Int /\ g * base \in Int
    <3> HIDE DEF x, g
    <3>1. QED
      BY <2>6, Distribute
  <2>8. v[o] = (x + g) * base + s[o] /\ u[o] = x * base + s[o]
        /\ e * f[k + 1] = g * base
    BY <2>3, <2>4, <2>5, <2>6
  <2> DEFINE a == x * base
             b == g * base
  <2>9. v[o] = (a + b) + s[o] /\ u[o] = a + s[o] /\ e * f[k + 1] = b /\ a \in Int /\ b \in Int
    BY <2>7, <2>8
  <2> HIDE DEF a, b, x, g, p
  <2> DEFINE c == s[o]
             h == e * f[k + 1]
  <2>10. v[o] = (a + b) + c /\ u[o] = a + c /\ h = b /\ c \in Int
    BY <2>3, <2>9
  <2> HIDE DEF c, h, o
  <2>11. v[o] = u[o] + h
    BY <2>9, <2>10
  <2>12. QED
    BY <2>11 DEF h, o
<1> HIDE DEF T
<1>11. Nat \subseteq T
  BY <1>9, <1>10, NaturalsIn
<1>12. q - i \in Nat /\ q - i <= q - i /\ i + (q - i) = q
  BY <1>1
<1>13. v[q] = u[q] + e * f[q - i]
  BY <1>11, <1>12 DEF T
<1>14. QED
  BY <1>8, <1>13 DEF q

-----------------------------------------------------------------------------
\* The encoder's inner loop.

\* The arithmetic of one turn: a was the digit, c the carry, x the number of the digits before
\* it and p the power of its place; r is the new digit and l the new carry.
LEMMA TurnAdds ==
  ASSUME NEW a \in Int, NEW c \in Int, NEW x \in Int, NEW p \in Int, NEW r \in Int, NEW l \in Int,
         NEW b \in Int, NEW d \in Int, c + b * a = l * d + r
  PROVE  (r - a) * p + (x * (b - 1) + l) * (d * p) = ((x * d + a) * (b - 1) + c) * p
<1> DEFINE y == b - 1
           g == (x * y) * d
<1>1. y \in Int /\ b * a = a * y + a
  BY Distribute
<1>2. (x * d) * y = g /\ g \in Int /\ x * d \in Int /\ x * y \in Int
  BY <1>1
<1>3. (x * d + a) * y = (x * d) * y + a * y /\ (x * y + l) * d = g + l * d
  BY <1>1, <1>2, Distribute
<1> HIDE DEF g, y
<1> DEFINE e == a * y
           f == l * d
<1>4. e \in Int /\ f \in Int /\ b * a = e + a /\ c + (e + a) = f + r
  BY <1>1
<1>5. (x * d + a) * y + c = (g + e) + c /\ (x * y + l) * d = g + f
  BY <1>2, <1>3
<1> HIDE DEF e, f
<1>6. (g + e) + c = (r - a) + (g + f)
  BY <1>2, <1>4
<1> DEFINE o == x * y + l
           w == o * d
<1>7. o \in Int /\ w \in Int /\ w = g + f /\ (x * d + a) * y + c = (r - a) + w
  BY <1>2, <1>5, <1>6
<1> HIDE DEF o, w
<1>8. ((r - a) + w) * p = (r - a) * p + w * p
  BY <1>7, Distribute
<1>9. w * p = o * (d * p)
  BY <1>7 DEF w
<1>10. QED
  BY <1>7, <1>8, <1>9 DEF o, y

\* A sum is split into the digit that stays and the carry.
LEMMA TurnDivides ==
  ASSUME NEW a \in Nat, NEW c \in Nat
  PROVE  LET sum == c + ByteBase * a
         IN  /\ sum \div DigitBase \in Nat /\ sum % DigitBase \in 0 .. DigitBase - 1
             /\ sum = (sum \div DigitBase) * DigitBase + (sum % DigitBase)
<1> DEFINE sum == c + ByteBase * a
           l == sum \div DigitBase
           r == sum % DigitBase
           e == l * DigitBase
<1>1. sum \in Nat
  <2>1. ByteBase * a \in Nat
    BY Bases
  <2>2. QED
    BY <2>1
<1> HIDE DEF sum
<1>2. l \in Int /\ r \in 0 .. DigitBase - 1 /\ sum = DigitBase * l + r
  BY <1>1, Bases, DivMod
<1> HIDE DEF l, r
<1>3. l < 0 => e + DigitBase <= 0
  BY <1>2, Bases, Multiples
<1>4. e = DigitBase * l /\ e \in Int
  BY <1>2, Bases
<1> HIDE DEF e
<1>5. l \in Nat
  BY <1>1, <1>2, <1>3, <1>4, Bases
<1>6. sum = e + r
  BY <1>2, <1>4
<1>7. QED
  BY <1>2, <1>5, <1>6 DEF e, l, r, sum

\* q is s with the digit in place o changed; with what is carried to that place, and from it, the
\* numbers t and u of the two come to the same.
CarriedPast(s, q, o, u, t) ==
  \A c \in Nat, l \in Nat :
    c + ByteBase * s[o] = l * DigitBase + q[o]
    => t[Len(q)] + (t[o - 1] * (ByteBase - 1) + l) * DigitPower[Len(q) - (o - 1)]
         = u[Len(q)] + (u[o] * (ByteBase - 1) + c) * DigitPower[Len(q) - o]

\* One turn of the inner loop moves what it carries one place on.
LEMMA TurnHolds ==
  ASSUME NEW s \in Seq(Nat), NEW q \in Seq(Nat), NEW o \in 1 .. Len(q), Differ(q, s, o),
         NEW u, Counts(u, s, DigitBase), NEW t, Counts(t, q, DigitBase)
  PROVE  /\ u[o - 1] \in Nat /\ t[o - 1] = u[o - 1] /\ u[Len(q)] \in Nat /\ t[Len(q)] \in Nat
         /\ CarriedPast(s, q, o, u, t)
<1> DEFINE n == Len(q)
           a == s[o]
           r == q[o]
           i == o - 1
           p == DigitPower[n - o]
<1>1. n \in Nat /\ Len(s) = n /\ o \in 1 .. n /\ i \in 0 .. n /\ i \in 0 .. o - 1 /\ n \in 0 .. n
      /\ n - o \in Nat /\ (n - o) + 1 = n - i
  BY LenProperties DEF Differ
<1>2. a \in Nat /\ r \in Nat
  BY <1>1, ElementOfSeq
<1>3. /\ u \in [0 .. n -> Nat] /\ \A k \in 1 .. n : u[k] = u[k - 1] * DigitBase + s[k]
      /\ t \in [0 .. n -> Nat]
  BY <1>1 DEF Counts
<1>4. /\ \A k \in 0 .. o - 1 : t[k] = u[k]
      /\ t[n] = u[n] + (r - a) * p
  BY Bases, BasePowers, CountsChange
<1> HIDE DEF n, a, r, i
<1>5. u[i] \in Nat /\ u[n] \in Nat /\ t[n] \in Nat /\ t[i] = u[i] /\ u[o] = u[i] * DigitBase + a
  BY <1>1, <1>3, <1>4 DEF i, a
<1>6. p \in Nat /\ DigitPower[n - i] = DigitBase * p
  BY <1>1, BasePowersStep
<1> HIDE DEF p
<1> DEFINE x == u[i]
           y == u[n]
           z == t[n]
<1>7. ASSUME NEW c \in Nat, NEW l \in Nat, c + ByteBase * a = l * DigitBase + r
      PROVE  z + (x * (ByteBase - 1) + l) * (DigitBase * p) = y + ((x * DigitBase + a) * (ByteBase - 1) + c) * p
  <2> DEFINE m == (r - a) * p
             h == (x * (ByteBase - 1) + l) * (DigitBase * p)
             k == ((x * DigitBase + a) * (ByteBase - 1) + c) * p
  <2>1. x \in Int /\ y \in Int /\ z = y + m /\ m \in Int
    <3>1. r - a \in Int
      BY <1>2
    <3>2. QED
      BY <1>4, <1>5, <1>6, <3>1
  <2> HIDE DEF x, y, z
  <2>2. m + h = k
    BY <1>2, <1>6, <1>7, <2>1, Bases, TurnAdds
  <2>3. h \in Int
    <3>1. x * (ByteBase - 1) \in Int /\ DigitBase * p \in Int
      BY <1>6, <2>1, Bases
    <3> DEFINE f == x * (ByteBase - 1)
               g == DigitBase * p
    <3>2. f \in Int /\ g \in Int
      BY <3>1
    <3> HIDE DEF f, g
    <3>3. (f + l) * g \in Int
      BY <3>2
    <3>4. QED
      BY <3>3 DEF f, g
  <2> HIDE DEF m, h, k
  <2>4. z + h = y + k
    BY <2>1, <2>2, <2>3
  <2>5. QED
    BY <2>4 DEF h, k
<1>8. ASSUME NEW c \in Nat, NEW l \in Nat, c + ByteBase * s[o] = l * DigitBase + q[o]
      PROVE  t[n] + (t[i] * (ByteBase - 1) + l) * DigitPower[n - i]
               = u[n] + (u[o] * (ByteBase - 1) + c) * DigitPower[n - o]
  <2>1. c + ByteBase * a = l * DigitBase + r
    BY <1>8 DEF a, r
  <2>2. z + (x * (ByteBase - 1) + l) * (DigitBase * p) = y + ((x * DigitBase + a) * (ByteBase - 1) + c) * p
    BY <1>7, <2>1
  <2>3. QED
    BY <1>5, <1>6, <2>2 DEF p
<1>9. QED
  BY <1>5, <1>8 DEF CarriedPast, i, n

-----------------------------------------------------------------------------
\* The encoder.

\* Between two bytes: the digits are those of the bytes read, and there is none before stopAt.
ByteHolds ==
  /\ \A k \in 0 .. outputSize - 1 : k < stopAt => buffer[k] = 0
  /\ \E v, u : /\ Counts(v, in, ByteBase) /\ Counts(u, Digits(buffer, outputSize), DigitBase)
               /\ u[outputSize] = v[startAt]

\* Within a byte: the digits up to j are still to be multiplied, and carry to be added to them.
DigitHolds ==
  /\ startAt < Len(in)
  /\ j \in outputSize - 1 - Places(startAt + 1 - zeroCount) .. outputSize - 1
  /\ carry \in Nat
  /\ \A k \in 0 .. outputSize - 1 : k < stopAt /\ k <= j => buffer[k] = 0
  /\ \E v, u : /\ Counts(v, in, ByteBase) /\ Counts(u, Digits(buffer, outputSize), DigitBase)
               /\ u[outputSize] + (u[j + 1] * (ByteBase - 1) + carry) * DigitPower[outputSize - 1 - j]
                    = v[startAt + 1]

\* The invariant of the encoder.
EncodeInv ==
  /\ in \in Seq(0 .. ByteBase - 1)
  /\ pc \in {"byte", "digit"} =>
       /\ buffer \in [0 .. outputSize - 1 -> 0 .. DigitBase - 1]
       /\ startAt \in zeroCount .. Len(in)
       /\ stopAt \in outputSize - 1 - Places(startAt - zeroCount) .. outputSize - 1
  /\ pc = "byte" => ByteHolds
  /\ pc = "digit" => DigitHolds

\* The sizes of a call.
LEMMA Sizes ==
  ASSUME NEW s \in Seq(0 .. ByteBase - 1)
  PROVE  /\ s \in Seq(Nat) /\ Len(s) \in Nat
         /\ LeadingZeros(s) \in 0 .. Len(s) /\ LeadingZeros(s) \in Nat
         /\ Len(s) - LeadingZeros(s) \in Nat
         /\ OutputSize(Len(s) - LeadingZeros(s)) = Places(Len(s) - LeadingZeros(s)) + 1
         /\ OutputSize(Len(s) - LeadingZeros(s)) \in Nat \ {0}
<1>1. s \in Seq(Nat)
  <2>1. 0 .. ByteBase - 1 \subseteq Nat
    OBVIOUS
  <2>2. QED
    BY <2>1, SeqMonotonic
<1>2. LeadingZeros(s) \in 0 .. Len(s) /\ LeadingZeros(s) \in Nat /\ Len(s) \in Nat
  BY <1>1, ZerosLead
<1> DEFINE m == Len(s) - LeadingZeros(s)
<1>3. m \in Nat
  BY <1>2
<1> HIDE DEF m
<1>4. OutputSize(m) = Places(m) + 1 /\ Places(m) \in Nat
  BY <1>3, PlacesGrow DEF OutputSize, Places
<1>5. OutputSize(m) \in Nat \ {0}
  BY <1>4
<1>6. QED
  BY <1>1, <1>2, <1>3, <1>4, <1>5 DEF m

\* btchip_encode_base58 begins with no digits, for the zeros in front.
LEMMA EncodeCallKeeps ==
  ASSUME EncodeInv, EncodeCall
  PROVE  EncodeInv'
<1> DEFINE n == outputSize'
           z == zeroCount'
<1>1. in' \in Seq(0 .. ByteBase - 1) /\ pc' = "byte"
      /\ buffer' = [k \in 0 .. n - 1 |-> 0] /\ stopAt' = n - 1 /\ startAt' = z
  BY BaseAssumption DEF EncodeCall
<1>2. /\ in' \in Seq(Nat) /\ Len(in') \in Nat /\ z \in 0 .. Len(in') /\ z \in Nat /\ n \in Nat \ {0}
      /\ \A k \in 1 .. z : in'[k] = 0
  <2>1. z = LeadingZeros(in') /\ n = OutputSize(Len(in') - LeadingZeros(in'))
    BY DEF zeroCount, outputSize
  <2>2. QED
    BY <1>1, <2>1, Sizes, ZerosLead
<1> HIDE DEF n, z
<1>3. 0 \in 0 .. DigitBase - 1 /\ DigitBase \in Nat /\ ByteBase \in Nat
  BY Bases
<1>4. buffer' \in [0 .. n - 1 -> 0 .. DigitBase - 1] /\ \A k \in 0 .. n - 1 : buffer'[k] = 0
  BY <1>1, <1>3
<1>5. startAt' \in z .. Len(in') /\ stopAt' \in n - 1 - Places(startAt' - z) .. n - 1
  <2>1. startAt' - z = 0 /\ Places(0) = 0
    <3>1. startAt' - z = 0
      BY <1>1, <1>2
    <3>2. 0 \in Nat => Places(0) = 0
      BY PlacesGrow
    <3>3. QED
      BY <3>1, <3>2
  <2>2. QED
    BY <1>1, <1>2, <2>1
<1> DEFINE s == Digits(buffer', n)
<1>6. s \in Seq(Nat) /\ Len(s) = n /\ n \in 0 .. Len(s) /\ \A k \in 1 .. n : s[k] = 0
  <2>1. s \in Seq(Nat) /\ Len(s) = n /\ \A k \in 1 .. n : s[k] = buffer'[k - 1]
    BY <1>2, <1>3, <1>4, DigitsOf
  <2>2. \A k \in 1 .. n : k - 1 \in 0 .. n - 1
    BY <1>2
  <2> HIDE DEF s
  <2>3. QED
    BY <1>2, <1>4, <2>1, <2>2
<1>7. PICK v : Counts(v, in', ByteBase)
  BY <1>2, <1>3, CountsExist
<1>8. PICK u : Counts(u, s, DigitBase)
  <2> HIDE DEF s
  <2>1. QED
    BY <1>6, <1>3, CountsExist
<1>9. v[z] = 0
  BY <1>2, <1>3, <1>7, CountsOfZeros
<1>10. u[n] = 0
  <2> HIDE DEF s
  <2>1. QED
    BY <1>3, <1>6, <1>8, CountsOfZeros
<1>11. ByteHolds'
  <2>1. Counts(v, in', ByteBase) /\ Counts(u, Digits(buffer', n), DigitBase) /\ u[n] = v[startAt']
    BY <1>1, <1>7, <1>8, <1>9, <1>10
  <2>2. QED
    BY <1>4, <2>1, Zenon DEF ByteHolds, n
<1>12. QED
  BY <1>1, <1>4, <1>5, <1>11 DEF EncodeInv, n, z

\* The next byte is to be added at the end.
LEMMA EncodeByteKeeps ==
  ASSUME EncodeInv, EncodeByte
  PROVE  EncodeInv'
<1> DEFINE n == outputSize
           z == zeroCount
<1>1. /\ in \in Seq(0 .. ByteBase - 1) /\ buffer \in [0 .. n - 1 -> 0 .. DigitBase - 1]
      /\ startAt \in z .. Len(in) /\ stopAt \in n - 1 - Places(startAt - z) .. n - 1
      /\ ByteHolds
  BY DEF EncodeInv, EncodeByte
<1>2. /\ startAt < Len(in) /\ pc' = "digit" /\ carry' = in[startAt + 1] /\ j' = n - 1
      /\ in' = in /\ buffer' = buffer /\ startAt' = startAt /\ stopAt' = stopAt
      /\ outputSize' = n /\ zeroCount' = z
  BY DEF EncodeByte, zeroCount, outputSize
<1>3. Len(in) \in Nat /\ z \in Nat /\ n \in Nat \ {0}
  BY <1>1, Sizes DEF zeroCount, outputSize
<1>4. PICK v, u : /\ Counts(v, in, ByteBase) /\ Counts(u, Digits(buffer, n), DigitBase)
                  /\ u[n] = v[startAt]
  BY <1>1, Zenon DEF ByteHolds
<1>5. \A k \in 0 .. n - 1 : k < stopAt => buffer[k] = 0
  BY <1>1 DEF ByteHolds
<1> HIDE DEF n, z
<1>6. /\ v \in [0 .. Len(in) -> Nat]
      /\ \A k \in 1 .. Len(in) : v[k] = v[k - 1] * ByteBase + in[k]
  BY <1>4 DEF Counts
<1>7. startAt \in 0 .. Len(in) /\ startAt + 1 \in 1 .. Len(in) /\ (startAt + 1) - 1 = startAt
      /\ startAt + 1 - z \in Nat
  BY <1>1, <1>2, <1>3
<1>8. in[startAt + 1] \in 0 .. ByteBase - 1 /\ in[startAt + 1] \in Nat
  <2>1. in[startAt + 1] \in 0 .. ByteBase - 1
    BY <1>1, <1>7, ElementOfSeq
  <2>2. QED
    BY <2>1, Bases
<1>9. j' \in n - 1 - Places(startAt + 1 - z) .. n - 1
  <2>1. Places(startAt + 1 - z) \in Nat
    BY <1>7, PlacesGrow
  <2>2. QED
    BY <1>2, <1>3, <2>1
<1> DEFINE x == u[n]
           c == in[startAt + 1]
<1>10. x + (x * (ByteBase - 1) + c) * 1 = v[startAt + 1]
  <2>1. x \in Nat /\ v[startAt + 1] = x * ByteBase + c /\ c \in Nat
    BY <1>4, <1>6, <1>7, <1>8
  <2> HIDE DEF x, c
  <2>2. x * ((ByteBase - 1) + 1) = x * (ByteBase - 1) + x /\ (ByteBase - 1) + 1 = ByteBase
        /\ x * (ByteBase - 1) \in Int
    BY <2>1, Bases
  <2> DEFINE y == x * (ByteBase - 1)
             w == v[startAt + 1]
  <2>3. y \in Int /\ w = (y + x) + c
    BY <2>1, <2>2
  <2> HIDE DEF y, w
  <2>4. x + (y + c) * 1 = w
    BY <2>1, <2>3
  <2>5. QED
    BY <2>4 DEF y, w
<1>11. j' + 1 = n /\ n - 1 - j' = 0 /\ DigitPower[0] = 1
  BY <1>2, <1>3, BasePowersStep
<1>12. u[n] + (u[j' + 1] * (ByteBase - 1) + carry') * DigitPower[n - 1 - j'] = v[startAt + 1]
  BY <1>2, <1>10, <1>11
<1>13. DigitHolds'
  <2>1. /\ startAt' < Len(in')
        /\ j' \in outputSize' - 1 - Places(startAt' + 1 - zeroCount') .. outputSize' - 1
        /\ carry' \in Nat
    BY <1>2, <1>8, <1>9
  <2>2. \A k \in 0 .. outputSize' - 1 : k < stopAt' /\ k <= j' => buffer'[k] = 0
    BY <1>2, <1>5
  <2>3. /\ Counts(v, in', ByteBase) /\ Counts(u, Digits(buffer', outputSize'), DigitBase)
        /\ u[outputSize'] + (u[j' + 1] * (ByteBase - 1) + carry') * DigitPower[outputSize' - 1 - j']
             = v[startAt' + 1]
    BY <1>2, <1>4, <1>12
  <2>4. QED
    BY <2>1, <2>2, <2>3, Zenon DEF DigitHolds
<1>14. QED
  BY <1>1, <1>2, <1>13 DEF EncodeInv, n, z

\* One turn of the inner loop, up to the decision to stop.
LEMMA DigitTurn ==
  ASSUME EncodeInv, EncodeDigit
  PROVE  LET left == (carry + ByteBase * buffer[j]) \div DigitBase
         IN  /\ left \in Nat /\ buffer' \in [0 .. outputSize - 1 -> 0 .. DigitBase - 1]
             /\ \A k \in 0 .. outputSize - 1 : k < stopAt /\ k < j => buffer'[k] = 0
             /\ \E v, t :
                  /\ Counts(v, in, ByteBase) /\ Counts(t, Digits(buffer', outputSize), DigitBase)
                  /\ t[outputSize] \in Nat /\ t[j] \in Nat
                  /\ (j < stopAt => t[j] = 0)
                  /\ t[outputSize] + (t[j] * (ByteBase - 1) + left) * DigitPower[outputSize - j]
                       = v[startAt + 1]
<1> DEFINE n == outputSize
           a == buffer[j]
           sum == carry + ByteBase * a
           left == sum \div DigitBase
           digit == sum % DigitBase
           s == Digits(buffer, n)
           q == Digits(buffer', n)
           o == j + 1
<1>1. /\ in \in Seq(0 .. ByteBase - 1) /\ buffer \in [0 .. n - 1 -> 0 .. DigitBase - 1]
      /\ DigitHolds
  BY DEF EncodeInv, EncodeDigit
<1>2. buffer' = [buffer EXCEPT ![j] = digit]
  BY DEF EncodeDigit
<1>3. n \in Nat \ {0}
  <2>1. n = OutputSize(Len(in) - LeadingZeros(in))
    BY DEF zeroCount, outputSize
  <2>2. QED
    BY <1>1, <2>1, Sizes
<1>4. j \in 0 .. n - 1 /\ carry \in Nat
  <2>1. Len(in) \in Nat /\ zeroCount \in Nat /\ n = Places(Len(in) - zeroCount) + 1
        /\ startAt \in zeroCount .. Len(in)
    <3>1. zeroCount = LeadingZeros(in) /\ n = OutputSize(Len(in) - LeadingZeros(in))
      BY DEF zeroCount, outputSize
    <3>2. startAt \in zeroCount .. Len(in)
      BY DEF EncodeInv, EncodeDigit
    <3>3. QED
      BY <1>1, <3>1, <3>2, Sizes
  <2>2. startAt < Len(in) /\ j \in n - 1 - Places(startAt + 1 - zeroCount) .. n - 1 /\ carry \in Nat
    BY <1>1 DEF DigitHolds
  <2> DEFINE i == startAt + 1 - zeroCount
             m == Len(in) - zeroCount
  <2>3. i \in Nat /\ m \in Nat /\ i <= m
    BY <2>1, <2>2
  <2> HIDE DEF i, m
  <2>4. Places(i) <= Places(m) /\ Places(i) \in Nat /\ Places(m) \in Nat
    BY <2>3, PlacesGrow
  <2> HIDE DEF n
  <2>5. j \in n - 1 - Places(i) .. n - 1 /\ n = Places(m) + 1
    BY <2>1, <2>2 DEF i, m
  <2>6. QED
    BY <2>2, <2>4, <2>5
<1>5. \A k \in 0 .. n - 1 : k < stopAt /\ k <= j => buffer[k] = 0
  BY <1>1 DEF DigitHolds
<1>6. PICK v, u : /\ Counts(v, in, ByteBase) /\ Counts(u, s, DigitBase)
                  /\ u[n] + (u[o] * (ByteBase - 1) + carry) * DigitPower[n - 1 - j] = v[startAt + 1]
  BY <1>1, Zenon DEF DigitHolds
<1> HIDE DEF n
<1>7. a \in 0 .. DigitBase - 1 /\ a \in Nat
  <2>1. a \in 0 .. DigitBase - 1
    BY <1>1, <1>4
  <2> HIDE DEF a
  <2>2. QED
    BY <2>1, Bases
<1>8. left \in Nat /\ digit \in 0 .. DigitBase - 1 /\ sum = left * DigitBase + digit
  <2> HIDE DEF a
  <2>1. QED
    BY <1>4, <1>7, TurnDivides
<1> HIDE DEF left, digit
<1>9. /\ buffer' \in [0 .. n - 1 -> 0 .. DigitBase - 1] /\ buffer'[j] = digit
      /\ \A k \in 0 .. n - 1 : k # j => buffer'[k] = buffer[k]
  BY <1>1, <1>2, <1>4, <1>8
<1>10. /\ s \in Seq(Nat) /\ Len(s) = n /\ \A k \in 1 .. n : s[k] = buffer[k - 1]
       /\ q \in Seq(Nat) /\ Len(q) = n /\ \A k \in 1 .. n : q[k] = buffer'[k - 1]
  <2>1. DigitBase \in Nat /\ n \in Nat
    BY <1>3, Bases
  <2>2. s \in Seq(Nat) /\ Len(s) = n /\ \A k \in 1 .. n : s[k] = buffer[k - 1]
    BY <1>1, <2>1, DigitsOf
  <2>3. q \in Seq(Nat) /\ Len(q) = n /\ \A k \in 1 .. n : q[k] = buffer'[k - 1]
    BY <1>9, <2>1, DigitsOf
  <2>4. QED
    BY <2>2, <2>3
<1> HIDE DEF s, q
<1>11. PICK t : Counts(t, q, DigitBase)
  BY <1>10, Bases, CountsExist
<1>12. o \in 1 .. n /\ o - 1 = j /\ n - o = n - 1 - j /\ j \in 0 .. n
  BY <1>3, <1>4
<1>13. Differ(q, s, o) /\ s[o] = a /\ q[o] = digit
  <2>1. ASSUME NEW k \in 1 .. n, k # o PROVE q[k] = s[k]
    <3>1. k - 1 \in 0 .. n - 1 /\ k - 1 # j
      BY <1>3, <1>4, <2>1
    <3>2. QED
      BY <1>9, <1>10, <3>1
  <2>2. s[o] = a /\ q[o] = digit
    BY <1>9, <1>10, <1>12
  <2>3. QED
    BY <1>10, <2>1, <2>2 DEF Differ
<1> HIDE DEF o
<1>14. /\ u[j] \in Nat /\ t[j] = u[j] /\ t[n] \in Nat
       /\ t[n] + (t[j] * (ByteBase - 1) + left) * DigitPower[n - j]
            = u[n] + (u[o] * (ByteBase - 1) + carry) * DigitPower[n - 1 - j]
  <2>1. carry + ByteBase * s[o] = left * DigitBase + q[o]
    BY <1>8, <1>13
  <2>2. Len(q) = n /\ o \in 1 .. Len(q) /\ Counts(u, s, DigitBase) /\ Counts(t, q, DigitBase)
    BY <1>6, <1>10, <1>11, <1>12
  <2> HIDE DEF a, sum
  <2>3. /\ u[o - 1] \in Nat /\ t[o - 1] = u[o - 1] /\ t[Len(q)] \in Nat
        /\ t[Len(q)] + (t[o - 1] * (ByteBase - 1) + left) * DigitPower[Len(q) - (o - 1)]
             = u[Len(q)] + (u[o] * (ByteBase - 1) + carry) * DigitPower[Len(q) - o]
    <3>1. /\ u[o - 1] \in Nat /\ t[o - 1] = u[o - 1] /\ t[Len(q)] \in Nat
          /\ CarriedPast(s, q, o, u, t)
      <4>1. q \in Seq(Nat) /\ s \in Seq(Nat) /\ o \in 1 .. Len(q) /\ Differ(q, s, o)
            /\ Counts(u, s, DigitBase) /\ Counts(t, q, DigitBase)
        BY <1>10, <1>13, <2>2
      <4>2. QED
        BY <4>1, TurnHolds
    <3>2. QED
      BY <1>4, <1>8, <2>1, <3>1, Zenon DEF CarriedPast
  <2>4. QED
    BY <1>10, <1>12, <2>3
<1>15. \A k \in 0 .. n - 1 : k < stopAt /\ k < j => buffer'[k] = 0
  BY <1>4, <1>5, <1>9
<1>16. j < stopAt => t[j] = 0
  <2>1. SUFFICES ASSUME j < stopAt PROVE u[j] = 0
    BY <1>14
  <2>2. \A k \in 1 .. j : s[k] = 0
    <3>1. TAKE k \in 1 .. j
    <3>2. k \in 1 .. n /\ k - 1 \in 0 .. n - 1 /\ k - 1 < j /\ k - 1 <= j
      BY <1>3, <1>4
    <3>3. stopAt \in Int
      <4>1. stopAt \in n - 1 - Places(startAt - zeroCount) .. n - 1
        BY DEF EncodeInv, EncodeDigit, n
      <4>2. QED
        BY <4>1
    <3>4. k - 1 < stopAt
      BY <1>4, <2>1, <3>2, <3>3
    <3>5. QED
      BY <1>5, <1>10, <3>2, <3>4
  <2>3. j \in 0 .. Len(s) /\ DigitBase \in Nat
    BY <1>10, <1>12, Bases
  <2>4. QED
    BY <1>6, <1>10, <2>2, <2>3, CountsOfZeros
<1>17. \E w, x : /\ Counts(w, in, ByteBase) /\ Counts(x, q, DigitBase)
                 /\ x[n] \in Nat /\ x[j] \in Nat
                 /\ (j < stopAt => x[j] = 0)
                 /\ x[n] + (x[j] * (ByteBase - 1) + left) * DigitPower[n - j] = w[startAt + 1]
  <2>1. t[n] + (t[j] * (ByteBase - 1) + left) * DigitPower[n - j] = v[startAt + 1] /\ t[j] \in Nat
    BY <1>6, <1>14
  <2>2. QED
    BY <1>6, <1>11, <1>14, <1>16, <2>1, Zenon
<1>18. QED
  BY <1>8, <1>9, <1>15, <1>17, Zenon DEF n, q, left, sum, a

\* Where a byte's digits may lie.
LEMMA DigitRoom ==
  ASSUME EncodeInv, pc = "digit"
  PROVE  /\ Len(in) \in Nat /\ zeroCount \in Nat /\ outputSize \in Nat \ {0}
         /\ startAt \in Nat /\ zeroCount <= startAt /\ startAt < Len(in)
         /\ startAt + 1 \in zeroCount .. Len(in) /\ startAt + 1 - zeroCount \in Nat
         /\ j \in 0 .. outputSize - 1
         /\ Places(startAt + 1 - zeroCount) \in Nat
         /\ j \in outputSize - 1 - Places(startAt + 1 - zeroCount) .. outputSize - 1
         /\ outputSize - Places(startAt + 1 - zeroCount) >= 1
         /\ stopAt \in outputSize - Places(startAt + 1 - zeroCount) .. outputSize - 1
<1> DEFINE n == outputSize
           z == zeroCount
           m == Len(in) - z
           i == startAt + 1 - z
           h == startAt - z
<1>1. in \in Seq(0 .. ByteBase - 1) /\ DigitHolds
      /\ startAt \in z .. Len(in) /\ stopAt \in n - 1 - Places(h) .. n - 1
  BY DEF EncodeInv
<1>2. Len(in) \in Nat /\ z \in Nat /\ m \in Nat /\ n = Places(m) + 1 /\ n \in Nat \ {0}
  <2>1. z = LeadingZeros(in) /\ n = OutputSize(Len(in) - LeadingZeros(in))
    BY DEF zeroCount, outputSize
  <2> HIDE DEF n, z
  <2>2. QED
    BY <1>1, <2>1, Sizes
<1>3. startAt < Len(in) /\ j \in n - 1 - Places(i) .. n - 1
  BY <1>1 DEF DigitHolds
<1> HIDE DEF n, z
<1>4. startAt \in Nat /\ z <= startAt /\ startAt + 1 \in z .. Len(in)
      /\ i \in Nat /\ h \in Nat /\ h < i /\ i <= m
  BY <1>1, <1>2, <1>3
<1> HIDE DEF m, i, h
<1>5. Places(h) + 1 <= Places(i) /\ Places(i) <= Places(m)
      /\ Places(h) \in Nat /\ Places(i) \in Nat /\ Places(m) \in Nat
  BY <1>2, <1>4, PlacesGrow
<1>6. j \in 0 .. n - 1 /\ n - Places(i) >= 1 /\ stopAt \in n - Places(i) .. n - 1
  <2> DEFINE a == Places(h)
             b == Places(i)
             c == Places(m)
  <2>1. /\ a + 1 <= b /\ b <= c /\ a \in Nat /\ b \in Nat /\ c \in Nat /\ n = c + 1
        /\ j \in n - 1 - b .. n - 1 /\ stopAt \in n - 1 - a .. n - 1
    BY <1>1, <1>2, <1>3, <1>5
  <2> HIDE DEF a, b, c
  <2>2. j \in 0 .. n - 1 /\ n - b >= 1 /\ stopAt \in n - b .. n - 1
    BY <2>1
  <2>3. QED
    BY <2>2 DEF b
<1>7. QED
  BY <1>2, <1>3, <1>4, <1>5, <1>6 DEF n, z, i

\* A carry is left only where a digit has room for it.
LEMMA CarryRoom ==
  ASSUME RoomHolds, EncodeInv, pc = "digit", NEW v, Counts(v, in, ByteBase),
         NEW x \in Nat, NEW y \in Nat, NEW l \in Nat \ {0},
         x + (y * (ByteBase - 1) + l) * DigitPower[outputSize - j] = v[startAt + 1]
  PROVE  outputSize - Places(startAt + 1 - zeroCount) <= j
<1> DEFINE i == startAt + 1 - zeroCount
           d == Places(i)
           e == outputSize - j
           p == DigitPower[e]
           c == y * (ByteBase - 1) + l
           w == v[startAt + 1]
<1>1. i \in Nat /\ d \in Nat /\ startAt + 1 \in zeroCount .. Len(in)
      /\ j \in 0 .. outputSize - 1 /\ outputSize \in Nat
  BY DigitRoom
<1>2. e \in Nat
  BY <1>1
<1>3. p \in Nat \ {0}
  <2> HIDE DEF e
  <2>1. QED
    BY <1>2, BasePowersStep
<1>4. c \in Nat /\ 1 <= c
  <2>1. y * (ByteBase - 1) \in Nat
    <3>1. ByteBase - 1 \in Nat
      BY Bases
    <3>2. QED
      BY <3>1
  <2>2. QED
    BY <2>1
<1>5. w < BytePower[i]
  <2>1. in \in Seq(0 .. ByteBase - 1) /\ zeroCount = LeadingZeros(in)
    BY DEF EncodeInv, zeroCount
  <2>2. zeroCount \in 0 .. Len(in) /\ \A k \in 1 .. zeroCount : in[k] = 0
    BY <2>1, Sizes, ZerosLead
  <2>3. \A k \in zeroCount .. Len(in) : v[k] < BytePower[k - zeroCount]
    BY <2>1, <2>2, CountsBelow
  <2> DEFINE k == startAt + 1
  <2>4. k \in zeroCount .. Len(in) /\ w = v[k] /\ i = k - zeroCount
    <3>1. k \in zeroCount .. Len(in) /\ w = v[k]
      BY <1>1, Zenon
    <3>2. startAt \in Nat /\ zeroCount \in Nat
      BY DigitRoom
    <3>3. i = k - zeroCount
      BY <3>2
    <3>4. QED
      BY <3>1, <3>3
  <2> HIDE DEF k, w, i
  <2>5. v[k] < BytePower[k - zeroCount]
    BY <2>3, <2>4
  <2>6. QED
    BY <2>4, <2>5
<1>6. BytePower[i] < DigitPower[d + 1]
  <2> HIDE DEF i
  <2>1. QED
    BY <1>1, RoomEnough
<1>7. p <= w
  <2>1. x + c * p = w
    OBVIOUS
  <2> HIDE DEF c, p, w
  <2>2. 1 * p <= c * p /\ c * p \in Nat /\ 1 * p = p
    BY <1>3, <1>4, ProductsGrow
  <2> DEFINE f == c * p
  <2>3. x + f = w /\ f \in Nat /\ p <= f
    BY <2>1, <2>2
  <2> HIDE DEF f
  <2>4. QED
    BY <1>3, <2>3
<1>8. w \in Nat /\ BytePower[i] \in Nat /\ DigitPower[d + 1] \in Nat
  <2>1. v \in [0 .. Len(in) -> Nat]
    BY DEF Counts
  <2>2. startAt + 1 \in 0 .. Len(in)
    BY DigitRoom
  <2> HIDE DEF i, d
  <2>3. BytePower[i] \in Nat /\ DigitPower[d + 1] \in Nat
    <3>1. i \in Nat /\ d + 1 \in Nat
      BY <1>1
    <3>2. BytePower[i] \in Nat \ {0}
      BY <3>1, BasePowersStep
    <3>3. DigitPower[d + 1] \in Nat \ {0}
      BY <3>1, BasePowersStep
    <3>4. QED
      BY <3>2, <3>3
  <2>4. QED
    BY <2>1, <2>2, <2>3
<1>9. p < DigitPower[d + 1]
  <2> HIDE DEF p, w, i, d
  <2>1. QED
    BY <1>3, <1>5, <1>6, <1>7, <1>8
<1>10. e < d + 1
  <2> HIDE DEF e, d
  <2>1. d + 1 < e => DigitPower[d + 1] < DigitPower[e]
    BY <1>1, <1>2, Bases, BasePowers, PowersGrow
  <2>2. d + 1 = e => DigitPower[d + 1] = DigitPower[e]
    OBVIOUS
  <2> HIDE DEF p
  <2>3. p = DigitPower[e]
    BY DEF p
  <2>4. QED
    BY <1>1, <1>2, <1>3, <1>8, <1>9, <2>1, <2>2, <2>3
<1> HIDE DEF d
<1>11. outputSize - d <= j
  BY <1>1, <1>10
<1>12. QED
  BY <1>11 DEF d

\* A turn of the inner loop: it stops only past the digits there are, and never runs off the
\* buffer.
LEMMA EncodeDigitKeeps ==
  ASSUME RoomHolds, EncodeInv, EncodeDigit
  PROVE  EncodeInv'
<1> DEFINE n == outputSize
           z == zeroCount
           d == Places(startAt + 1 - z)
           left == (carry + ByteBase * buffer[j]) \div DigitBase
<1>1. pc = "digit" /\ in \in Seq(0 .. ByteBase - 1) /\ in' = in /\ n' = n /\ z' = z
  BY DEF EncodeInv, EncodeDigit, zeroCount, outputSize
<1>2. /\ carry' = left
      /\ StopsHere(left) => /\ j' = j /\ pc' = "byte" /\ stopAt' = j /\ startAt' = startAt + 1
      /\ ~StopsHere(left) /\ 0 <= j - 1 =>
           /\ j' = j - 1 /\ pc' = "digit" /\ stopAt' = stopAt /\ startAt' = startAt
  <2> HIDE DEF left
  <2>1. LET index == IF StopsHere(left) THEN j ELSE j - 1
        IN  /\ carry' = left /\ j' = index
            /\ IF StopsHere(left) \/ index < 0
                 THEN pc' = "byte" /\ stopAt' = index /\ startAt' = startAt + 1
                 ELSE pc' = pc /\ stopAt' = stopAt /\ startAt' = startAt
    BY DEF EncodeDigit, left
  <2>2. j \in Int
    BY <1>1, DigitRoom
  <2>3. CASE StopsHere(left)
    BY <2>1, <2>3
  <2>4. CASE ~StopsHere(left)
    BY <1>1, <2>1, <2>2, <2>4
  <2>5. QED
    BY <2>3, <2>4
<1>3. /\ Len(in) \in Nat /\ z \in Nat /\ n \in Nat \ {0}
      /\ startAt \in Nat /\ z <= startAt /\ startAt < Len(in) /\ startAt + 1 \in z .. Len(in)
      /\ j \in 0 .. n - 1 /\ d \in Nat /\ j \in n - 1 - d .. n - 1 /\ n - d >= 1
      /\ stopAt \in n - d .. n - 1
      /\ stopAt \in n - 1 - Places(startAt - z) .. n - 1
  BY <1>1, DigitRoom DEF EncodeInv
<1>4. /\ left \in Nat /\ buffer' \in [0 .. n - 1 -> 0 .. DigitBase - 1]
      /\ \A k \in 0 .. n - 1 : k < stopAt /\ k < j => buffer'[k] = 0
  BY DigitTurn
<1>5. PICK v, t :
        /\ Counts(v, in, ByteBase) /\ Counts(t, Digits(buffer', n), DigitBase)
        /\ t[n] \in Nat /\ t[j] \in Nat
        /\ (j < stopAt => t[j] = 0)
        /\ t[n] + (t[j] * (ByteBase - 1) + left) * DigitPower[n - j] = v[startAt + 1]
  BY DigitTurn, Zenon
<1> HIDE DEF n, z, left, d
<1>6. StopsHere(left) <=> left = 0 /\ j < stopAt
  BY <1>3 DEF StopsHere
<1>7. CASE StopsHere(left)
  <2>1. pc' = "byte" /\ stopAt' = j /\ startAt' = startAt + 1 /\ left = 0 /\ j < stopAt
    BY <1>2, <1>6, <1>7
  <2>2. \A k \in 0 .. n - 1 : k < j => buffer'[k] = 0
    BY <1>3, <1>4, <2>1
  <2>3. t[n] = v[startAt + 1]
    <3>1. t[j] = 0 /\ DigitPower[n - j] \in Nat
      <4>1. n - j \in Nat
        BY <1>3
      <4>2. QED
        BY <1>5, <2>1, <4>1, BasePowersStep
    <3>2. (0 * (ByteBase - 1) + 0) * DigitPower[n - j] = 0
      <4>1. 0 * (ByteBase - 1) + 0 = 0
        BY Bases
      <4>2. 0 * DigitPower[n - j] = 0
        BY <3>1
      <4>3. QED
        BY <4>1, <4>2
    <3>3. t[n] + 0 = v[startAt + 1]
      BY <1>5, <2>1, <3>1, <3>2
    <3>4. QED
      BY <1>5, <3>3
  <2>4. ByteHolds'
    <3>1. \A k \in 0 .. n' - 1 : k < stopAt' => buffer'[k] = 0
      BY <1>1, <2>1, <2>2
    <3>2. Counts(v, in', ByteBase) /\ Counts(t, Digits(buffer', n'), DigitBase) /\ t[n'] = v[startAt']
      BY <1>1, <1>5, <2>1, <2>3
    <3>3. QED
      BY <3>1, <3>2, Zenon DEF ByteHolds, n
  <2>5. startAt' \in z' .. Len(in') /\ stopAt' \in n' - 1 - Places(startAt' - z') .. n' - 1
    BY <1>1, <1>3, <2>1 DEF d
  <2>6. in' \in Seq(0 .. ByteBase - 1) /\ buffer' \in [0 .. n' - 1 -> 0 .. DigitBase - 1]
    BY <1>1, <1>4
  <2>7. QED
    BY <2>1, <2>4, <2>5, <2>6 DEF EncodeInv, n, z
<1>8. CASE ~StopsHere(left)
  <2>1. n - d <= j
    <3>1. CASE left = 0
      BY <1>3, <1>6, <1>8, <3>1
    <3>2. CASE left # 0
      <4>1. left \in Nat \ {0}
        BY <1>4, <3>2
      <4>2. QED
        BY <1>1, <1>5, <4>1, CarryRoom DEF n, z, d
    <3>3. QED
      BY <3>1, <3>2
  <2>2. 0 <= j - 1 /\ j - 1 \in n - 1 - d .. n - 1 /\ (j - 1) + 1 = j /\ n - 1 - (j - 1) = n - j
    BY <1>3, <2>1
  <2>3. j' = j - 1 /\ pc' = "digit" /\ stopAt' = stopAt /\ startAt' = startAt /\ carry' = left
    BY <1>2, <1>8, <2>2
  <2>4. DigitHolds'
    <3>1. startAt' < Len(in') /\ j' \in n' - 1 - Places(startAt' + 1 - z') .. n' - 1 /\ carry' \in Nat
      BY <1>1, <1>3, <1>4, <2>2, <2>3 DEF d
    <3>2. \A k \in 0 .. n' - 1 : k < stopAt' /\ k <= j' => buffer'[k] = 0
      BY <1>1, <1>3, <1>4, <2>3
    <3>3. /\ Counts(v, in', ByteBase) /\ Counts(t, Digits(buffer', n'), DigitBase)
          /\ t[n'] + (t[j' + 1] * (ByteBase - 1) + carry') * DigitPower[n' - 1 - j'] = v[startAt' + 1]
      BY <1>1, <1>5, <2>2, <2>3
    <3>4. QED
      BY <3>1, <3>2, <3>3, Zenon DEF DigitHolds, n, z
  <2>5. /\ startAt' \in z' .. Len(in') /\ stopAt' \in n' - 1 - Places(startAt' - z') .. n' - 1
        /\ in' \in Seq(0 .. ByteBase - 1) /\ buffer' \in [0 .. n' - 1 -> 0 .. DigitBase - 1]
    BY <1>1, <1>3, <1>4, <2>3
  <2>6. QED
    BY <2>3, <2>4, <2>5 DEF EncodeInv, n, z
<1>9. QED
  BY <1>7, <1>8

\* The numbers of the digits and of the bytes read, modulo anything.
LEMMA EncodeResidues ==
  ASSUME EncodeInv, pc = "byte"
  PROVE  SameNumber(Digits(buffer, outputSize), DigitBase, SubSeq(in, 1, startAt), ByteBase)
<1> DEFINE n == outputSize
           s == Digits(buffer, n)
           r == SubSeq(in, 1, startAt)
<1>1. /\ in \in Seq(0 .. ByteBase - 1) /\ buffer \in [0 .. n - 1 -> 0 .. DigitBase - 1]
      /\ startAt \in zeroCount .. Len(in) /\ ByteHolds
  BY DEF EncodeInv
<1>2. in \in Seq(Nat) /\ Len(in) \in Nat /\ zeroCount \in Nat /\ n \in Nat
  <2>1. zeroCount = LeadingZeros(in) /\ n = OutputSize(Len(in) - LeadingZeros(in))
    BY DEF zeroCount, outputSize
  <2>2. QED
    BY <1>1, <2>1, Sizes
<1>3. PICK v, u : /\ Counts(v, in, ByteBase) /\ Counts(u, s, DigitBase)
                  /\ u[n] = v[startAt]
  BY <1>1, Zenon DEF ByteHolds
<1>4. DigitBase \in Nat /\ ByteBase \in Nat
  BY Bases
<1> HIDE DEF n
<1>5. s \in Seq(Nat) /\ Len(s) = n
  BY <1>1, <1>2, <1>4, DigitsOf
<1> DEFINE w == [k \in 0 .. startAt |-> v[k]]
<1>6. startAt \in 0 .. Len(in) /\ startAt \in 0 .. startAt
  BY <1>1, <1>2
<1>7. r \in Seq(Nat) /\ Len(r) = startAt /\ Counts(w, r, ByteBase)
  <2> HIDE DEF s
  <2>1. QED
    BY <1>2, <1>3, <1>4, <1>6, CountsOfPrefix
<1>8. w[startAt] = v[startAt]
  BY <1>6
<1> HIDE DEF s, r, w
<1>9. ASSUME NEW m \in Moduli PROVE Residue(s, DigitBase, m) = Residue(r, ByteBase, m)
  <2>1. m \in Nat \ {0}
    BY BaseAssumption
  <2>2. Residue(s, DigitBase, m) = u[Len(s)] % m
    BY <1>3, <1>4, <1>5, <2>1, ResidueIs
  <2>3. Residue(r, ByteBase, m) = w[Len(r)] % m
    BY <1>4, <1>7, <2>1, ResidueIs
  <2>4. QED
    BY <1>3, <1>5, <1>7, <1>8, <2>2, <2>3
<1>10. QED
  BY <1>9 DEF SameNumber, s, r, n

\* Every step keeps the invariant of the encoder.
LEMMA EncodeKeeps ==
  ASSUME RoomHolds, EncodeInv, [CodeNext]_codeVars
  PROVE  EncodeInv'
<1>1. CASE EncodeCall
  BY <1>1, EncodeCallKeeps
<1>2. CASE EncodeByte
  BY <1>2, EncodeByteKeeps
<1>3. CASE EncodeDigit
  BY <1>3, EncodeDigitKeeps
<1>4. CASE EncodeReturn \/ DecodeCall \/ DecodePass \/ DecodeReturn
  <2>1. in' = in /\ pc' \notin {"byte", "digit"}
    BY <1>4 DEF EncodeReturn, DecodeCall, DecodePass, DecodeReturn
  <2>2. QED
    BY <2>1 DEF EncodeInv
<1>5. CASE NextCall
  <2>1. in' = <<>> /\ pc' = "call"
    BY <1>5 DEF NextCall
  <2>2. <<>> \in Seq(0 .. ByteBase - 1)
    BY EmptySeq
  <2>3. QED
    BY <2>1, <2>2 DEF EncodeInv
<1>6. CASE UNCHANGED codeVars
  <2>1. /\ in' = in /\ pc' = pc /\ buffer' = buffer /\ startAt' = startAt /\ j' = j
        /\ stopAt' = stopAt /\ carry' = carry
    BY <1>6 DEF codeVars, encoding
  <2>2. zeroCount' = zeroCount /\ outputSize' = outputSize
    BY <2>1 DEF zeroCount, outputSize
  <2>3. (ByteHolds' <=> ByteHolds) /\ (DigitHolds' <=> DigitHolds)
    BY <2>1, <2>2 DEF ByteHolds, DigitHolds
  <2>4. QED
    BY <2>1, <2>2, <2>3 DEF EncodeInv
<1>7. QED
  BY <1>1, <1>2, <1>3, <1>4, <1>5, <1>6 DEF CodeNext

\* After every byte the digits are the number of the bytes read so far: the inner loop leaves
\* no digit unmultiplied where it stops early, and never carries out of the size estimated, of
\* btchip_base58.c:88-101, for inputs of every length.
THEOREM DigitsAreTheBytes == ASSUME RoomHolds PROVE CodeSpec => []PrefixEncoded
<1>1. CodeInit => EncodeInv
  <2>1. <<>> \in Seq(0 .. ByteBase - 1)
    BY EmptySeq
  <2>2. QED
    BY <2>1 DEF CodeInit, EncodeInv
<1>2. EncodeInv /\ [CodeNext]_codeVars => EncodeInv'
  BY EncodeKeeps
<1>3. EncodeInv => PrefixEncoded
  BY EncodeResidues DEF PrefixEncoded
<1>4. QED
  BY <1>1, <1>2, <1>3, PTL DEF CodeSpec

-----------------------------------------------------------------------------
\* Lists with the same number.

\* The zeros in front are those up to the first element that is none.
LEMMA LeadingIs ==
  ASSUME NEW s \in Seq(Nat), NEW z \in 0 .. Len(s), \A k \in 1 .. z : s[k] = 0,
         z < Len(s) => s[z + 1] # 0
  PROVE  LeadingZeros(s) = z
<1> DEFINE y == LeadingZeros(s)
<1>1. y \in 0 .. Len(s) /\ y \in Nat /\ Len(s) \in Nat
      /\ (\A k \in 1 .. y : s[k] = 0) /\ (y < Len(s) => s[y + 1] # 0)
  BY ZerosLead
<1> HIDE DEF y
<1>2. ~(y < z)
  <2>1. SUFFICES ASSUME y < z PROVE FALSE
    OBVIOUS
  <2>2. y + 1 \in 1 .. z /\ y < Len(s)
    BY <1>1, <2>1
  <2>3. QED
    BY <1>1, <2>2
<1>3. ~(z < y)
  <2>1. SUFFICES ASSUME z < y PROVE FALSE
    OBVIOUS
  <2>2. z + 1 \in 1 .. y /\ z < Len(s)
    BY <1>1, <2>1
  <2>3. QED
    BY <1>1, <2>2
<1>4. QED
  BY <1>1, <1>2, <1>3 DEF y

\* The same e elements come after place a of one list and after place b of the other.
SameElements(s, t, a, b, e) ==
  a + e <= Len(s) /\ b + e <= Len(t) /\ \A k \in 1 .. e : s[a + k] = t[b + k]

\* They are added to the same number in the same way.
LEMMA CountsFollow ==
  ASSUME NEW base \in Nat, NEW s \in Seq(Nat), NEW t \in Seq(Nat),
         NEW v, Counts(v, s, base), NEW u, Counts(u, t, base),
         NEW a \in Nat, NEW b \in Nat, NEW e \in Nat, SameElements(s, t, a, b, e), v[a] = u[b]
  PROVE  v[a + e] = u[b + e]
<1>1. /\ Len(s) \in Nat /\ Len(t) \in Nat /\ a + e <= Len(s) /\ b + e <= Len(t)
      /\ \A k \in 1 .. e : s[a + k] = t[b + k]
  BY LenProperties DEF SameElements
<1>2. /\ \A k \in 1 .. Len(s) : v[k] = v[k - 1] * base + s[k]
      /\ \A k \in 1 .. Len(t) : u[k] = u[k - 1] * base + t[k]
  BY DEF Counts
<1> DEFINE T == {k \in Nat : k <= e => v[a + k] = u[b + k]}
<1>3. 0 \in T
  <2>1. a + 0 = a /\ b + 0 = b
    OBVIOUS
  <2>2. QED
    BY <2>1
<1>4. ASSUME NEW k \in Nat, k \in T PROVE k + 1 \in T
  <2>1. SUFFICES ASSUME k + 1 <= e PROVE v[a + (k + 1)] = u[b + (k + 1)]
    OBVIOUS
  <2> DEFINE x == a + (k + 1)
             y == b + (k + 1)
  <2>2. /\ k <= e /\ k + 1 \in 1 .. e /\ x \in 1 .. Len(s) /\ x - 1 = a + k
        /\ y \in 1 .. Len(t) /\ y - 1 = b + k
    BY <1>1, <2>1
  <2>3. v[a + k] = u[b + k] /\ s[x] = t[y]
    BY <1>1, <1>4, <2>2
  <2> HIDE DEF x, y, T
  <2>4. v[x] = v[a + k] * base + s[x] /\ u[y] = u[b + k] * base + t[y]
    BY <1>2, <2>2
  <2>5. QED
    BY <2>3, <2>4 DEF x, y
<1> HIDE DEF T
<1>5. Nat \subseteq T
  BY <1>3, <1>4, NaturalsIn
<1>6. QED
  BY <1>5 DEF T

\* A number whose first digit, in place z + 1, is no zero is at least a power of the base.
LEMMA CountsAbove ==
  ASSUME NEW s \in Seq(Nat), NEW v, Counts(v, s, ByteBase),
         NEW z \in Nat, z < Len(s), s[z + 1] # 0
  PROVE  BytePower[Len(s) - z - 1] <= v[Len(s)]
<1>1. Len(s) \in Nat /\ \A k \in 1 .. Len(s) : s[k] \in Nat
  BY LenProperties, ElementOfSeq
<1>2. /\ v \in [0 .. Len(s) -> Nat]
      /\ \A k \in 1 .. Len(s) : v[k] = v[k - 1] * ByteBase + s[k]
  BY DEF Counts
<1> DEFINE T == {k \in Nat : k <= Len(s) - z - 1 => BytePower[k] <= v[z + 1 + k]}
<1>3. 0 \in T
  <2>1. z + 1 \in 1 .. Len(s) /\ z \in 0 .. Len(s) /\ (z + 1) - 1 = z /\ z + 1 + 0 = z + 1
    BY <1>1
  <2>2. v[z + 1] = v[z] * ByteBase + s[z + 1] /\ v[z] \in Nat /\ s[z + 1] \in Nat
    BY <1>1, <1>2, <2>1
  <2> DEFINE x == v[z] * ByteBase
             d == s[z + 1]
  <2>3. x \in Nat /\ d \in Nat /\ d # 0 /\ v[z + 1] = x + d
    BY <2>2, Bases
  <2> HIDE DEF x, d
  <2>4. 1 <= v[z + 1]
    BY <2>3
  <2>5. QED
    BY <2>1, <2>4, BasePowersStep
<1>4. ASSUME NEW k \in Nat, k \in T PROVE k + 1 \in T
  <2>1. SUFFICES ASSUME k + 1 <= Len(s) - z - 1 PROVE BytePower[k + 1] <= v[z + 1 + (k + 1)]
    OBVIOUS
  <2> DEFINE o == z + 1 + (k + 1)
  <2>2. o \in 1 .. Len(s) /\ o - 1 = z + 1 + k /\ o - 1 \in 0 .. Len(s) /\ k <= Len(s) - z - 1
    BY <1>1, <2>1
  <2>3. BytePower[k] <= v[o - 1]
    BY <1>4, <2>2
  <2> HIDE DEF o
  <2> DEFINE x == v[o - 1]
             p == BytePower[k]
             d == s[o]
  <2>4. x \in Nat /\ p \in Nat /\ p <= x /\ d \in Nat /\ v[o] = x * ByteBase + d
    BY <1>1, <1>2, <2>2, <2>3, BasePowersStep
  <2>5. BytePower[k + 1] = ByteBase * p
    BY BasePowersStep
  <2> HIDE DEF x, p, d
  <2> DEFINE y == x * ByteBase
             w == p * ByteBase
  <2>6. w <= y /\ y \in Nat /\ w \in Nat
    BY <2>4, Bases, ProductsGrow
  <2>7. ByteBase * p = w
    BY <2>4, Bases
  <2>8. v[o] = y + d
    BY <2>4
  <2> HIDE DEF y, w
  <2>9. BytePower[k + 1] <= v[o]
    BY <2>4, <2>5, <2>6, <2>7, <2>8
  <2>10. QED
    BY <2>9 DEF o
<1> HIDE DEF T
<1>5. Nat \subseteq T
  BY <1>3, <1>4, NaturalsIn
<1>6. Len(s) - z - 1 \in Nat /\ Len(s) - z - 1 <= Len(s) - z - 1 /\ z + 1 + (Len(s) - z - 1) = Len(s)
  BY <1>1
<1>7. BytePower[Len(s) - z - 1] <= v[z + 1 + (Len(s) - z - 1)]
  BY <1>5, <1>6 DEF T
<1>8. QED
  BY <1>6, <1>7

\* Bytes with as many zeros in front and the same number: one list is no shorter.
LEMMA NoShorter ==
  ASSUME NEW s \in Seq(0 .. ByteBase - 1), NEW t \in Seq(0 .. ByteBase - 1),
         LeadingZeros(s) = LeadingZeros(t),
         NEW v, Counts(v, s, ByteBase), NEW u, Counts(u, t, ByteBase), v[Len(s)] = u[Len(t)]
  PROVE  ~(Len(s) < Len(t))
<1> DEFINE z == LeadingZeros(s)
           m == Len(s) - z
           n == Len(t) - z - 1
<1>1. SUFFICES ASSUME Len(s) < Len(t) PROVE FALSE
  OBVIOUS
<1>2. /\ s \in Seq(Nat) /\ t \in Seq(Nat) /\ Len(s) \in Nat /\ Len(t) \in Nat
      /\ z \in 0 .. Len(s) /\ z \in Nat
  BY Sizes
<1>3. z = LeadingZeros(t)
  OBVIOUS
<1> HIDE DEF z
<1>4. z < Len(t) /\ m \in Nat /\ n \in Nat /\ m <= n /\ Len(s) \in z .. Len(s)
  BY <1>1, <1>2
<1>5. (\A k \in 1 .. z : s[k] = 0) /\ t[z + 1] # 0
  BY <1>2, <1>3, <1>4, ZerosLead DEF z
<1>6. v[Len(s)] < BytePower[m]
  BY <1>2, <1>4, <1>5, CountsBelow
<1>7. BytePower[n] <= u[Len(t)]
  BY <1>2, <1>4, <1>5, CountsAbove
<1> HIDE DEF m, n
<1>8. BytePower[m] <= BytePower[n]
  <2>1. m < n => BytePower[m] < BytePower[n]
    BY <1>4, Bases, BasePowers, PowersGrow
  <2>2. BytePower[m] \in Nat /\ BytePower[n] \in Nat
    BY <1>4, BasePowersStep
  <2>3. QED
    BY <1>4, <2>1, <2>2
<1>9. v[Len(s)] \in Nat /\ BytePower[m] \in Nat /\ BytePower[n] \in Nat
  <2>1. v \in [0 .. Len(s) -> Nat] /\ Len(s) \in 0 .. Len(s)
    BY <1>2 DEF Counts
  <2>2. QED
    BY <1>4, <2>1, BasePowersStep
<1>10. QED
  BY <1>6, <1>7, <1>8, <1>9

\* They are the same.
LEMMA SameBytes ==
  ASSUME NEW s \in Seq(0 .. ByteBase - 1), NEW t \in Seq(0 .. ByteBase - 1),
         LeadingZeros(s) = LeadingZeros(t),
         NEW v, Counts(v, s, ByteBase), NEW u, Counts(u, t, ByteBase), v[Len(s)] = u[Len(t)]
  PROVE  s = t
<1> DEFINE n == Len(s)
<1>1. n \in Nat /\ Len(t) \in Nat
  BY Sizes
<1>2. Len(t) = n
  <2>1. ~(n < Len(t)) /\ ~(Len(t) < n)
    BY NoShorter
  <2>2. QED
    BY <1>1, <2>1
<1>3. /\ v \in [0 .. n -> Nat] /\ u \in [0 .. n -> Nat]
      /\ \A k \in 1 .. n : v[k] = v[k - 1] * ByteBase + s[k]
      /\ \A k \in 1 .. n : u[k] = u[k - 1] * ByteBase + t[k]
  BY <1>2 DEF Counts
<1>4. \A k \in 1 .. n : s[k] \in 0 .. ByteBase - 1 /\ t[k] \in 0 .. ByteBase - 1
  BY <1>2, ElementOfSeq
<1>5. v[n] = u[n]
  BY <1>2
<1> HIDE DEF n
<1>6. ASSUME NEW k \in 1 .. n, v[k] = u[k] PROVE v[k - 1] = u[k - 1] /\ s[k] = t[k]
  <2> DEFINE x == v[k - 1]
             y == u[k - 1]
             a == s[k]
             b == t[k]
  <2>1. k - 1 \in 0 .. n
    BY <1>1
  <2>2. x \in Int /\ y \in Int /\ a \in 0 .. ByteBase - 1 /\ b \in 0 .. ByteBase - 1
    <3>1. x \in Nat /\ y \in Nat
      BY <1>3, <2>1
    <3>2. a \in 0 .. ByteBase - 1 /\ b \in 0 .. ByteBase - 1
      BY <1>4
    <3> HIDE DEF x, y, a, b
    <3>3. QED
      BY <3>1, <3>2
  <2>3. x * ByteBase + a = y * ByteBase + b
    BY <1>3, <1>6
  <2> HIDE DEF x, y, a, b
  <2>4. /\ (x * ByteBase + a) \div ByteBase = x /\ (x * ByteBase + a) % ByteBase = a
        /\ (y * ByteBase + b) \div ByteBase = y /\ (y * ByteBase + b) % ByteBase = b
    BY <2>2, Bases, DivisionIs
  <2>5. x = y /\ a = b
    BY <2>3, <2>4
  <2>6. QED
    BY <2>5 DEF x, y, a, b
<1> DEFINE T == {k \in Nat : k <= n => v[n - k] = u[n - k]}
<1>7. 0 \in T
  <2>1. n - 0 = n
    BY <1>1
  <2>2. QED
    BY <1>5, <2>1
<1>8. ASSUME NEW k \in Nat, k \in T PROVE k + 1 \in T
  <2>1. SUFFICES ASSUME k + 1 <= n PROVE v[n - (k + 1)] = u[n - (k + 1)]
    OBVIOUS
  <2>2. k <= n /\ n - k \in 1 .. n /\ n - (k + 1) = (n - k) - 1
    BY <1>1, <2>1
  <2>3. v[n - k] = u[n - k]
    BY <1>8, <2>2
  <2>4. QED
    BY <1>6, <2>2, <2>3
<1> HIDE DEF T
<1>9. Nat \subseteq T
  BY <1>7, <1>8, NaturalsIn
<1>10. ASSUME NEW k \in 1 .. n PROVE s[k] = t[k]
  <2>1. n - k \in Nat /\ n - k <= n /\ n - (n - k) = k
    BY <1>1
  <2>2. v[k] = u[k]
    BY <1>9, <2>1 DEF T
  <2>3. QED
    BY <1>6, <2>2
<1>11. QED
  BY <1>2, <1>10, SeqEqual DEF n

-----------------------------------------------------------------------------
\* The decoder's division.

\* The recursion of the fold of Division.
DivisionTurns(g, digits, places) ==
  g = [d \in SUBSET DOMAIN places |->
         IF d = {} THEN [tmp |-> digits, remainder |-> 0]
         ELSE [tmp |-> [g[d \ {Max(d)}].tmp EXCEPT ![places[Max(d)]] =
                          (g[d \ {Max(d)}].remainder * DigitBase + digits[places[Max(d)]]) \div ByteBase],
               remainder |->
                 (g[d \ {Max(d)}].remainder * DigitBase + digits[places[Max(d)]]) % ByteBase]]

\* r holds the remainders, of the first k digits after place `from`.
Remainders(r, s, from) ==
  /\ r \in [0 .. Len(s) - from -> Nat] /\ r[0] = 0
  /\ \A k \in 1 .. Len(s) - from : r[k] = (r[k - 1] * DigitBase + s[from + k]) % ByteBase

\* The digits once k of them are divided.
Divided(r, s, from, k) ==
  [i \in 1 .. Len(s) |-> IF from < i /\ i <= from + k
                         THEN (r[i - from - 1] * DigitBase + s[i]) \div ByteBase ELSE s[i]]

\* Every division has its remainders.
LEMMA RemaindersExist ==
  ASSUME NEW s \in Seq(0 .. DigitBase - 1), NEW from \in 0 .. Len(s)
  PROVE  \E r : Remainders(r, s, from)
<1> DEFINE q == Len(s) - from
           step == [p \in Nat \X (1 .. q) |-> (p[1] * DigitBase + s[from + p[2]]) % ByteBase]
<1>1. q \in Nat /\ \A k \in 1 .. q : from + k \in 1 .. Len(s)
  <2>1. Len(s) \in Nat
    BY LenProperties
  <2>2. QED
    BY <2>1
<1>2. \A k \in 1 .. q : s[from + k] \in Nat
  <2>1. 0 .. DigitBase - 1 \subseteq Nat
    OBVIOUS
  <2>2. s \in Seq(Nat)
    BY <2>1, SeqMonotonic
  <2>3. \A k \in 1 .. Len(s) : s[k] \in Nat
    BY <2>2, ElementOfSeq
  <2> HIDE DEF q
  <2>4. QED
    BY <1>1, <2>3
<1> HIDE DEF q
<1>3. \A x \in Nat, k \in 1 .. q : (x * DigitBase + s[from + k]) % ByteBase \in Nat
  <2>1. TAKE x \in Nat, k \in 1 .. q
  <2> DEFINE y == x * DigitBase + s[from + k]
  <2>2. y \in Int
    <3>1. x * DigitBase \in Int /\ s[from + k] \in Nat
      BY <1>2, Bases
    <3>2. QED
      BY <3>1
  <2> HIDE DEF y
  <2>3. y % ByteBase \in 0 .. ByteBase - 1
    BY <2>2, Bases, DivMod
  <2>4. y % ByteBase \in Nat
    BY <2>3, Bases
  <2>5. QED
    BY <2>4 DEF y
<1>4. step \in [Nat \X (1 .. q) -> Nat]
  BY <1>3
<1>5. \A x \in Nat, k \in 1 .. q : step[<<x, k>>] = (x * DigitBase + s[from + k]) % ByteBase
  OBVIOUS
<1> HIDE DEF step
<1>6. PICK g \in [0 .. q -> Nat] : Iterates(g, 0, step, q)
  <2>1. 0 \in Nat
    OBVIOUS
  <2>2. QED
    BY <1>1, <1>4, <2>1, RecursionExists, Zenon
<1>7. g[0] = 0 /\ \A k \in 1 .. q : g[k] = step[<<g[k - 1], k>>]
  BY <1>6 DEF Iterates
<1>8. ASSUME NEW k \in 1 .. q PROVE g[k] = (g[k - 1] * DigitBase + s[from + k]) % ByteBase
  <2>1. k - 1 \in 0 .. q
    BY <1>1
  <2>2. g[k - 1] \in Nat
    BY <1>6, <2>1
  <2>3. QED
    BY <1>5, <1>7, <2>2
<1>9. Remainders(g, s, from)
  BY <1>6, <1>7, <1>8 DEF Remainders, q
<1>10. QED
  BY <1>9

\* One digit divided: what the remainder before it and the digit come to.
LEMMA DivideDigit ==
  ASSUME NEW x \in 0 .. ByteBase - 1, NEW a \in 0 .. DigitBase - 1
  PROVE  LET y == x * DigitBase + a
         IN  /\ y % ByteBase \in 0 .. ByteBase - 1
             /\ y \div ByteBase \in 0 .. DigitBase - 1
             /\ y = (y \div ByteBase) * ByteBase + (y % ByteBase)
             /\ x = 0 => y \div ByteBase = 0
<1> DEFINE y == x * DigitBase + a
           c == y \div ByteBase
           r == y % ByteBase
           b == x * DigitBase
           f == c * ByteBase
           h == DigitBase * ByteBase
<1>0. x \in Nat /\ a \in Nat
  BY Bases
<1>1. b \in Nat /\ y \in Nat /\ y = b + a
  <2>1. b \in Nat
    BY <1>0, Bases
  <2> HIDE DEF b
  <2>2. y = b + a
    BY DEF b
  <2>3. QED
    BY <1>0, <2>1, <2>2
<1> HIDE DEF y
<1>2. c \in Int /\ r \in 0 .. ByteBase - 1 /\ y = ByteBase * c + r
  BY <1>1, Bases, DivMod
<1> HIDE DEF c, r
<1>3. f = ByteBase * c /\ f \in Int
  BY <1>2, Bases
<1>4. y = f + r
  BY <1>2, <1>3
<1>5. c < 0 => f + ByteBase <= 0
  BY <1>2, Bases, Multiples
<1>6. DigitBase <= c => h <= f
  BY <1>2, Bases, Multiples
<1>7. b + DigitBase <= h
  <2>1. x + 1 <= ByteBase /\ x + 1 \in Int
    BY <1>0, Bases
  <2>2. (x + 1) * DigitBase <= ByteBase * DigitBase
    BY <2>1, Bases, Multiples
  <2>3. (x + 1) * DigitBase = b + DigitBase /\ ByteBase * DigitBase = h
    BY <1>0, Bases
  <2>4. QED
    BY <2>2, <2>3
<1>8. h \in Int
  BY Bases
<1> HIDE DEF b, f, h
<1>9. ~(c < 0)
  BY <1>1, <1>2, <1>3, <1>4, <1>5, Bases
<1>10. ~(DigitBase <= c)
  BY <1>0, <1>1, <1>2, <1>3, <1>4, <1>6, <1>7, <1>8, Bases
<1>11. c \in 0 .. DigitBase - 1
  BY <1>2, <1>9, <1>10, Bases
<1>12. x = 0 => c = 0
  <2>1. SUFFICES ASSUME x = 0 PROVE ~(1 <= c)
    BY <1>11, Bases
  <2>2. b = 0
    BY <2>1, Bases DEF b
  <2>3. 1 <= c => ByteBase <= f
    <3>1. 1 <= c => 1 * ByteBase <= f
      BY <1>2, Bases, Multiples DEF f
    <3>2. 1 * ByteBase = ByteBase
      BY Bases
    <3>3. QED
      BY <3>1, <3>2
  <2>4. QED
    BY <1>0, <1>1, <1>2, <1>3, <1>4, <2>2, <2>3, Bases
<1>13. QED
  BY <1>2, <1>4, <1>11, <1>12 DEF c, r, y, f

\* Division computes them.
LEMMA DivisionRuns ==
  ASSUME NEW s \in Seq(Nat), NEW from \in 0 .. Len(s), NEW r, Remainders(r, s, from)
  PROVE  Division(s, from) =
           [tmp |-> Divided(r, s, from, Len(s) - from), remainder |-> r[Len(s) - from]]
<1> DEFINE n == Len(s)
           q == n - from
           places == [k \in 1 .. q |-> from + k]
           g == CHOOSE g : DivisionTurns(g, s, places)
           V == [tmp : [1 .. n -> Nat], remainder : Nat]
           b == [tmp |-> s, remainder |-> 0]
<1>1. n \in Nat /\ q \in Nat /\ from \in Nat /\ s \in [1 .. n -> Nat]
      /\ \A k \in 1 .. q : from + k \in 1 .. n
  <2>1. n \in Nat /\ s \in [1 .. n -> Nat]
    BY LenProperties
  <2>2. QED
    BY <2>1
<1>2. /\ r \in [0 .. q -> Nat] /\ r[0] = 0
      /\ \A k \in 1 .. q : r[k] = (r[k - 1] * DigitBase + s[from + k]) % ByteBase
  BY DEF Remainders
<1>3. Division(s, from) = g[DOMAIN places]
  BY Zenon DEF Division, FoldLeft, MapThenFoldSet, DivisionTurns
<1>4. DOMAIN places = 1 .. q /\ \A k \in 1 .. q : places[k] = from + k
  OBVIOUS
<1> HIDE DEF n, q, places, V
<1>5. ASSUME NEW x \in Nat, NEW k \in 1 .. n
      PROVE  (x * DigitBase + s[k]) \div ByteBase \in Nat /\ (x * DigitBase + s[k]) % ByteBase \in Nat
  <2> DEFINE y == x * DigitBase + s[k]
             c == y \div ByteBase
             e == y % ByteBase
             f == c * ByteBase
  <2>1. y \in Nat
    <3>1. x * DigitBase \in Nat /\ s[k] \in Nat
      BY <1>1, Bases
    <3>2. QED
      BY <3>1
  <2> HIDE DEF y
  <2>2. c \in Int /\ e \in 0 .. ByteBase - 1 /\ y = ByteBase * c + e
    BY <2>1, Bases, DivMod
  <2> HIDE DEF c, e
  <2>3. f = ByteBase * c /\ f \in Int /\ (c < 0 => f + ByteBase <= 0)
    BY <2>2, Bases, Multiples
  <2> HIDE DEF f
  <2>4. c \in Nat /\ e \in Nat
    BY <2>1, <2>2, <2>3, Bases
  <2>5. QED
    BY <2>4 DEF c, e, y
<1>6. b \in V
  BY <1>1 DEF V
<1>7. \A x \in V : x.tmp \in [1 .. n -> Nat] /\ x.remainder \in Nat
  BY DEF V
<1> DEFINE quo(x, k) == (x.remainder * DigitBase + s[from + k]) \div ByteBase
           rem(x, k) == (x.remainder * DigitBase + s[from + k]) % ByteBase
           turn(x, k) == [tmp |-> [x.tmp EXCEPT ![from + k] = quo(x, k)], remainder |-> rem(x, k)]
<1>8. ASSUME NEW x \in V, NEW k \in 1 .. q PROVE turn(x, k) \in V
  <2>1. from + k \in 1 .. n /\ x.tmp \in [1 .. n -> Nat] /\ x.remainder \in Nat
    BY <1>1, <1>7
  <2>2. quo(x, k) \in Nat /\ rem(x, k) \in Nat
    BY <1>5, <2>1
  <2> HIDE DEF quo, rem
  <2>3. [x.tmp EXCEPT ![from + k] = quo(x, k)] \in [1 .. n -> Nat]
    BY <2>1, <2>2
  <2>4. QED
    BY <2>2, <2>3 DEF V
<1>9. DivisionTurns(g, s, places)
  <2> DEFINE step == [p \in (1 .. q) \X V |-> turn(p[2], p[1])]
  <2>1. step \in [(1 .. q) \X V -> V]
    <3> HIDE DEF turn
    <3>1. QED
      BY <1>8
  <2>2. \A k \in 1 .. q, x \in V : step[<<k, x>>] = turn(x, k)
    OBVIOUS
  <2> HIDE DEF step
  <2>3. PICK h \in [SUBSET (1 .. q) -> V] :
          \A d \in SUBSET (1 .. q) :
            /\ h[d] = IF d = {} THEN b ELSE step[<<Max(d), h[d \ {Max(d)}]>>]
            /\ d # {} => Max(d) \in 1 .. q
    BY <1>1, <1>6, <2>1, FoldExists
  <2> DEFINE next(d) == [tmp |-> [h[d \ {Max(d)}].tmp EXCEPT ![places[Max(d)]] =
                          (h[d \ {Max(d)}].remainder * DigitBase + s[places[Max(d)]]) \div ByteBase],
               remainder |->
                 (h[d \ {Max(d)}].remainder * DigitBase + s[places[Max(d)]]) % ByteBase]
  <2>4. ASSUME NEW d \in SUBSET (1 .. q)
        PROVE  h[d] = IF d = {} THEN [tmp |-> s, remainder |-> 0] ELSE next(d)
    <3>1. CASE d = {}
      BY <2>3, <3>1
    <3>2. CASE d # {}
      <4>1. Max(d) \in 1 .. q /\ h[d \ {Max(d)}] \in V
        BY <2>3, <3>2
      <4>2. h[d] = turn(h[d \ {Max(d)}], Max(d))
        <5> HIDE DEF turn
        <5>1. QED
          BY <2>2, <2>3, <3>2, <4>1
      <4>3. places[Max(d)] = from + Max(d)
        BY <1>4, <4>1
      <4>4. turn(h[d \ {Max(d)}], Max(d)) = next(d)
        BY <4>3, Zenon
      <4> HIDE DEF turn, next
      <4>5. QED
        BY <3>2, <4>2, <4>4
    <3>3. QED
      BY <3>1, <3>2
  <2>5. h = [d \in SUBSET (1 .. q) |-> h[d]]
    BY <2>3
  <2>6. DivisionTurns(h, s, places)
    BY <1>4, <2>4, <2>5, Zenon DEF DivisionTurns
  <2>7. QED
    BY <2>6, Zenon
<1> HIDE DEF g
<1>10. ASSUME NEW d \in SUBSET (1 .. q), d # {}, Max(d) \in 1 .. q
       PROVE  g[d] = turn(g[d \ {Max(d)}], Max(d))
  <2>1. g[d] = [tmp |-> [g[d \ {Max(d)}].tmp EXCEPT ![places[Max(d)]] =
                          (g[d \ {Max(d)}].remainder * DigitBase + s[places[Max(d)]]) \div ByteBase],
               remainder |->
                 (g[d \ {Max(d)}].remainder * DigitBase + s[places[Max(d)]]) % ByteBase]
    BY <1>4, <1>9, <1>10, Zenon DEF DivisionTurns
  <2>2. places[Max(d)] = from + Max(d)
    BY <1>4, <1>10
  <2>3. QED
    BY <2>1, <2>2, Zenon
<1>11. g[{}] = b
  <2>1. {} \in SUBSET (1 .. q)
    OBVIOUS
  <2>2. QED
    BY <1>4, <1>9, <2>1, Zenon DEF DivisionTurns
<1> HIDE DEF turn
<1> DEFINE At(k) == [tmp |-> Divided(r, s, from, k), remainder |-> r[k]]
           T == {k \in Nat : k <= q => g[1 .. k] = At(k)}
<1>12. 0 \in T
  <2>1. 1 .. 0 = {}
    OBVIOUS
  <2>2. Divided(r, s, from, 0) = s
    <3>1. Divided(r, s, from, 0) = [i \in 1 .. n |-> s[i]]
      <4>1. \A i \in 1 .. n : ~(from < i /\ i <= from + 0)
        BY <1>1
      <4>2. QED
        BY <4>1 DEF Divided, n
    <3>2. QED
      BY <1>1, <3>1
  <2>3. QED
    BY <1>2, <1>11, <2>1, <2>2
<1>13. ASSUME NEW k \in Nat, k \in T PROVE k + 1 \in T
  <2>1. SUFFICES ASSUME k + 1 <= q PROVE g[1 .. k + 1] = At(k + 1)
    OBVIOUS
  <2>2. /\ k + 1 \in Nat /\ k + 1 # 0 /\ (k + 1) - 1 = k /\ k + 1 \in 1 .. q /\ k \in 0 .. q /\ k <= q
        /\ 1 .. k + 1 \in SUBSET (1 .. q)
    BY <1>1, <2>1
  <2>3. 1 .. k + 1 # {} /\ Max(1 .. k + 1) = k + 1 /\ (1 .. k + 1) \ {k + 1} = 1 .. k
    BY <2>2, LastPlace
  <2>4. g[1 .. k] = At(k)
    BY <1>13, <2>2
  <2> HIDE DEF T, At
  <2>5. g[1 .. k + 1] = turn(At(k), k + 1)
    BY <1>10, <2>2, <2>3, <2>4
  <2> DEFINE o == from + (k + 1)
             c == (r[k] * DigitBase + s[o]) \div ByteBase
  <2>6. turn(At(k), k + 1) =
          [tmp |-> [Divided(r, s, from, k) EXCEPT ![o] = c],
           remainder |-> (r[k] * DigitBase + s[o]) % ByteBase]
    <3>1. At(k).tmp = Divided(r, s, from, k) /\ At(k).remainder = r[k]
      BY DEF At
    <3>2. QED
      BY <3>1, Zenon DEF turn
  <2>7. (r[k] * DigitBase + s[o]) % ByteBase = r[k + 1]
    BY <1>2, <2>2
  <2>8. [Divided(r, s, from, k) EXCEPT ![o] = c] = Divided(r, s, from, k + 1)
    <3> DEFINE D == Divided(r, s, from, k)
               E == Divided(r, s, from, k + 1)
    <3>1. DOMAIN D = 1 .. n /\ D = [i \in 1 .. n |-> D[i]] /\ E = [i \in 1 .. n |-> E[i]]
      BY DEF Divided, n
    <3>2. o \in 1 .. n /\ from < o /\ o <= from + (k + 1) /\ o - from - 1 = k
      BY <1>1, <2>2
    <3>3. E[o] = c
      BY <3>2 DEF Divided, n
    <3>4. ASSUME NEW i \in 1 .. n, i # o PROVE E[i] = D[i]
      <4>1. (from < i /\ i <= from + (k + 1)) <=> (from < i /\ i <= from + k)
        BY <1>1, <2>2, <3>4
      <4>2. QED
        BY <4>1 DEF Divided, n
    <3> HIDE DEF c, o, D, E
    <3>5. [D EXCEPT ![o] = c] = [i \in 1 .. n |-> E[i]]
      BY <3>1, <3>2, <3>3, <3>4
    <3>6. QED
      BY <3>1, <3>5 DEF D, E
  <2>9. QED
    BY <2>5, <2>6, <2>7, <2>8 DEF At
<1> HIDE DEF T
<1>14. Nat \subseteq T
  BY <1>12, <1>13, NaturalsIn
<1>15. g[1 .. q] = At(q)
  BY <1>1, <1>14 DEF T
<1>16. QED
  BY <1>3, <1>4, <1>15 DEF q, n

\* The remainders are bytes.
LEMMA RemaindersAre ==
  ASSUME NEW s \in Seq(0 .. DigitBase - 1), NEW from \in 0 .. Len(s), NEW r, Remainders(r, s, from)
  PROVE  \A k \in 0 .. Len(s) - from : r[k] \in 0 .. ByteBase - 1
<1> DEFINE q == Len(s) - from
<1>1. Len(s) \in Nat /\ q \in Nat /\ from \in Nat
      /\ \A k \in 1 .. Len(s) : s[k] \in 0 .. DigitBase - 1
  <2>1. Len(s) \in Nat
    BY LenProperties
  <2>2. \A k \in 1 .. Len(s) : s[k] \in 0 .. DigitBase - 1
    BY ElementOfSeq
  <2>3. QED
    BY <2>1, <2>2
<1>2. /\ r[0] = 0
      /\ \A k \in 1 .. q : r[k] = (r[k - 1] * DigitBase + s[from + k]) % ByteBase
  BY DEF Remainders
<1> HIDE DEF q
<1> DEFINE T == {k \in Nat : k <= q => r[k] \in 0 .. ByteBase - 1}
<1>3. 0 \in T
  BY <1>2, Bases
<1>4. ASSUME NEW k \in Nat, k \in T PROVE k + 1 \in T
  <2>1. SUFFICES ASSUME k + 1 <= q PROVE r[k + 1] \in 0 .. ByteBase - 1
    OBVIOUS
  <2>2. k + 1 \in 1 .. q /\ (k + 1) - 1 = k /\ k <= q /\ from + (k + 1) \in 1 .. Len(s)
    BY <1>1, <2>1 DEF q
  <2>3. r[k] \in 0 .. ByteBase - 1 /\ s[from + (k + 1)] \in 0 .. DigitBase - 1
    BY <1>1, <1>4, <2>2
  <2>4. (r[k] * DigitBase + s[from + (k + 1)]) % ByteBase \in 0 .. ByteBase - 1
    BY <2>3, DivideDigit
  <2>5. QED
    BY <1>2, <2>2, <2>4
<1> HIDE DEF T
<1>5. Nat \subseteq T
  BY <1>3, <1>4, NaturalsIn
<1>6. \A k \in 0 .. q : k \in Nat /\ k <= q
  OBVIOUS
<1>7. QED
  BY <1>5, <1>6 DEF T, q

\* What Division returns: digits again, the first of them used up, and a byte.
LEMMA DivisionReturns ==
  ASSUME NEW s \in Seq(0 .. DigitBase - 1), NEW from \in 0 .. Len(s), from < Len(s),
         \A k \in 1 .. from : s[k] = 0
  PROVE  /\ Division(s, from).tmp \in Seq(0 .. DigitBase - 1)
         /\ Len(Division(s, from).tmp) = Len(s)
         /\ Division(s, from).remainder \in 0 .. ByteBase - 1
         /\ \A k \in 1 .. from + 1 : Division(s, from).tmp[k] = 0
<1> DEFINE n == Len(s)
           q == n - from
<1>1. n \in Nat /\ q \in Nat /\ from \in Nat /\ q \in 0 .. q /\ 0 \in 0 .. q
      /\ from + 1 \in 1 .. n /\ s \in Seq(Nat)
      /\ \A k \in 1 .. n : s[k] \in 0 .. DigitBase - 1
  <2>1. n \in Nat
    BY LenProperties
  <2>2. \A k \in 1 .. n : s[k] \in 0 .. DigitBase - 1
    BY ElementOfSeq
  <2>3. 0 .. DigitBase - 1 \subseteq Nat
    OBVIOUS
  <2>4. s \in Seq(Nat)
    BY <2>3, SeqMonotonic
  <2>5. QED
    BY <2>1, <2>2, <2>4
<1>2. PICK r : Remainders(r, s, from)
  BY RemaindersExist
<1>3. \A k \in 0 .. q : r[k] \in 0 .. ByteBase - 1
  BY <1>2, RemaindersAre
<1>4. r[0] = 0
  BY <1>2 DEF Remainders
<1> DEFINE D == Divided(r, s, from, q)
<1>5. Division(s, from) = [tmp |-> D, remainder |-> r[q]]
  BY <1>1, <1>2, DivisionRuns
<1>6. Division(s, from).tmp = D /\ Division(s, from).remainder = r[q]
  BY <1>5
<1>7. /\ D = [i \in 1 .. n |-> D[i]]
      /\ \A i \in 1 .. n : D[i] = IF from < i /\ i <= from + q
                                   THEN (r[i - from - 1] * DigitBase + s[i]) \div ByteBase ELSE s[i]
  BY DEF Divided
<1> HIDE DEF D
<1>8. ASSUME NEW i \in 1 .. n
      PROVE  /\ D[i] \in 0 .. DigitBase - 1
             /\ i <= from + 1 => D[i] = 0
  <2>1. CASE i <= from
    <3>1. i \in 1 .. from /\ ~(from < i)
      BY <1>1, <2>1
    <3>2. D[i] = s[i] /\ s[i] = 0
      BY <1>7, <3>1
    <3>3. QED
      BY <3>2, Bases
  <2>2. CASE from < i
    <3>1. i <= from + q /\ i - from - 1 \in 0 .. q /\ (i <= from + 1 => i - from - 1 = 0)
      BY <1>1, <2>2
    <3>2. D[i] = (r[i - from - 1] * DigitBase + s[i]) \div ByteBase
      BY <1>7, <2>2, <3>1
    <3> DEFINE x == r[i - from - 1]
               a == s[i]
    <3>3. x \in 0 .. ByteBase - 1 /\ a \in 0 .. DigitBase - 1 /\ (i <= from + 1 => x = 0)
      BY <1>1, <1>3, <1>4, <3>1
    <3> HIDE DEF x, a, q
    <3>4. /\ (x * DigitBase + a) \div ByteBase \in 0 .. DigitBase - 1
          /\ x = 0 => (x * DigitBase + a) \div ByteBase = 0
      BY <3>3, DivideDigit
    <3>5. QED
      BY <3>2, <3>3, <3>4 DEF x, a
  <2>3. QED
    BY <1>1, <2>1, <2>2
<1> HIDE DEF n, q
<1>9. D \in [1 .. n -> 0 .. DigitBase - 1]
  BY <1>7, <1>8
<1>10. D \in Seq(0 .. DigitBase - 1) /\ Len(D) = n
  <2> DEFINE S == 0 .. DigitBase - 1
  <2>1. D \in [1 .. n -> S] /\ n \in Nat
    BY <1>1, <1>9
  <2> HIDE DEF S
  <2>2. D \in Seq(S) /\ Len(D) = n
    BY <2>1
  <2>3. QED
    BY <2>2 DEF S
<1>11. \A k \in 1 .. from + 1 : D[k] = 0
  <2>1. TAKE k \in 1 .. from + 1
  <2>2. k \in 1 .. n /\ k <= from + 1
    BY <1>1
  <2>3. QED
    BY <1>8, <2>2
<1>12. r[q] \in 0 .. ByteBase - 1
  BY <1>1, <1>3
<1>13. QED
  BY <1>6, <1>10, <1>11, <1>12 DEF n

\* It divides the number.
LEMMA DivisionDivides ==
  ASSUME NEW s \in Seq(0 .. DigitBase - 1), NEW from \in 0 .. Len(s), from < Len(s),
         \A k \in 1 .. from : s[k] = 0,
         NEW v, Counts(v, s, DigitBase),
         NEW u, Counts(u, Division(s, from).tmp, DigitBase)
  PROVE  v[Len(s)] = u[Len(s)] * ByteBase + Division(s, from).remainder
<1> DEFINE n == Len(s)
           q == n - from
<1>1. n \in Nat /\ q \in Nat /\ from \in Nat /\ s \in Seq(Nat) /\ from + q = n
      /\ \A k \in 1 .. n : s[k] \in 0 .. DigitBase - 1
  <2>1. n \in Nat
    BY LenProperties
  <2>2. \A k \in 1 .. n : s[k] \in 0 .. DigitBase - 1
    BY ElementOfSeq
  <2>3. 0 .. DigitBase - 1 \subseteq Nat
    OBVIOUS
  <2>4. s \in Seq(Nat)
    BY <2>3, SeqMonotonic
  <2>5. QED
    BY <2>1, <2>2, <2>4
<1>2. PICK r : Remainders(r, s, from)
  BY RemaindersExist
<1>3. \A k \in 0 .. q : r[k] \in 0 .. ByteBase - 1
  BY <1>2, RemaindersAre
<1>4. /\ r[0] = 0
      /\ \A k \in 1 .. q : r[k] = (r[k - 1] * DigitBase + s[from + k]) % ByteBase
  BY <1>2 DEF Remainders
<1> DEFINE D == Divided(r, s, from, q)
<1>5. Division(s, from) = [tmp |-> D, remainder |-> r[q]]
  BY <1>1, <1>2, DivisionRuns
<1>6. Division(s, from).tmp = D /\ Division(s, from).remainder = r[q]
  BY <1>5
<1>7. \A i \in 1 .. n : D[i] = IF from < i /\ i <= from + q
                                 THEN (r[i - from - 1] * DigitBase + s[i]) \div ByteBase ELSE s[i]
  BY DEF Divided
<1> HIDE DEF D
<1>8. D \in Seq(0 .. DigitBase - 1) /\ Len(D) = n /\ \A k \in 1 .. from : D[k] = 0
  <2>1. \A k \in 1 .. from : k \in 1 .. from + 1
    BY <1>1
  <2>2. QED
    BY <1>6, <2>1, DivisionReturns
<1>9. D \in Seq(Nat)
  <2>1. 0 .. DigitBase - 1 \subseteq Nat
    OBVIOUS
  <2>2. QED
    BY <1>8, <2>1, SeqMonotonic
<1>10. Counts(v, s, DigitBase) /\ Counts(u, D, DigitBase)
  BY <1>6
<1>11. /\ v \in [0 .. n -> Nat] /\ u \in [0 .. n -> Nat]
       /\ \A k \in 1 .. n : v[k] = v[k - 1] * DigitBase + s[k]
       /\ \A k \in 1 .. n : u[k] = u[k - 1] * DigitBase + D[k]
  BY <1>8, <1>10 DEF Counts
<1>12. v[from] = 0 /\ u[from] = 0
  <2>1. DigitBase \in Nat /\ from \in 0 .. Len(D)
    BY <1>8, Bases
  <2>2. v[from] = 0
    BY <1>1, <1>10, <2>1, CountsOfZeros
  <2>3. u[from] = 0
    BY <1>8, <1>9, <1>10, <2>1, CountsOfZeros
  <2>4. QED
    BY <2>2, <2>3
<1> DEFINE T == {k \in Nat : k <= q => v[from + k] = u[from + k] * ByteBase + r[k]}
<1>13. 0 \in T
  <2>1. from + 0 = from /\ 0 * ByteBase + 0 = 0
    BY <1>1, Bases
  <2>2. QED
    BY <1>4, <1>12, <2>1
<1>14. ASSUME NEW k \in Nat, k \in T PROVE k + 1 \in T
  <2>1. SUFFICES ASSUME k + 1 <= q PROVE v[from + (k + 1)] = u[from + (k + 1)] * ByteBase + r[k + 1]
    OBVIOUS
  <2> DEFINE o == from + (k + 1)
             w == u[o - 1]
             x == r[k]
             a == s[o]
             y == x * DigitBase + a
             c == y \div ByteBase
             e == y % ByteBase
  <2>2. /\ k <= q /\ k + 1 \in 1 .. q /\ (k + 1) - 1 = k /\ k \in 0 .. q
        /\ o \in 1 .. n /\ o - 1 = from + k /\ o - 1 \in 0 .. n
        /\ from < o /\ o <= from + q /\ o - from - 1 = k
    BY <1>1, <2>1
  <2>3. v[o - 1] = w * ByteBase + x
    BY <1>14, <2>2
  <2> HIDE DEF T, o, q, n
  <2>4. D[o] = c /\ r[k + 1] = e /\ v[o] = v[o - 1] * DigitBase + a /\ u[o] = w * DigitBase + c
    BY <1>4, <1>7, <1>11, <2>2 DEF o
  <2>5. w \in Nat /\ x \in 0 .. ByteBase - 1 /\ a \in 0 .. DigitBase - 1
    BY <1>1, <1>3, <1>11, <2>2
  <2>6. y = c * ByteBase + e /\ c \in 0 .. DigitBase - 1 /\ e \in 0 .. ByteBase - 1
    <3> HIDE DEF x, a
    <3>1. QED
      BY <2>5, DivideDigit
  <2>7. x \in Int /\ a \in Int /\ c \in Int /\ e \in Int /\ DigitBase \in Int /\ ByteBase \in Int
    <3> HIDE DEF x, a, c, e
    <3>1. QED
      BY <2>5, <2>6, Bases
  <2> HIDE DEF w, x, a, c, e
  <2> DEFINE f == w * ByteBase
             g == w * DigitBase
             h == f * DigitBase
             i == x * DigitBase
             m == c * ByteBase
  <2>8. /\ f \in Int /\ g \in Int /\ h \in Int /\ i \in Int /\ m \in Int
        /\ (f + x) * DigitBase = h + i /\ (g + c) * ByteBase = g * ByteBase + m
        /\ g * ByteBase = h
    <3>1. f \in Int /\ g \in Int /\ i \in Int /\ m \in Int /\ g * ByteBase = h
      BY <2>5, <2>7
    <3> HIDE DEF f, g
    <3>2. h \in Int
      BY <2>7, <3>1
    <3>3. (f + x) * DigitBase = h + i /\ (g + c) * ByteBase = g * ByteBase + m
      BY <2>7, <3>1, Distribute
    <3>4. QED
      BY <3>1, <3>2, <3>3
  <2>9. i + a = m + e
    BY <2>6
  <2>10. v[o] = (h + i) + a /\ u[o] * ByteBase = h + m
    <3>1. v[o] = (f + x) * DigitBase + a
      BY <2>3, <2>4
    <3>2. u[o] = g + c
      BY <2>4
    <3>3. QED
      BY <2>8, <3>1, <3>2
  <2> HIDE DEF f, g, h, i, m
  <2>11. (h + i) + a = (h + m) + e
    BY <2>7, <2>8, <2>9
  <2>12. v[o] = u[o] * ByteBase + r[k + 1]
    BY <2>4, <2>10, <2>11
  <2>13. QED
    BY <2>12 DEF o
<1> HIDE DEF T
<1>15. Nat \subseteq T
  BY <1>13, <1>14, NaturalsIn
<1>16. v[n] = u[n] * ByteBase + r[q]
  BY <1>1, <1>15 DEF T
<1>17. QED
  BY <1>6, <1>16

-----------------------------------------------------------------------------
\* The text, and the decoder.

\* A list from a place on.
LEMMA RestIs ==
  ASSUME NEW S, NEW s \in Seq(S), NEW l \in 0 .. Len(s)
  PROVE  /\ SubSeq(s, l + 1, Len(s)) \in Seq(S) /\ Len(SubSeq(s, l + 1, Len(s))) = Len(s) - l
         /\ \A k \in 1 .. Len(s) - l : SubSeq(s, l + 1, Len(s))[k] = s[l + k]
<1> DEFINE n == Len(s)
           m == l + 1
<1>1. n \in Nat /\ m \in Int /\ n \in Int /\ \A k \in m .. n : k \in 1 .. n
  BY LenProperties
<1>2. \A k \in m .. n : s[k] \in S
  BY <1>1, ElementOfSeq
<1>3. n - m + 1 = n - l /\ (m <= n => n - m + 1 = n - l) /\ (~(m <= n) => n - l = 0)
      /\ \A k \in 1 .. n - l : m + k - 1 = l + k
  BY <1>1
<1> HIDE DEF n, m
<1>4. /\ SubSeq(s, m, n) \in Seq(S)
      /\ Len(SubSeq(s, m, n)) = IF m <= n THEN n - m + 1 ELSE 0
      /\ \A k \in 1 .. n - m + 1 : SubSeq(s, m, n)[k] = s[m + k - 1]
  BY <1>1, <1>2, SubSeqProperties
<1>5. QED
  BY <1>3, <1>4 DEF n, m

\* t is d without the zeros in front, after z of them.
Padded(t, d, z) ==
  /\ Len(t) = z + (Len(d) - LeadingZeros(d))
  /\ \A k \in 1 .. z : t[k] = 0
  /\ \A k \in 1 .. Len(d) - LeadingZeros(d) : t[z + k] = d[LeadingZeros(d) + k]

\* It has z zeros in front, and the same number.
LEMMA PaddedIs ==
  ASSUME NEW base \in Nat, NEW d \in Seq(Nat), NEW t \in Seq(Nat), NEW z \in Nat, Padded(t, d, z)
  PROVE  /\ LeadingZeros(t) = z
         /\ \A v, u : Counts(v, d, base) /\ Counts(u, t, base) => u[Len(t)] = v[Len(d)]
<1> DEFINE l == LeadingZeros(d)
           m == Len(d) - l
<1>1. /\ l \in 0 .. Len(d) /\ l \in Nat /\ Len(d) \in Nat
      /\ (\A k \in 1 .. l : d[k] = 0) /\ (l < Len(d) => d[l + 1] # 0)
  BY ZerosLead
<1>2. /\ Len(t) = z + m /\ (\A k \in 1 .. z : t[k] = 0)
      /\ \A k \in 1 .. m : t[z + k] = d[l + k]
  BY DEF Padded
<1> HIDE DEF l
<1>3. m \in Nat /\ l + m = Len(d) /\ z \in 0 .. Len(t) /\ Len(t) \in Nat /\ (m = 0 => l = Len(d))
  BY <1>1, <1>2
<1>4. z < Len(t) => t[z + 1] # 0
  <2>1. SUFFICES ASSUME z < Len(t) PROVE t[z + 1] # 0
    OBVIOUS
  <2> HIDE DEF m
  <2>2. 1 \in 1 .. m /\ l < Len(d)
    BY <1>1, <1>2, <1>3, <2>1
  <2>3. QED
    BY <1>1, <1>2, <2>2
<1>5. LeadingZeros(t) = z
  BY <1>2, <1>3, <1>4, LeadingIs
<1>6. ASSUME NEW v, NEW u, Counts(v, d, base), Counts(u, t, base) PROVE u[Len(t)] = v[Len(d)]
  <2>1. v[l] = 0
    BY <1>1, <1>6, CountsOfZeros
  <2>2. u[z] = 0
    BY <1>2, <1>3, <1>6, CountsOfZeros
  <2> HIDE DEF m
  <2>3. SameElements(t, d, z, l, m)
    BY <1>1, <1>2, <1>3 DEF SameElements
  <2>4. u[z + m] = v[l + m]
    BY <1>1, <1>3, <1>6, <2>1, <2>2, <2>3, CountsFollow
  <2>5. QED
    BY <1>2, <1>3, <2>4
<1>7. QED
  BY <1>5, <1>6

\* The text: it has the zeros of the bytes, and their number.
TextHolds ==
  /\ text \in Seq(0 .. DigitBase - 1) /\ LeadingZeros(text) = zeroCount
  /\ \E v, t : /\ Counts(v, in, ByteBase) /\ Counts(t, text, DigitBase)
               /\ t[Len(text)] = v[Len(in)]

\* Between two passes: the digits not used up, and the bytes written, from place j on, have
\* the number of the bytes encoded.
PassHolds ==
  /\ buffer \in [0 .. Len(text) - 1 -> 0 .. ByteBase - 1]
  /\ tmp \in Seq(0 .. DigitBase - 1) /\ Len(tmp) = Len(text)
  /\ startAt \in zeroCount .. Len(text)
  /\ j = Len(text) - (startAt - zeroCount)
  /\ \A k \in 1 .. startAt : tmp[k] = 0
  /\ \A k \in 0 .. Len(text) - 1 : k < j => buffer[k] = 0
  /\ \E v, t, u : /\ Counts(v, in, ByteBase) /\ Counts(t, tmp, DigitBase)
                  /\ Counts(u, Digits(buffer, Len(text)), ByteBase)
                  /\ t[Len(text)] * BytePower[Len(text) - j] + u[Len(text)] = v[Len(in)]

\* The invariant of a call of both.
CodeInv ==
  /\ EncodeInv
  /\ pc \in {"encoded", "pass"} => TextHolds
  /\ pc = "pass" => PassHolds
  /\ pc = "decoded" => decoded = in

\* The digits, without the zeros in front, after a zero for every zero byte.
LEMMA TextIs ==
  ASSUME EncodeInv, EncodeReturn
  PROVE  TextHolds'
<1> DEFINE n == outputSize
           z == zeroCount
           d == Digits(buffer, n)
           l == LeadingZeros(d)
           a == ZeroDigits(z)
           b == SubSeq(d, l + 1, n)
           S == 0 .. DigitBase - 1
<1>1. /\ in \in Seq(0 .. ByteBase - 1) /\ buffer \in [0 .. n - 1 -> 0 .. DigitBase - 1]
      /\ startAt \in z .. Len(in) /\ ByteHolds /\ startAt >= Len(in)
      /\ text' = a \o b /\ in' = in
  BY DEF EncodeInv, EncodeReturn
<1>2. in \in Seq(Nat) /\ Len(in) \in Nat /\ z \in Nat /\ n \in Nat
  <2>1. z = LeadingZeros(in) /\ n = OutputSize(Len(in) - LeadingZeros(in))
    BY DEF zeroCount, outputSize
  <2>2. QED
    BY <1>1, <2>1, Sizes
<1>3. PICK v, u : Counts(v, in, ByteBase) /\ Counts(u, d, DigitBase) /\ u[n] = v[startAt]
  BY <1>1, Zenon DEF ByteHolds
<1>4. z' = z
  BY <1>1 DEF zeroCount
<1> HIDE DEF n, z
<1>5. DigitBase \in Nat /\ 0 \in S /\ S \subseteq Nat
  BY Bases
<1>6. d \in Seq(Nat) /\ Len(d) = n /\ d \in Seq(S)
  BY <1>1, <1>2, <1>5, DigitsOf
<1> HIDE DEF d, S
<1>7. l \in 0 .. Len(d)
  BY <1>6, ZerosLead
<1> HIDE DEF l
<1>8. a \in Seq(S) /\ Len(a) = z /\ \A k \in 1 .. z : a[k] = 0
  <2>1. a = [k \in 1 .. z |-> 0]
    BY DEF ZeroDigits
  <2> HIDE DEF a
  <2>2. a \in [1 .. z -> S]
    BY <1>5, <2>1
  <2>3. a \in Seq(S) /\ Len(a) = z
    BY <1>2, <2>2
  <2>4. QED
    BY <2>1, <2>3
<1>9. b \in Seq(S) /\ Len(b) = n - l /\ \A k \in 1 .. n - l : b[k] = d[l + k]
  BY <1>6, <1>7, RestIs
<1> HIDE DEF a, b
<1> DEFINE t == a \o b
<1>10. t \in Seq(S) /\ Len(t) = z + (n - l)
       /\ (\A k \in 1 .. z : t[k] = 0)
       /\ \A k \in 1 .. n - l : t[z + k] = d[l + k]
  <2>1. t \in Seq(S) /\ Len(t) = Len(a) + Len(b)
    BY <1>8, <1>9, ConcatProperties
  <2>2. \A k \in 1 .. Len(a) + Len(b) : t[k] = IF k <= Len(a) THEN a[k] ELSE b[k - Len(a)]
    BY <1>8, <1>9, ConcatProperties
  <2> HIDE DEF t
  <2>3. n - l \in Nat
    BY <1>2, <1>6, <1>7
  <2>4. \A k \in 1 .. z : t[k] = 0
    BY <1>2, <1>8, <1>9, <2>2, <2>3
  <2>5. ASSUME NEW k \in 1 .. n - l PROVE t[z + k] = d[l + k]
    <3>1. z + k \in 1 .. Len(a) + Len(b) /\ ~(z + k <= Len(a)) /\ (z + k) - Len(a) = k
      BY <1>2, <1>8, <1>9, <2>3
    <3>2. QED
      BY <1>9, <2>2, <3>1
  <2>6. QED
    BY <1>8, <1>9, <2>1, <2>4, <2>5
<1>11. t \in Seq(Nat)
  BY <1>5, <1>10, SeqMonotonic
<1> HIDE DEF t
<1>12. Padded(t, d, z)
  BY <1>6, <1>10 DEF Padded, l
<1>13. PICK w : Counts(w, t, DigitBase)
  BY <1>5, <1>11, CountsExist
<1>14. LeadingZeros(t) = z /\ w[Len(t)] = u[Len(d)]
  BY <1>2, <1>3, <1>5, <1>6, <1>11, <1>12, <1>13, PaddedIs
<1>15. startAt = Len(in)
  BY <1>1, <1>2
<1>16. text' = t
  BY <1>1 DEF t
<1>17. text' \in Seq(0 .. DigitBase - 1) /\ LeadingZeros(text') = zeroCount'
       /\ Counts(v, in', ByteBase) /\ Counts(w, text', DigitBase) /\ w[Len(text')] = v[Len(in')]
  BY <1>1, <1>3, <1>4, <1>6, <1>10, <1>13, <1>14, <1>15, <1>16 DEF S, z
<1>18. QED
  BY <1>17, Zenon DEF TextHolds

\* btchip_decode_base58 begins with the whole text to divide and no bytes.
LEMMA DecodeCallKeeps ==
  ASSUME CodeInv, DecodeCall
  PROVE  PassHolds' /\ TextHolds'
<1> DEFINE n == Len(text)
           z == zeroCount
<1>1. in \in Seq(0 .. ByteBase - 1) /\ TextHolds
  BY DEF CodeInv, EncodeInv, DecodeCall
<1>2. /\ in' = in /\ text' = text /\ tmp' = text /\ startAt' = LeadingZeros(text) /\ j' = n
      /\ buffer' = [k \in 0 .. n - 1 |-> 0]
  BY DEF DecodeCall, encoding
<1>3. z' = z /\ z = LeadingZeros(in)
  BY <1>2 DEF zeroCount
<1>4. text \in Seq(0 .. DigitBase - 1) /\ LeadingZeros(text) = z
  BY <1>1 DEF TextHolds
<1>5. PICK v, t : /\ Counts(v, in, ByteBase) /\ Counts(t, text, DigitBase)
                  /\ t[n] = v[Len(in)]
  BY <1>1, Zenon DEF TextHolds
<1>6. text \in Seq(Nat) /\ n \in Nat
  <2>1. 0 .. DigitBase - 1 \subseteq Nat
    OBVIOUS
  <2>2. text \in Seq(Nat)
    BY <1>4, <2>1, SeqMonotonic
  <2>3. QED
    BY <2>2, LenProperties
<1> HIDE DEF n, z
<1>7. z \in 0 .. n /\ z \in Nat /\ \A k \in 1 .. z : text[k] = 0
  BY <1>4, <1>6, ZerosLead DEF n
<1>8. 0 \in 0 .. ByteBase - 1 /\ ByteBase \in Nat
  BY Bases
<1>9. buffer' \in [0 .. n - 1 -> 0 .. ByteBase - 1] /\ \A k \in 0 .. n - 1 : buffer'[k] = 0
  BY <1>2, <1>8
<1> DEFINE s == Digits(buffer', n)
<1>10. s \in Seq(Nat) /\ Len(s) = n /\ \A k \in 1 .. n : s[k] = buffer'[k - 1]
  BY <1>6, <1>8, <1>9, DigitsOf
<1> HIDE DEF s
<1>11. PICK u : Counts(u, s, ByteBase)
  BY <1>8, <1>10, CountsExist
<1>12. u[n] = 0
  <2>1. \A k \in 1 .. n : k - 1 \in 0 .. n - 1
    BY <1>6
  <2>2. n \in 0 .. Len(s) /\ \A k \in 1 .. n : s[k] = 0
    BY <1>6, <1>9, <1>10, <2>1
  <2>3. QED
    BY <1>8, <1>10, <1>11, <2>2, CountsOfZeros
<1>13. t[n] * BytePower[n - n] + u[n] = v[Len(in)]
  <2>1. n - n = 0 /\ BytePower[0] = 1
    BY <1>6, BasePowersStep
  <2>2. t[n] \in Nat
    <3>1. t \in [0 .. n -> Nat] /\ n \in 0 .. n
      BY <1>5, <1>6 DEF Counts, n
    <3>2. QED
      BY <3>1
  <2>3. t[n] * 1 + 0 = t[n]
    BY <2>2
  <2>4. QED
    BY <1>5, <1>12, <2>1, <2>3
<1>14. startAt' \in z .. n /\ j' = n - (startAt' - z)
  BY <1>2, <1>4, <1>6, <1>7
<1>15. PassHolds'
  <2>1. /\ buffer' \in [0 .. Len(text') - 1 -> 0 .. ByteBase - 1]
        /\ tmp' \in Seq(0 .. DigitBase - 1) /\ Len(tmp') = Len(text')
        /\ startAt' \in zeroCount' .. Len(text')
        /\ j' = Len(text') - (startAt' - zeroCount')
    BY <1>2, <1>3, <1>4, <1>9, <1>14 DEF n, z
  <2>2. \A k \in 1 .. startAt' : tmp'[k] = 0
    BY <1>2, <1>4, <1>7
  <2>3. \A k \in 0 .. Len(text') - 1 : k < j' => buffer'[k] = 0
    BY <1>2, <1>9 DEF n
  <2>4. /\ Counts(v, in', ByteBase) /\ Counts(t, tmp', DigitBase)
        /\ Counts(u, Digits(buffer', Len(text')), ByteBase)
        /\ t[Len(text')] * BytePower[Len(text') - j'] + u[Len(text')] = v[Len(in')]
    BY <1>2, <1>5, <1>11, <1>13 DEF n, s
  <2>5. QED
    BY <2>1, <2>2, <2>3, <2>4, Zenon DEF PassHolds
<1>16. TextHolds'
  BY <1>1, <1>2, <1>3 DEF TextHolds, z
<1>17. QED
  BY <1>15, <1>16

\* What a division takes from the digits is what it adds to the bytes.
LEMMA PassAdds ==
  ASSUME NEW t \in Int, NEW r \in Int, NEW p \in Int, NEW u \in Int, NEW b \in Int
  PROVE  t * (b * p) + (u + r * p) = (t * b + r) * p + u
<1> DEFINE x == t * b
           y == r * p
           z == x * p
<1>1. x \in Int /\ y \in Int
  OBVIOUS
<1>2. t * (b * p) = z
  OBVIOUS
<1> HIDE DEF x
<1>3. (x + r) * p = z + y /\ z \in Int
  BY <1>1, Distribute
<1> HIDE DEF y, z
<1>4. z + (u + y) = (z + y) + u
  BY <1>1, <1>3
<1>5. QED
  BY <1>2, <1>3, <1>4 DEF x, y

\* A pass uses up one digit and writes one byte.
LEMMA DecodePassKeeps ==
  ASSUME CodeInv, DecodePass
  PROVE  PassHolds' /\ TextHolds'
<1> DEFINE n == Len(text)
           z == zeroCount
           d == Division(tmp, startAt).tmp
           r == Division(tmp, startAt).remainder
<1>1. in \in Seq(0 .. ByteBase - 1) /\ TextHolds /\ PassHolds /\ startAt < n
  BY DEF CodeInv, EncodeInv, DecodePass
<1>2. /\ in' = in /\ text' = text /\ tmp' = d /\ j' = j - 1
      /\ buffer' = [k \in DOMAIN buffer |-> IF k = j - 1 THEN r ELSE buffer[k]]
      /\ startAt' = IF UsedUp(d, startAt) THEN startAt + 1 ELSE startAt
  BY DEF DecodePass, encoding
<1>3. z' = z /\ z = LeadingZeros(in)
  BY <1>2 DEF zeroCount
<1>4. /\ buffer \in [0 .. n - 1 -> 0 .. ByteBase - 1]
      /\ tmp \in Seq(0 .. DigitBase - 1) /\ Len(tmp) = n
      /\ startAt \in z .. n /\ j = n - (startAt - z)
      /\ \A k \in 1 .. startAt : tmp[k] = 0
      /\ \A k \in 0 .. n - 1 : k < j => buffer[k] = 0
  BY <1>1 DEF PassHolds
<1>5. PICK v, t, u :
        /\ Counts(v, in, ByteBase) /\ Counts(t, tmp, DigitBase)
        /\ Counts(u, Digits(buffer, n), ByteBase)
        /\ t[n] * BytePower[n - j] + u[n] = v[Len(in)]
  BY <1>1, Zenon DEF PassHolds
<1>6. n \in Nat /\ z \in Nat
  <2>1. text \in Seq(0 .. DigitBase - 1)
    BY <1>1 DEF TextHolds
  <2>2. n \in Nat
    BY <2>1, LenProperties
  <2>3. QED
    BY <1>1, <1>3, <2>2, Sizes
<1> HIDE DEF n, z, d, r
<1>7. startAt \in 0 .. n /\ startAt + 1 \in 1 .. n /\ startAt + 1 \in z .. n /\ j \in 1 .. n
      /\ j - 1 \in 0 .. n - 1 /\ j - 1 = n - ((startAt + 1) - z)
      /\ n - j \in Nat /\ (n - j) + 1 = n - (j - 1)
  BY <1>1, <1>4, <1>6
<1>8. /\ d \in Seq(0 .. DigitBase - 1) /\ Len(d) = n /\ r \in 0 .. ByteBase - 1
      /\ \A k \in 1 .. startAt + 1 : d[k] = 0
  BY <1>1, <1>4, <1>7, DivisionReturns DEF d, r
<1>9. startAt' = startAt + 1
  <2>1. startAt + 1 \in 1 .. startAt + 1
    BY <1>7
  <2>2. UsedUp(d, startAt)
    BY <1>8, <2>1 DEF UsedUp
  <2>3. QED
    BY <1>2, <2>2
<1>10. DigitBase \in Nat /\ ByteBase \in Nat \ {0} /\ ByteBase \in Nat /\ r \in Nat
  BY <1>8, Bases
<1>11. d \in Seq(Nat) /\ tmp \in Seq(Nat)
  <2>1. 0 .. DigitBase - 1 \subseteq Nat
    OBVIOUS
  <2>2. QED
    BY <1>4, <1>8, <2>1, SeqMonotonic
<1>12. PICK w : Counts(w, d, DigitBase)
  BY <1>10, <1>11, CountsExist
<1>13. t[n] = w[n] * ByteBase + r /\ t[n] \in Nat /\ w[n] \in Nat
  <2>1. Counts(w, Division(tmp, startAt).tmp, DigitBase)
    BY <1>12 DEF d
  <2>2. startAt \in 0 .. Len(tmp) /\ startAt < Len(tmp)
    BY <1>1, <1>4, <1>7
  <2>3. t[Len(tmp)] = w[Len(tmp)] * ByteBase + Division(tmp, startAt).remainder
    BY <1>4, <1>5, <2>1, <2>2, DivisionDivides
  <2>4. t \in [0 .. n -> Nat] /\ w \in [0 .. n -> Nat] /\ n \in 0 .. n
    BY <1>4, <1>5, <1>6, <1>8, <1>12 DEF Counts
  <2>5. QED
    BY <1>4, <2>3, <2>4 DEF r
<1>14. /\ buffer' \in [0 .. n - 1 -> 0 .. ByteBase - 1] /\ buffer'[j - 1] = r
       /\ \A k \in 0 .. n - 1 : k # j - 1 => buffer'[k] = buffer[k]
  BY <1>2, <1>4, <1>7, <1>8
<1> DEFINE s == Digits(buffer, n)
           q == Digits(buffer', n)
<1>15. /\ s \in Seq(Nat) /\ Len(s) = n /\ \A k \in 1 .. n : s[k] = buffer[k - 1]
       /\ q \in Seq(Nat) /\ Len(q) = n /\ \A k \in 1 .. n : q[k] = buffer'[k - 1]
  <2>1. s \in Seq(Nat) /\ Len(s) = n /\ \A k \in 1 .. n : s[k] = buffer[k - 1]
    BY <1>4, <1>6, <1>10, DigitsOf
  <2>2. q \in Seq(Nat) /\ Len(q) = n /\ \A k \in 1 .. n : q[k] = buffer'[k - 1]
    BY <1>6, <1>10, <1>14, DigitsOf
  <2>3. QED
    BY <2>1, <2>2
<1> HIDE DEF s, q
<1>16. PICK x : Counts(x, q, ByteBase)
  BY <1>10, <1>15, CountsExist
<1>17. Counts(u, s, ByteBase)
  BY <1>5 DEF s
<1>18. Differ(q, s, j) /\ s[j] = 0 /\ q[j] = r /\ j \in 1 .. Len(q)
  <2>1. ASSUME NEW k \in 1 .. n, k # j PROVE q[k] = s[k]
    <3>1. k - 1 \in 0 .. n - 1 /\ k - 1 # j - 1
      BY <1>6, <1>7, <2>1
    <3>2. QED
      BY <1>14, <1>15, <3>1
  <2>2. j - 1 < j
    BY <1>7
  <2>3. s[j] = 0 /\ q[j] = r
    BY <1>4, <1>7, <1>14, <1>15, <2>2
  <2>4. QED
    BY <1>7, <1>15, <2>1, <2>3 DEF Differ
<1> DEFINE p == BytePower[n - j]
<1>19. x[n] = u[n] + r * p
  <2> HIDE DEF p
  <2>1. /\ q \in Seq(Nat) /\ s \in Seq(Nat) /\ j \in 1 .. Len(q) /\ Differ(q, s, j)
        /\ Counts(x, q, ByteBase) /\ Counts(u, s, ByteBase)
        /\ ByteBase \in Nat \ {0} /\ PowersOf(BytePower, ByteBase)
    BY <1>10, <1>15, <1>16, <1>17, <1>18, BasePowers
  <2>2. x[Len(q)] = u[Len(q)] + (q[j] - s[j]) * BytePower[Len(q) - j]
    BY <2>1, CountsChange
  <2>3. Len(q) = n /\ q[j] - s[j] = r
    BY <1>10, <1>15, <1>18
  <2>4. QED
    BY <2>2, <2>3 DEF p
<1>20. p \in Nat /\ BytePower[n - (j - 1)] = ByteBase * p
  BY <1>7, BasePowersStep
<1> HIDE DEF p
<1>21. u[n] \in Nat
  <2>1. u \in [0 .. n -> Nat] /\ n \in 0 .. n
    BY <1>6, <1>15, <1>17 DEF Counts
  <2>2. QED
    BY <2>1
<1>22. w[n] * BytePower[n - (j - 1)] + x[n] = v[Len(in)]
  <2> DEFINE a == w[n]
             c == u[n]
  <2>1. a \in Int /\ c \in Int /\ r \in Int /\ p \in Int /\ ByteBase \in Int
    BY <1>10, <1>13, <1>20, <1>21
  <2> HIDE DEF a, c
  <2>2. a * (ByteBase * p) + (c + r * p) = (a * ByteBase + r) * p + c
    BY <2>1, PassAdds
  <2>3. t[n] * p + c = v[Len(in)]
    BY <1>5 DEF p, c
  <2>4. QED
    BY <1>13, <1>19, <1>20, <2>2, <2>3 DEF a, c
<1>23. PassHolds'
  <2>1. /\ buffer' \in [0 .. Len(text') - 1 -> 0 .. ByteBase - 1]
        /\ tmp' \in Seq(0 .. DigitBase - 1) /\ Len(tmp') = Len(text')
        /\ startAt' \in zeroCount' .. Len(text')
        /\ j' = Len(text') - (startAt' - zeroCount')
    BY <1>2, <1>3, <1>7, <1>8, <1>9, <1>14 DEF n, z
  <2>2. \A k \in 1 .. startAt' : tmp'[k] = 0
    BY <1>2, <1>8, <1>9
  <2>3. \A k \in 0 .. Len(text') - 1 : k < j' => buffer'[k] = 0
    <3>1. ASSUME NEW k \in 0 .. n - 1, k < j - 1 PROVE buffer'[k] = 0
      <4>1. k # j - 1 /\ k < j
        BY <1>7, <3>1
      <4>2. QED
        BY <1>4, <1>14, <4>1
    <3>2. QED
      BY <1>2, <3>1 DEF n
  <2>4. /\ Counts(v, in', ByteBase) /\ Counts(w, tmp', DigitBase)
        /\ Counts(x, Digits(buffer', Len(text')), ByteBase)
        /\ w[Len(text')] * BytePower[Len(text') - j'] + x[Len(text')] = v[Len(in')]
    BY <1>2, <1>5, <1>12, <1>16, <1>22 DEF n, q
  <2>5. QED
    BY <2>1, <2>2, <2>3, <2>4, Zenon DEF PassHolds
<1>24. TextHolds'
  BY <1>1, <1>2, <1>3 DEF TextHolds, z
<1>25. QED
  BY <1>23, <1>24

\* The bytes after the zeros in front, with a zero for every zero digit: what was encoded.
LEMMA DecodeReturnIs ==
  ASSUME CodeInv, DecodeReturn
  PROVE  decoded' = in
<1> DEFINE n == Len(text)
           z == zeroCount
           s == Digits(buffer, n)
           written == SubSeq(s, j + 1, Len(s))
           l == LeadingZeros(written)
           S == 0 .. ByteBase - 1
<1>1. in \in Seq(S) /\ TextHolds /\ PassHolds /\ startAt >= n
  BY DEF CodeInv, EncodeInv, DecodeReturn
<1>2. /\ buffer \in [0 .. n - 1 -> S] /\ tmp \in Seq(0 .. DigitBase - 1) /\ Len(tmp) = n
      /\ startAt \in z .. n /\ j = n - (startAt - z)
      /\ \A k \in 1 .. startAt : tmp[k] = 0
      /\ \A k \in 0 .. n - 1 : k < j => buffer[k] = 0
  BY <1>1 DEF PassHolds
<1>3. PICK v, t, u :
        /\ Counts(v, in, ByteBase) /\ Counts(t, tmp, DigitBase) /\ Counts(u, s, ByteBase)
        /\ t[n] * BytePower[n - j] + u[n] = v[Len(in)]
  BY <1>1, Zenon DEF PassHolds
<1>4. /\ text \in Seq(0 .. DigitBase - 1) /\ LeadingZeros(text) = z /\ z = LeadingZeros(in)
  BY <1>1 DEF TextHolds, zeroCount
<1>5. n \in Nat /\ z \in Nat /\ in \in Seq(Nat) /\ tmp \in Seq(Nat)
  <2>1. n \in Nat
    BY <1>4, LenProperties
  <2>2. z \in Nat
    BY <1>1, <1>4, Sizes
  <2>3. S \subseteq Nat /\ 0 .. DigitBase - 1 \subseteq Nat
    OBVIOUS
  <2>4. QED
    BY <1>1, <1>2, <2>1, <2>2, <2>3, SeqMonotonic
<1>6. decoded' = SubSeq(s, (j + l - LeadingZeros(text)) + 1, Len(s))
  BY Zenon DEF DecodeReturn
<1> HIDE DEF n, z
<1>7. startAt = n /\ j = z /\ z \in 0 .. n
  BY <1>1, <1>2, <1>5
<1>8. DigitBase \in Nat /\ ByteBase \in Nat /\ S \subseteq Nat
  BY Bases
<1>9. s \in Seq(S) /\ s \in Seq(Nat) /\ Len(s) = n /\ \A k \in 1 .. n : s[k] = buffer[k - 1]
  BY <1>2, <1>5, <1>8, DigitsOf
<1> HIDE DEF s, S
<1>10. u[Len(s)] = v[Len(in)]
  <2>1. t[n] = 0
    <3>1. n \in 0 .. Len(tmp) /\ \A k \in 1 .. n : tmp[k] = 0
      BY <1>2, <1>5, <1>7
    <3>2. QED
      BY <1>3, <1>5, <1>8, <3>1, CountsOfZeros
  <2>2. BytePower[n - j] \in Nat
    <3>1. n - j \in Nat
      BY <1>5, <1>7
    <3>2. QED
      BY <3>1, BasePowersStep
  <2>3. u[n] \in Nat
    <3>1. u \in [0 .. n -> Nat] /\ n \in 0 .. n
      BY <1>3, <1>5, <1>9 DEF Counts
    <3>2. QED
      BY <3>1
  <2>4. 0 * BytePower[n - j] + u[n] = u[n]
    BY <2>2, <2>3
  <2>5. QED
    BY <1>3, <1>9, <2>1, <2>4
<1>11. \A k \in 1 .. z : s[k] = 0
  <2>1. ASSUME NEW k \in 1 .. z PROVE s[k] = 0
    <3>1. k \in 1 .. n /\ k - 1 \in 0 .. n - 1 /\ k - 1 < j
      BY <1>5, <1>7
    <3>2. QED
      BY <1>2, <1>9, <3>1
  <2>2. QED
    BY <2>1
<1>12. /\ written \in Seq(Nat) /\ Len(written) = n - z
       /\ \A k \in 1 .. n - z : written[k] = s[z + k]
  <2>1. z \in 0 .. Len(s)
    BY <1>7, <1>9
  <2> DEFINE w == SubSeq(s, z + 1, Len(s))
  <2>2. /\ w \in Seq(Nat) /\ Len(w) = Len(s) - z
        /\ \A k \in 1 .. Len(s) - z : w[k] = s[z + k]
    BY <1>9, <2>1, RestIs
  <2>3. written = w
    BY <1>7
  <2> HIDE DEF written, w
  <2>4. QED
    BY <1>9, <2>2, <2>3
<1> HIDE DEF written
<1>13. /\ l \in 0 .. n - z /\ l \in Nat
       /\ (\A k \in 1 .. l : written[k] = 0) /\ (l < n - z => written[l + 1] # 0)
  BY <1>12, ZerosLead
<1> HIDE DEF l
<1>14. LeadingZeros(s) = z + l
  <2>1. z + l \in 0 .. Len(s)
    BY <1>5, <1>7, <1>9, <1>13
  <2>2. ASSUME NEW k \in 1 .. z + l PROVE s[k] = 0
    <3>1. CASE k <= z
      BY <1>5, <1>11, <3>1
    <3>2. CASE z < k
      <4>1. k - z \in 1 .. l /\ k - z \in 1 .. n - z /\ z + (k - z) = k
        BY <1>5, <1>13, <3>2
      <4>2. QED
        BY <1>12, <1>13, <4>1
    <3>3. QED
      BY <1>5, <3>1, <3>2
  <2>3. z + l < Len(s) => s[(z + l) + 1] # 0
    <3>1. SUFFICES ASSUME z + l < Len(s) PROVE s[(z + l) + 1] # 0
      OBVIOUS
    <3>2. l < n - z /\ l + 1 \in 1 .. n - z /\ z + (l + 1) = (z + l) + 1
      BY <1>5, <1>9, <1>13, <3>1
    <3>3. QED
      BY <1>12, <1>13, <3>2
  <2>4. QED
    BY <1>9, <2>1, <2>2, <2>3, LeadingIs
<1> DEFINE d == SubSeq(s, l + 1, Len(s))
<1>15. decoded' = d
  <2>1. j + l - LeadingZeros(text) = l
    BY <1>4, <1>5, <1>7, <1>13
  <2>2. QED
    BY <1>6, <2>1
<1>16. /\ d \in Seq(S) /\ Len(d) = n - l
       /\ \A k \in 1 .. n - l : d[k] = s[l + k]
  <2>1. l \in 0 .. Len(s)
    BY <1>5, <1>7, <1>9, <1>13
  <2>2. /\ d \in Seq(S) /\ Len(d) = Len(s) - l
        /\ \A k \in 1 .. Len(s) - l : d[k] = s[l + k]
    BY <1>9, <2>1, RestIs
  <2> HIDE DEF d
  <2>3. QED
    BY <1>9, <2>2
<1> HIDE DEF d
<1>17. d \in Seq(Nat)
  BY <1>8, <1>16, SeqMonotonic
<1>18. Padded(d, s, z)
  <2>1. Len(d) = z + (Len(s) - (z + l))
    BY <1>5, <1>9, <1>13, <1>16
  <2>2. ASSUME NEW k \in 1 .. z PROVE d[k] = 0
    <3>1. k \in 1 .. n - l
      BY <1>5, <1>13
    <3>2. l + k \in 1 .. z + l /\ l + k \in 1 .. n
      BY <1>5, <1>13
    <3>3. s[l + k] = 0
      <4>1. LeadingZeros(s) = z + l /\ \A i \in 1 .. LeadingZeros(s) : s[i] = 0
        BY <1>9, <1>14, ZerosLead
      <4>2. QED
        BY <3>2, <4>1
    <3>4. QED
      BY <1>16, <3>1, <3>3
  <2>3. ASSUME NEW k \in 1 .. Len(s) - (z + l) PROVE d[z + k] = s[(z + l) + k]
    <3>1. z + k \in 1 .. n - l /\ l + (z + k) = (z + l) + k
      BY <1>5, <1>9, <1>13
    <3>2. QED
      BY <1>16, <3>1
  <2>4. QED
    BY <1>14, <2>1, <2>2, <2>3 DEF Padded
<1>19. PICK w : Counts(w, d, ByteBase)
  BY <1>8, <1>17, CountsExist
<1>20. LeadingZeros(d) = z /\ w[Len(d)] = u[Len(s)]
  BY <1>3, <1>5, <1>8, <1>9, <1>17, <1>18, <1>19, PaddedIs
<1>21. d = in
  <2>1. /\ d \in Seq(0 .. ByteBase - 1) /\ in \in Seq(0 .. ByteBase - 1)
        /\ LeadingZeros(d) = LeadingZeros(in)
        /\ Counts(w, d, ByteBase) /\ Counts(v, in, ByteBase) /\ w[Len(d)] = v[Len(in)]
    BY <1>1, <1>3, <1>4, <1>10, <1>16, <1>19, <1>20 DEF S
  <2>2. QED
    BY <2>1, SameBytes
<1>22. QED
  BY <1>15, <1>21

\* Every step keeps the invariant of both.
LEMMA CodeKeeps ==
  ASSUME RoomHolds, CodeInv, [CodeNext]_codeVars
  PROVE  CodeInv'
<1>1. EncodeInv'
  BY EncodeKeeps DEF CodeInv
<1>2. CASE EncodeCall \/ EncodeByte \/ EncodeDigit \/ NextCall
  <2>1. CASE EncodeDigit
    <3>1. pc = "digit" /\ (pc' = "byte" \/ pc' = pc)
      BY <2>1 DEF EncodeDigit
    <3>2. QED
      BY <1>1, <3>1 DEF CodeInv
  <2>2. CASE EncodeCall \/ EncodeByte \/ NextCall
    <3>1. pc' \in {"call", "byte", "digit"}
      BY <2>2 DEF EncodeCall, EncodeByte, NextCall
    <3>2. QED
      BY <1>1, <3>1 DEF CodeInv
  <2>3. QED
    BY <1>2, <2>1, <2>2
<1>3. CASE EncodeReturn
  <2>1. pc' = "encoded"
    BY <1>3 DEF EncodeReturn
  <2>2. TextHolds'
    BY <1>3, TextIs DEF CodeInv
  <2>3. QED
    BY <1>1, <2>1, <2>2 DEF CodeInv
<1>4. CASE DecodeCall
  <2>1. pc' = "pass"
    BY <1>4 DEF DecodeCall
  <2>2. QED
    BY <1>1, <1>4, <2>1, DecodeCallKeeps DEF CodeInv
<1>5. CASE DecodePass
  <2>1. pc' = "pass"
    BY <1>5 DEF DecodePass
  <2>2. QED
    BY <1>1, <1>5, <2>1, DecodePassKeeps DEF CodeInv
<1>6. CASE DecodeReturn
  <2>1. pc' = "decoded" /\ in' = in
    BY <1>6 DEF DecodeReturn
  <2>2. decoded' = in
    BY <1>6, DecodeReturnIs
  <2>3. QED
    BY <1>1, <2>1, <2>2 DEF CodeInv
<1>7. CASE UNCHANGED codeVars
  <2>1. /\ in' = in /\ pc' = pc /\ buffer' = buffer /\ startAt' = startAt /\ j' = j
        /\ text' = text /\ tmp' = tmp /\ decoded' = decoded
    BY <1>7 DEF codeVars, encoding, decoding
  <2>2. zeroCount' = zeroCount
    BY <2>1 DEF zeroCount
  <2>3. (TextHolds' <=> TextHolds) /\ (PassHolds' <=> PassHolds)
    BY <2>1, <2>2 DEF TextHolds, PassHolds
  <2>4. QED
    BY <1>1, <2>1, <2>3 DEF CodeInv
<1>8. QED
  BY <1>2, <1>3, <1>4, <1>5, <1>6, <1>7 DEF CodeNext

\* What btchip_encode_base58 made of the bytes, btchip_decode_base58 makes the same bytes of
\* again: of btchip_base58.c, for inputs of every length, whatever zeros they begin with.
THEOREM WhatIsEncodedIsDecoded == ASSUME RoomHolds PROVE CodeSpec => []RoundTrip
<1>1. CodeInit => CodeInv
  <2>1. <<>> \in Seq(0 .. ByteBase - 1)
    BY EmptySeq
  <2>2. QED
    BY <2>1 DEF CodeInit, EncodeInv, CodeInv
<1>2. CodeInv /\ [CodeNext]_codeVars => CodeInv'
  BY CodeKeeps
<1>3. CodeInv => RoundTrip
  BY DEF CodeInv, RoundTrip
<1>4. QED
  BY <1>1, <1>2, <1>3, PTL DEF CodeSpec

=============================================================================
