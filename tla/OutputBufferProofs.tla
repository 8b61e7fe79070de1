------------------------- MODULE OutputBufferProofs -------------------------
(***************************************************************************)
(* Proofs about OutputBuffer, for every set of streams, every size of the  *)
(* buffer and every set of scripts: whatever the blocks, the screens show  *)
(* the bytes that went into the hash.                                      *)
(***************************************************************************)
EXTENDS OutputBuffer, Induction, SequenceTheorems

-----------------------------------------------------------------------------
\* The inductive invariant.

LastScreens == {"finalize", "full_output"}

\* A screen waits for the review of a transaction, and the screen of one output
\* for the output at the head of the buffer.
ScreenInv ==
  /\ screen # "none" => transactionState = "PRESIGN_READY"
  /\ screen = "single_output" => parser.state = "OUTPUT"
  /\ ShownOutputWaits

\* The last bytes of a sequence.
Suffix(b, h) == Len(b) <= Len(h) /\ b = SubSeq(h, Len(h) - Len(b) + 1, Len(h))

\* The bytes of the buffer are the last ones hashed.
WaitingInv ==
  "restart" \notin disorder =>
    /\ transactionState = "PARSING" => sent = 0 /\ currentOutput = <<>>
    /\ transactionState = "PRESIGN_READY" => Suffix(currentOutput, Hashed)

\* Where the parser is in the bytes hashed: before the number of outputs, or
\* behind the outputs reviewed.
Parsed(m, h) ==
  \/ m.state = "NUMBER_OUTPUTS" /\ m.bytes = h /\ m.reviewed = <<>>
  \/ /\ m.state = "OUTPUT"
     /\ \E f \in NumberForms(m.remaining + Len(m.reviewed)) :
          h = (f \o FlattenSeq(m.reviewed)) \o m.bytes

\* The outputs reviewed are all that the number says, and the first ones hashed.
Shown(outputs, h) ==
  \E f \in NumberForms(Len(outputs)) : IsPrefix(f \o FlattenSeq(outputs), h)

\* An output as the parser delimits it.
Outputs == {o \in Seq(Byte) : o # <<>> /\ HeadBytes([bytes |-> o]) = Len(o)}

ParsedInv ==
  disorder = {} /\ transactionState \in {"PARSING", "PRESIGN_READY"} =>
    /\ transactionState = "PARSING" => sent = 0
    /\ sent = 0 =>
         currentOutput = <<>> /\ reviewed = <<>> /\ parser.state = "NUMBER_OUTPUTS"
    /\ screen \notin LastScreens =>
         Parsed(Memory, Hashed) /\ (parser.state = "NUMBER_OUTPUTS" => sent = 0)
    /\ screen \in LastScreens => Shown(reviewed, Hashed)
    /\ sent # 0 /\ sent # Len(stream) => multipleOutput
    /\ \A i \in DOMAIN reviewed :
         reviewed[i] # <<>> /\ HeadBytes([bytes |-> reviewed[i]]) = Len(reviewed[i])

BufferInv == TypeOK /\ ScreenInv /\ WaitingInv /\ ParsedInv

-----------------------------------------------------------------------------
\* Sequences of sequences.

\* The first k elements and the others.
LEMMA SplitAt ==
  ASSUME NEW B, NEW b \in Seq(B), NEW k \in 0..Len(b)
  PROVE  /\ SubSeq(b, 1, k) \in Seq(B) /\ Len(SubSeq(b, 1, k)) = k
         /\ SubSeq(b, k + 1, Len(b)) \in Seq(B) /\ Len(SubSeq(b, k + 1, Len(b))) = Len(b) - k
         /\ b = SubSeq(b, 1, k) \o SubSeq(b, k + 1, Len(b))
  <1>1. Len(b) \in Nat /\ \A i \in 1..Len(b) : b[i] \in B
    BY LenProperties, ElementOfSeq
  <1>2. SubSeq(b, 1, k) \in Seq(B) /\ Len(SubSeq(b, 1, k)) = k
    BY <1>1, SubSeqProperties
  <1>3. SubSeq(b, k + 1, Len(b)) \in Seq(B) /\ Len(SubSeq(b, k + 1, Len(b))) = Len(b) - k
    BY <1>1, SubSeqProperties
  <1>4. b = SubSeq(b, 1, k) \o SubSeq(b, k + 1, Len(b))
    <2>1. 1 \in 1..Len(b) + 1 /\ k \in 1 - 1..Len(b) /\ Len(b) \in k..Len(b)
      BY <1>1
    <2>2. SubSeq(b, 1, k) \o SubSeq(b, k + 1, Len(b)) = SubSeq(b, 1, Len(b))
      BY <2>1, ConcatAdjacentSubSeq
    <2>3. QED
      BY <2>2, SubSeqFull
  <1>5. QED
    BY <1>2, <1>3, <1>4

\* The elements from a place on.
LEMMA ElementsFrom ==
  ASSUME NEW B, NEW b \in Seq(B), NEW k \in 0..Len(b)
  PROVE  /\ SubSeq(b, k + 1, Len(b)) \in Seq(B) /\ Len(SubSeq(b, k + 1, Len(b))) = Len(b) - k
         /\ \A i \in 1..Len(b) - k : SubSeq(b, k + 1, Len(b))[i] = b[k + i]
  <1>1. /\ Len(b) \in Nat /\ k + 1 \in Int /\ Len(b) \in Int /\ Len(b) - (k + 1) + 1 = Len(b) - k
        /\ \A i \in 1..Len(b) - k : (k + 1) + i - 1 = k + i
    BY LenProperties
  <1>2. \A i \in k + 1..Len(b) : b[i] \in B
    BY ElementOfSeq
  <1>3. \A i \in 1..Len(b) - (k + 1) + 1 : SubSeq(b, k + 1, Len(b))[i] = b[(k + 1) + i - 1]
    BY <1>1, <1>2, SubSeqProperties
  <1>4. QED
    BY <1>1, <1>3, SplitAt

\* Dropping elements at the head of a suffix leaves a suffix.
LEMMA SuffixDrop ==
  ASSUME NEW B, NEW b \in Seq(B), NEW h \in Seq(B), Suffix(b, h), NEW k \in 0..Len(b)
  PROVE  Suffix(SubSeq(b, k + 1, Len(b)), h)
  <1> DEFINE c == SubSeq(b, k + 1, Len(b))
             at == Len(h) - Len(b)
             d == SubSeq(h, (at + k) + 1, Len(h))
  <1>1. Len(b) \in Nat /\ Len(h) \in Nat /\ Len(b) <= Len(h) /\ b = SubSeq(h, at + 1, Len(h))
    BY LenProperties DEF Suffix
  <1>2. c \in Seq(B) /\ Len(c) = Len(b) - k /\ \A i \in 1..Len(b) - k : c[i] = b[k + i]
    BY ElementsFrom
  <1>3. \A i \in 1..Len(b) : b[i] = h[at + i]
    <2>1. at \in 0..Len(h) /\ Len(h) - at = Len(b)
      BY <1>1
    <2>2. \A i \in 1..Len(h) - at : SubSeq(h, at + 1, Len(h))[i] = h[at + i]
      <3> HIDE DEF at
      <3>1. QED
        BY <2>1, ElementsFrom
    <2>3. QED
      BY <1>1, <2>1, <2>2
  <1>4. /\ d \in Seq(B) /\ Len(d) = Len(b) - k
        /\ \A i \in 1..Len(b) - k : d[i] = h[(at + k) + i]
    <2>1. at + k \in 0..Len(h) /\ Len(h) - (at + k) = Len(b) - k
      BY <1>1
    <2> HIDE DEF at
    <2>2. QED
      BY <2>1, ElementsFrom
  <1>5. /\ Len(h) - Len(c) + 1 = (at + k) + 1
        /\ Len(c) <= Len(h)
    <2> HIDE DEF c
    <2>1. QED
      BY <1>1, <1>2
  <1> HIDE DEF c, d
  <1>6. \A i \in 1..Len(b) - k : c[i] = d[i]
    <2>1. TAKE i \in 1..Len(b) - k
    <2>2. k + i \in 1..Len(b) /\ at + (k + i) = (at + k) + i
      BY <1>1
    <2>3. QED
      BY <1>2, <1>3, <1>4, <2>2
  <1>7. c = d
    BY <1>2, <1>4, <1>6, SeqEqual
  <1>8. d = SubSeq(h, Len(h) - Len(c) + 1, Len(h))
    BY <1>5 DEF d
  <1>9. QED
    BY <1>5, <1>7, <1>8 DEF Suffix, c

\* What is appended to both stays.
LEMMA SuffixExtend ==
  ASSUME NEW B, NEW b \in Seq(B), NEW h \in Seq(B), Suffix(b, h), NEW c \in Seq(B)
  PROVE  Suffix(b \o c, h \o c)
  <1> DEFINE at == Len(h) - Len(b)
             s == SubSeq(h \o c, Len(h \o c) - Len(b \o c) + 1, Len(h \o c))
  <1>1. Len(b) \in Nat /\ Len(h) \in Nat /\ Len(c) \in Nat
        /\ Len(b) <= Len(h) /\ b = SubSeq(h, at + 1, Len(h))
    BY LenProperties DEF Suffix
  <1>2. /\ b \o c \in Seq(B) /\ h \o c \in Seq(B)
        /\ Len(b \o c) = Len(b) + Len(c) /\ Len(h \o c) = Len(h) + Len(c)
        /\ \A i \in 1..Len(b) + Len(c) : (b \o c)[i] = IF i <= Len(b) THEN b[i] ELSE c[i - Len(b)]
        /\ \A i \in 1..Len(h) + Len(c) : (h \o c)[i] = IF i <= Len(h) THEN h[i] ELSE c[i - Len(h)]
    BY ConcatProperties
  <1>3. \A i \in 1..Len(b) : b[i] = h[at + i]
    <2>1. \A i \in 1..Len(h) : h[i] \in B
      BY ElementOfSeq
    <2>2. QED
      BY <1>1, <2>1, SubSeqProperties
  <1>4. /\ s \in Seq(B) /\ Len(s) = Len(b) + Len(c)
        /\ \A i \in 1..Len(b) + Len(c) : s[i] = (h \o c)[at + i]
    <2>1. \A i \in 1..Len(h \o c) : (h \o c)[i] \in B
      BY <1>2, ElementOfSeq
    <2>2. QED
      BY <1>1, <1>2, <2>1, SubSeqProperties
  <1> HIDE DEF s
  <1>5. \A i \in 1..Len(b) + Len(c) : (b \o c)[i] = s[i]
    <2>1. TAKE i \in 1..Len(b) + Len(c)
    <2>2. at + i \in 1..Len(h) + Len(c) /\ (at + i) - Len(h) = i - Len(b)
          /\ (i <= Len(b) <=> at + i <= Len(h)) /\ (i <= Len(b) => i \in 1..Len(b))
      BY <1>1
    <2>3. QED
      BY <1>2, <1>3, <1>4, <2>2
  <1>6. b \o c = s
    BY <1>2, <1>4, <1>5, SeqEqual
  <1>7. Len(b \o c) <= Len(h \o c)
    BY <1>1, <1>2
  <1>8. QED
    BY <1>6, <1>7 DEF Suffix, s

\* The suffix of the community modules is the same.
LEMMA SuffixIs ==
  ASSUME NEW B, NEW b \in Seq(B), NEW h \in Seq(B), Suffix(b, h)
  PROVE  IsSuffix(b, h)
  <1> DEFINE at == Len(h) - Len(b)
             rb == Reverse(b)
             rh == Reverse(h)
  <1>1. Len(b) \in Nat /\ Len(h) \in Nat
        /\ Len(b) <= Len(h) /\ b = SubSeq(h, at + 1, Len(h))
    BY LenProperties DEF Suffix
  <1>2. \A i \in 1..Len(h) : h[i] \in B
    BY ElementOfSeq
  <1>3. \A i \in 1..Len(b) : b[i] = h[at + i] /\ b[i] \in B
    BY <1>1, <1>2, SubSeqProperties, ElementOfSeq
  <1>4. /\ rb \in Seq(B) /\ Len(rb) = Len(b)
        /\ \A i \in 1..Len(b) : rb[i] = b[(Len(b) - i) + 1]
    BY <1>1, <1>3 DEF Reverse
  <1>5. /\ rh \in Seq(B) /\ Len(rh) = Len(h)
        /\ \A i \in 1..Len(h) : rh[i] = h[(Len(h) - i) + 1]
    BY <1>1, <1>2 DEF Reverse
  <1> HIDE DEF rb, rh
  <1>6. \A i \in 1..Len(b) : rb[i] = rh[i]
    <2>1. TAKE i \in 1..Len(b)
    <2>2. i \in 1..Len(h) /\ (Len(b) - i) + 1 \in 1..Len(b)
          /\ at + ((Len(b) - i) + 1) = (Len(h) - i) + 1
      BY <1>1
    <2>3. QED
      BY <1>3, <1>4, <1>5, <2>2
  <1> DEFINE p == SubSeq(rb, 1, Len(rb))
             q == SubSeq(rh, 1, Len(rb))
  <1>7. p \in Seq(B) /\ Len(p) = Len(b) /\ \A i \in 1..Len(b) : p[i] = rb[i]
    <2>1. \A i \in 1..Len(rb) : rb[i] \in B
      BY <1>4, ElementOfSeq
    <2>2. QED
      BY <1>1, <1>4, <2>1, SubSeqProperties
  <1>8. q \in Seq(B) /\ Len(q) = Len(b) /\ \A i \in 1..Len(b) : q[i] = rh[i]
    <2>1. \A i \in 1..Len(rb) : rh[i] \in B
      BY <1>1, <1>4, <1>5, ElementOfSeq
    <2>2. QED
      BY <1>1, <1>4, <2>1, SubSeqProperties
  <1> HIDE DEF p, q
  <1>9. p = q
    BY <1>6, <1>7, <1>8, SeqEqual
  <1>10. Len(rb) <= Len(rh)
    BY <1>1, <1>4, <1>5
  <1>11. QED
    BY <1>9, <1>10 DEF IsSuffix, IsPrefix, p, q, rb, rh

-----------------------------------------------------------------------------
\* What lies in the buffer.

\* What a byte may be, as a marker.
LEMMA ByteCases ==
  ASSUME NEW x \in Byte
  PROVE  /\ x \in Int /\ x \in Nat /\ 0 <= x /\ x <= 255
         /\ x < 253 \/ x = 253 \/ x = 254 \/ x = 255
  BY DEF Byte

\* Division undoes the place of a byte.
LEMMA LowByte ==
  ASSUME NEW a \in Byte, NEW q \in Int
  PROVE  (a + 256 * q) % 256 = a /\ (a + 256 * q) \div 256 = q
  <1>1. a \in Int /\ 0 <= a /\ a <= 255
    BY ByteCases
  <1>2. QED
    BY <1>1

\* A marker and two bytes are a form of the number they make.
LEMMA TwoBytes ==
  ASSUME NEW a \in Byte, NEW b \in Byte
  PROVE  \A n : n = a + 256 * b => n \in Nat /\ <<253, a, b>> \in NumberForms(n)
  <1>1. a \in Int /\ 0 <= a /\ a <= 255 /\ b \in Int /\ 0 <= b /\ b <= 255
    BY ByteCases
  <1>2. TAKE n
  <1>3. HAVE n = a + 256 * b
  <1>4. n \in Nat /\ n % 256 = a /\ n \div 256 = b
    BY <1>1, <1>3
  <1>5. <<253, a, b>> \in Seq(Byte) /\ Len(<<253, a, b>>) = 3
    BY DEF Byte
  <1>6. QED
    BY <1>4, <1>5 DEF NumberForms

\* So are a marker and four bytes.
LEMMA FourBytes ==
  ASSUME NEW a \in Byte, NEW b \in Byte, NEW c \in Byte, NEW d \in Byte
  PROVE  \A n : n = (a + 256 * b) + 65536 * (c + 256 * d) =>
           n \in Nat /\ <<254, a, b, c, d>> \in NumberForms(n)
  <1>1. /\ a \in Int /\ 0 <= a /\ a <= 255 /\ b \in Int /\ 0 <= b /\ b <= 255
        /\ c \in Int /\ 0 <= c /\ c <= 255 /\ d \in Int /\ 0 <= d /\ d <= 255
    BY ByteCases
  <1> TAKE n
  <1>2. HAVE n = (a + 256 * b) + 65536 * (c + 256 * d)
  <1>3. n \in Nat
    BY <1>1, <1>2
  <1>4. n % 256 = a /\ n \div 256 = b + 256 * (c + 256 * d)
    BY <1>1, <1>2
  <1>5. (n \div 256) % 256 = b
    BY <1>1, <1>4, LowByte
  <1>6. n \div 65536 = c + 256 * d
    BY <1>1, <1>2
  <1>7. (n \div 65536) % 256 = c
    BY <1>1, <1>6, LowByte
  <1>8. n \div 16777216 = d
    BY <1>1, <1>2
  <1>9. <<254, a, b, c, d>> \in Seq(Byte) /\ Len(<<254, a, b, c, d>>) = 5
    BY DEF Byte
  <1>10. <<254, a, b, c, d>> =
           <<254, n % 256, (n \div 256) % 256, (n \div 65536) % 256, n \div 16777216>>
    BY <1>4, <1>5, <1>7, <1>8
  <1>11. Len(<<254, a, b, c, d>>) # 1
    BY <1>9
  <1> DEFINE f == <<254, a, b, c, d>>
             g == <<254, n % 256, (n \div 256) % 256, (n \div 65536) % 256, n \div 16777216>>
  <1>12. f = g /\ f \in Seq(Byte) /\ Len(f) # 1
    BY <1>9, <1>10, <1>11
  <1>13. f \in NumberForms(n)
    <2>1. NumberForms(n) = { h \in { <<n>>, <<253, n % 256, n \div 256>>, g } :
                                h \in Seq(Byte) /\ (Len(h) = 1 => n < 253) }
      BY DEF NumberForms
    <2> HIDE DEF f, g
    <2>2. QED
      BY <1>12, <2>1
  <1>14. QED
    BY <1>3, <1>13

\* Bytes and their places make naturals.
LEMMA NaturalSum ==
  ASSUME NEW x \in Nat, NEW y \in Nat
  PROVE  x + 256 * y \in Nat
  OBVIOUS

\* The size of a number at a place of the buffer, and its value.
LEMMA NumberType ==
  ASSUME NEW m, m.bytes \in Seq(Byte), NEW at \in 1..Len(m.bytes),
         at + NumberBytes(m.bytes[at]) - 1 <= Len(m.bytes)
  PROVE  /\ m.bytes[at] \in Byte
         /\ NumberBytes(m.bytes[at]) \in {1, 3, 5} /\ NumberAt(m, at) \in Nat
  <1> DEFINE b == m.bytes
             k == NumberBytes(b[at])
  <1>1. Len(b) \in Nat /\ \A i \in 1..Len(b) : b[i] \in Byte
    BY LenProperties, ElementOfSeq
  <1>2. b[at] \in Byte /\ k \in {1, 3, 5}
    BY <1>1 DEF NumberBytes
  <1>3. CASE b[at] < 253
    <2>1. NumberAt(m, at) = b[at]
      BY <1>3 DEF NumberAt
    <2>2. QED
      BY <1>2, <2>1, ByteCases
  <1>4. CASE b[at] = 253
    <2>1. k = 3
      BY <1>4 DEF NumberBytes
    <2>2. b[at + 1] \in Byte /\ b[at + 2] \in Byte
      BY <1>1, <2>1
    <2>3. NumberAt(m, at) = b[at + 1] + 256 * b[at + 2]
      BY <1>4 DEF NumberAt
    <2>4. QED
      BY <1>2, <2>2, <2>3, TwoBytes, Zenon
  <1>5. CASE b[at] = 254 \/ b[at] = 255
    <2>1. k = 5
      BY <1>5 DEF NumberBytes
    <2>2. b[at + 1] \in Byte /\ b[at + 2] \in Byte /\ b[at + 3] \in Byte /\ b[at + 4] \in Byte
      BY <1>1, <2>1
    <2>3. NumberAt(m, at) = (b[at + 1] + 256 * b[at + 2]) + 65536 * (b[at + 3] + 256 * b[at + 4])
      BY <1>5 DEF NumberAt
    <2>4. b[at + 1] \in Nat /\ b[at + 2] \in Nat /\ b[at + 3] \in Nat /\ b[at + 4] \in Nat
      BY <2>2, ByteCases
    <2>5. NumberAt(m, at) \in Nat
      <3> HIDE DEF b, k
      <3>1. b[at + 1] + 256 * b[at + 2] \in Nat
        BY <2>4, NaturalSum, Zenon
      <3>2. b[at + 3] + 256 * b[at + 4] \in Nat
        BY <2>4, NaturalSum, Zenon
      <3>3. QED
        BY <2>3, <3>1, <3>2
    <2>6. QED
      BY <1>2, <2>5
  <1>6. QED
    BY <1>2, <1>3, <1>4, <1>5, ByteCases

\* Where the parser reads a number of outputs, the bytes it drops are a form of it.
LEMMA NumberIsForm ==
  ASSUME NEW m, m.bytes \in Seq(Byte), Len(m.bytes) >= 1, m.bytes[1] # 255,
         Len(m.bytes) >= NumberBytes(m.bytes[1])
  PROVE  LET k == NumberBytes(m.bytes[1])
         IN  /\ k \in 1..Len(m.bytes) /\ NumberAt(m, 1) \in Nat
             /\ SubSeq(m.bytes, 1, k) \in NumberForms(NumberAt(m, 1))
  <1> DEFINE b == m.bytes
             k == NumberBytes(b[1])
             n == NumberAt(m, 1)
             f == SubSeq(b, 1, k)
  <1>1. Len(b) \in Nat /\ 1 \in 1..Len(b) /\ \A i \in 1..Len(b) : b[i] \in Byte
    BY LenProperties, ElementOfSeq
  <1>2. b[1] \in Byte /\ k \in {1, 3, 5} /\ n \in Nat
    <2>1. 1 + k - 1 <= Len(b)
      BY <1>1 DEF NumberBytes
    <2>2. QED
      BY <1>1, <2>1, NumberType
  <1>3. k \in 0..Len(b) /\ k \in 1..Len(b)
    BY <1>1, <1>2
  <1>4. f \in Seq(Byte) /\ Len(f) = k /\ \A i \in 1..k : f[i] = b[i]
    <2>1. f \in Seq(Byte) /\ Len(f) = k
      BY <1>3, SplitAt
    <2>2. \A i \in 1..k - 1 + 1 : f[i] = b[1 + i - 1]
      <3>1. \A i \in 1..k : b[i] \in Byte
        BY <1>1, <1>3
      <3>2. QED
        BY <1>2, <3>1, SubSeqProperties
    <2> HIDE DEF k, f
    <2>3. k - 1 + 1 = k /\ \A i \in 1..k : 1 + i - 1 = i
      BY <1>3
    <2>4. QED
      BY <2>1, <2>2, <2>3
  <1> HIDE DEF f
  <1>5. CASE b[1] < 253
    <2>1. k = 1 /\ n = b[1]
      BY <1>5 DEF NumberBytes, NumberAt
    <2>2. f = <<n>>
      BY <1>4, <2>1
    <2>3. QED
      BY <1>2, <1>3, <1>4, <1>5, <2>1, <2>2 DEF NumberForms, f
  <1>6. CASE b[1] = 253
    <2>1. k = 3 /\ n = b[2] + 256 * b[3]
      BY <1>6 DEF NumberBytes, NumberAt
    <2>2. b[2] \in Byte /\ b[3] \in Byte
      BY <1>1, <1>3, <2>1
    <2>3. <<253, b[2], b[3]>> \in NumberForms(n)
      BY <2>1, <2>2, TwoBytes, Zenon
    <2>4. f = <<253, b[2], b[3]>>
      BY <1>4, <1>6, <2>1
    <2>5. QED
      BY <1>2, <1>3, <2>3, <2>4 DEF f
  <1>7. CASE b[1] = 254
    <2>1. k = 5 /\ n = (b[2] + 256 * b[3]) + 65536 * (b[4] + 256 * b[5])
      BY <1>7 DEF NumberBytes, NumberAt
    <2>2. b[2] \in Byte /\ b[3] \in Byte /\ b[4] \in Byte /\ b[5] \in Byte
      BY <1>1, <1>3, <2>1
    <2>3. <<254, b[2], b[3], b[4], b[5]>> \in NumberForms(n)
      BY <2>1, <2>2, FourBytes, SMTT(60)
    <2>4. f = <<254, b[2], b[3], b[4], b[5]>>
      BY <1>4, <1>7, <2>1
    <2>5. QED
      BY <1>2, <1>3, <2>3, <2>4 DEF f
  <1>8. b[1] < 253 \/ b[1] = 253 \/ b[1] = 254
    BY <1>2, ByteCases
  <1>9. QED
    BY <1>5, <1>6, <1>7, <1>8

\* The output at the head is whole in the buffer, and is an output by itself.
LEMMA HeadFacts ==
  ASSUME NEW m, m.bytes \in Seq(Byte)
  PROVE  LET n == HeadBytes(m)
             o == SubSeq(m.bytes, 1, n)
         IN  /\ n \in 0..Len(m.bytes)
             /\ n # 0 => n >= ScriptAt /\ o \in Outputs
  <1> DEFINE b == m.bytes
             n == HeadBytes(m)
             o == SubSeq(b, 1, n)
             k == NumberBytes(b[ScriptAt])
             whole == HeaderBytes + k + NumberAt(m, ScriptAt)
  <1>1. Len(b) \in Nat /\ HeaderBytes \in Nat \ {0} /\ ScriptAt = HeaderBytes + 1
    BY LenProperties, OutputBufferAssumption DEF OutputBufferAssumption, ScriptAt
  <1>2. CASE n = 0
    BY <1>1, <1>2
  <1>3. CASE n # 0
    <2>1. ~(Len(b) < ScriptAt \/ Len(b) < HeaderBytes + k) /\ n = whole /\ ~(Len(b) < whole)
      BY <1>3 DEF HeadBytes
    <2>2. k \in {1, 3, 5}
      BY DEF NumberBytes
    <2>3. ScriptAt \in 1..Len(b) /\ ScriptAt + k - 1 <= Len(b)
      <3> HIDE DEF b, k
      <3>1. QED
        BY <1>1, <2>1, <2>2
    <2>4. NumberAt(m, ScriptAt) \in Nat /\ b[ScriptAt] \in Byte
      BY <2>3, NumberType
    <2>5. /\ n \in Nat /\ n <= Len(b) /\ n >= HeaderBytes + k /\ n >= ScriptAt /\ n >= 1
          /\ n \in 0..Len(b)
      <3> HIDE DEF b, k, n
      <3>1. QED
        BY <1>1, <2>1, <2>2, <2>4
    <2>6. o \in Seq(Byte) /\ Len(o) = n /\ \A i \in 1..n : o[i] = b[i]
      <3>1. o \in Seq(Byte) /\ Len(o) = n
        BY <2>5, SplitAt
      <3>2. \A i \in 1..n : b[i] \in Byte
        BY <1>1, <2>5, ElementOfSeq
      <3>3. \A i \in 1..n - 1 + 1 : o[i] = b[1 + i - 1]
        <4> HIDE DEF b, n
        <4>1. QED
          BY <2>5, <3>2, SubSeqProperties
      <3>4. n - 1 + 1 = n /\ \A i \in 1..n : 1 + i - 1 = i
        BY <2>5
      <3> HIDE DEF b, n, o
      <3>5. QED
        BY <3>1, <3>3, <3>4
    <2> DEFINE w == [bytes |-> o]
    <2>7. w.bytes = o
      OBVIOUS
    <2>8. ScriptAt \in 1..n /\ \A i \in 1..k : HeaderBytes + i \in 1..n
      <3> HIDE DEF b, k, n
      <3>1. QED
        BY <1>1, <2>2, <2>5
    <2>9. o[ScriptAt] = b[ScriptAt] /\ \A i \in 1..k : o[HeaderBytes + i] = b[HeaderBytes + i]
      <3> HIDE DEF b, k, n, o
      <3>1. QED
        BY <2>6, <2>8
    <2>10. NumberAt(w, ScriptAt) = NumberAt(m, ScriptAt)
      <3>1. CASE b[ScriptAt] < 253
        <4>1. NumberAt(m, ScriptAt) = b[ScriptAt]
          BY <3>1 DEF NumberAt
        <4>2. NumberAt(w, ScriptAt) = o[ScriptAt]
          <5> HIDE DEF b, k, n, o, w
          <5>1. QED
            BY <2>7, <2>9, <3>1 DEF NumberAt
        <4>3. QED
          BY <4>1, <4>2, <2>9
      <3>2. CASE b[ScriptAt] = 253
        <4>1. 2 \in 1..k /\ 3 \in 1..k
          BY <3>2 DEF NumberBytes
        <4>2. /\ ScriptAt + 1 = HeaderBytes + 2 /\ ScriptAt + 2 = HeaderBytes + 3
          BY <1>1
        <4>3. o[ScriptAt + 1] = b[ScriptAt + 1] /\ o[ScriptAt + 2] = b[ScriptAt + 2]
          <5> HIDE DEF b, k, n, o
          <5>1. QED
            BY <2>9, <4>1, <4>2
        <4>4. NumberAt(m, ScriptAt) = b[ScriptAt + 1] + 256 * b[ScriptAt + 2]
          BY <3>2 DEF NumberAt
        <4>5. NumberAt(w, ScriptAt) = o[ScriptAt + 1] + 256 * o[ScriptAt + 2]
          <5> HIDE DEF b, k, n, o, w
          <5>1. QED
            BY <2>7, <2>9, <3>2 DEF NumberAt
        <4> HIDE DEF b, k, n, o, w
        <4>6. QED
          BY <4>3, <4>4, <4>5
      <3>3. CASE b[ScriptAt] = 254 \/ b[ScriptAt] = 255
        <4>1. 2 \in 1..k /\ 3 \in 1..k /\ 4 \in 1..k /\ 5 \in 1..k
          BY <3>3 DEF NumberBytes
        <4>2. /\ ScriptAt + 1 = HeaderBytes + 2 /\ ScriptAt + 2 = HeaderBytes + 3
              /\ ScriptAt + 3 = HeaderBytes + 4 /\ ScriptAt + 4 = HeaderBytes + 5
          BY <1>1
        <4>3. /\ o[ScriptAt + 1] = b[ScriptAt + 1] /\ o[ScriptAt + 2] = b[ScriptAt + 2]
              /\ o[ScriptAt + 3] = b[ScriptAt + 3] /\ o[ScriptAt + 4] = b[ScriptAt + 4]
          <5> HIDE DEF b, k, n, o
          <5>1. QED
            BY <2>9, <4>1, <4>2
        <4>4. NumberAt(m, ScriptAt) = (b[ScriptAt + 1] + 256 * b[ScriptAt + 2])
                                      + 65536 * (b[ScriptAt + 3] + 256 * b[ScriptAt + 4])
          BY <3>3 DEF NumberAt
        <4>5. NumberAt(w, ScriptAt) = (o[ScriptAt + 1] + 256 * o[ScriptAt + 2])
                                      + 65536 * (o[ScriptAt + 3] + 256 * o[ScriptAt + 4])
          <5> HIDE DEF b, k, n, o, w
          <5>1. QED
            BY <2>7, <2>9, <3>3 DEF NumberAt
        <4> HIDE DEF b, k, n, o, w
        <4>6. QED
          BY <4>3, <4>4, <4>5
      <3>4. QED
        BY <2>4, <3>1, <3>2, <3>3, ByteCases
    <2>11. HeadBytes(w) = n
      <3>1. ~(Len(o) < ScriptAt \/ Len(o) < HeaderBytes + k) /\ ~(Len(o) < n)
        <4> HIDE DEF b, k, n, o
        <4>1. QED
          BY <1>1, <2>2, <2>5, <2>6
      <3>2. NumberBytes(w.bytes[ScriptAt]) = k
        BY <2>7, <2>9
      <3>3. HeaderBytes + k + NumberAt(w, ScriptAt) = n
        BY <2>1, <2>10
      <3> HIDE DEF b, k, n, o, w
      <3>4. QED
        BY <2>7, <3>1, <3>2, <3>3 DEF HeadBytes
    <2>12. o # <<>>
      <3>1. Len(o) # 0
        BY <2>5, <2>6
      <3>2. QED
        BY <3>1, EmptySeq
    <2>13. o \in Outputs
      BY <2>6, <2>11, <2>12 DEF Outputs
    <2>14. QED
      BY <2>5, <2>13
  <1>4. QED
    BY <1>2, <1>3

-----------------------------------------------------------------------------
\* The parser.

Memories ==
  [ bytes : Seq(Byte), reviewed : Seq(Seq(Byte)),
    state : {"NUMBER_OUTPUTS", "OUTPUT", "FINALIZE_TX", "HANDLE_LEGACY"},
    remaining : Int, changeOutputFound : BOOLEAN, discardSize : Nat ]

NumberHere(m) == Len(m.bytes) >= 1 /\ Len(m.bytes) >= NumberBytes(m.bytes[1])

\* What one turn may make of the buffer.
Waits(m, r) ==
  /\ r.name \in {"wait", "throw"}
  /\ r.m.bytes = m.bytes /\ r.m.reviewed = m.reviewed /\ r.m.state = m.state
  /\ r.m.remaining = m.remaining
  /\ r.name = "wait" => /\ m.state \in {"NUMBER_OUTPUTS", "OUTPUT"}
                        /\ m.state = "NUMBER_OUTPUTS" => ~NumberHere(m)

ReadsNumber(m, r) ==
  LET k == NumberBytes(m.bytes[1])
  IN  /\ r.name = "processed" /\ m.state = "NUMBER_OUTPUTS" /\ NumberHere(m) /\ m.bytes[1] # 255
      /\ r.m.bytes = SubSeq(m.bytes, k + 1, Len(m.bytes)) /\ r.m.reviewed = m.reviewed
      /\ r.m.state = "OUTPUT" /\ r.m.remaining = NumberAt(m, 1)

Hides(m, r) ==
  LET n == HeadBytes(m)
  IN  /\ r.name = "processed" /\ m.state = "OUTPUT" /\ n # 0
      /\ r.m.bytes = SubSeq(m.bytes, n + 1, Len(m.bytes))
      /\ r.m.reviewed = Append(m.reviewed, SubSeq(m.bytes, 1, n))
      /\ r.m.state = "OUTPUT" /\ r.m.remaining = m.remaining - 1

Shows(m, r) ==
  LET n == HeadBytes(m)
  IN  /\ r.name = "display" /\ m.state = "OUTPUT" /\ n # 0
      /\ r.m.bytes = m.bytes /\ r.m.reviewed = m.reviewed
      /\ r.m.state = "OUTPUT" /\ r.m.remaining = m.remaining
      /\ r.m.discardSize = n

\* A flag of the parser may be set to any truth value.
LEMMA FlagSet ==
  ASSUME NEW e \in Memories, NEW x \in BOOLEAN
  PROVE  /\ [e EXCEPT !.changeOutputFound = x] \in Memories
         /\ [e EXCEPT !.changeOutputFound = x].bytes = e.bytes
  BY DEF Memories

\* The count of outputs may be set to any integer.
LEMMA CountSet ==
  ASSUME NEW e \in Memories, NEW x \in Int
  PROVE  /\ [e EXCEPT !.remaining = x] \in Memories
         /\ [e EXCEPT !.remaining = x].bytes = e.bytes
  BY DEF Memories

\* One turn of handle_output_state.
LEMMA TurnCases ==
  ASSUME NEW m \in Memories
  PROVE  LET r == HandleOutputState(m)
         IN  /\ Waits(m, r) \/ ReadsNumber(m, r) \/ Hides(m, r) \/ Shows(m, r)
             /\ r.m \in Memories
  <1> DEFINE c == [m EXCEPT !.discardSize = 0]
             r == HandleOutputState(m)
             n == HeadBytes(m)
  <1>1. /\ c \in Memories /\ c.discardSize = 0
        /\ c.bytes = m.bytes /\ c.reviewed = m.reviewed /\ c.state = m.state
        /\ c.remaining = m.remaining /\ c.changeOutputFound = m.changeOutputFound
        /\ m.changeOutputFound \in BOOLEAN
    BY DEF Memories
  <1>2. m.state \in {"NUMBER_OUTPUTS", "OUTPUT", "FINALIZE_TX", "HANDLE_LEGACY"}
    BY DEF Memories
  <1>3. /\ HeadBytes(c) = n /\ NumberAt(c, 1) = NumberAt(m, 1)
        /\ IsChange(c, ScriptAt) = IsChange(m, ScriptAt)
    <2> HIDE DEF c
    <2>1. NumberAt(c, 1) = NumberAt(m, 1) /\ NumberAt(c, ScriptAt) = NumberAt(m, ScriptAt)
      BY <1>1 DEF NumberAt
    <2>2. HeadBytes(c) = n
      BY <1>1, <2>1, Zenon DEF HeadBytes
    <2>3. IsChange(c, ScriptAt) = IsChange(m, ScriptAt)
      BY <1>1, Zenon DEF IsChange, ScriptIs
    <2>4. QED
      BY <2>1, <2>2, <2>3
  <1>4. n \in Nat
    <2>1. m.bytes \in Seq(Byte)
      BY DEF Memories
    <2>2. n \in 0..Len(m.bytes)
      BY <2>1, HeadFacts
    <2>3. Len(m.bytes) \in Nat
      BY <2>1, LenProperties
    <2>4. QED
      BY <2>2, <2>3
  <1>5. CASE m.state = "NUMBER_OUTPUTS"
    <2>1. r = ReadNumber(c)
      BY <1>1, <1>5 DEF HandleOutputState
    <2> DEFINE d == Discard([c EXCEPT !.state = "OUTPUT", !.remaining = NumberAt(c, 1)],
                            NumberBytes(c.bytes[1]))
    <2>2. \/ r = Outcome("wait", c) /\ ~NumberHere(c)
          \/ r = Outcome("throw", c)
          \/ r = Outcome("processed", d) /\ NumberHere(c) /\ c.bytes[1] # 255
      <3> HIDE DEF c, r, d
      <3>1. r = IF Len(c.bytes) < 1 THEN Outcome("wait", c)
                ELSE IF c.bytes[1] = 255 THEN Outcome("throw", c)
                ELSE IF Len(c.bytes) < NumberBytes(c.bytes[1]) THEN Outcome("wait", c)
                ELSE Outcome("processed", d)
        BY <2>1 DEF ReadNumber, d
      <3>2. Len(c.bytes) \in Nat /\ NumberBytes(c.bytes[1]) \in Nat
        BY <1>1, LenProperties DEF Memories, NumberBytes
      <3>3. QED
        BY <3>1, <3>2 DEF NumberHere
    <2>3. /\ d.bytes = SubSeq(c.bytes, NumberBytes(c.bytes[1]) + 1, Len(c.bytes))
          /\ d.reviewed = c.reviewed /\ d.state = "OUTPUT" /\ d.remaining = NumberAt(c, 1)
          /\ d.changeOutputFound = c.changeOutputFound /\ d.discardSize = c.discardSize
      <3> HIDE DEF c
      <3>1. QED
        BY <1>1 DEF Discard, Memories
    <2> HIDE DEF c, r, d
    <2>4. CASE r = Outcome("wait", c) /\ ~NumberHere(c)
      <3>1. r.name = "wait" /\ r.m = c
        BY <2>4 DEF Outcome
      <3>2. r.m \in Memories
        BY <1>1, <3>1
      <3>3. Waits(m, r)
        BY <1>1, <1>5, <2>4, <3>1 DEF Waits, NumberHere
      <3>4. QED
        BY <3>2, <3>3 DEF r
    <2>5. CASE r = Outcome("throw", c)
      <3>1. r.name = "throw" /\ r.m = c
        BY <2>5 DEF Outcome
      <3>2. r.m \in Memories
        BY <1>1, <3>1
      <3>3. Waits(m, r)
        BY <1>1, <1>5, <3>1 DEF Waits
      <3>4. QED
        BY <3>2, <3>3 DEF r
    <2>6. CASE r = Outcome("processed", d) /\ NumberHere(c) /\ c.bytes[1] # 255
      <3>1. r.name = "processed" /\ r.m = d
        BY <2>6 DEF Outcome
      <3>2. r.m \in Memories
        <4>1. NumberBytes(c.bytes[1]) \in 0..Len(c.bytes) /\ NumberAt(c, 1) \in Int
          BY <1>1, <2>6, NumberIsForm DEF NumberHere, Memories
        <4>2. SubSeq(c.bytes, NumberBytes(c.bytes[1]) + 1, Len(c.bytes)) \in Seq(Byte)
          BY <1>1, <4>1, SplitAt DEF Memories
        <4>3. d \in Memories
          BY <1>1, <4>1, <4>2 DEF Discard, Memories, d
        <4>4. QED
          BY <3>1, <4>3
      <3>3. ReadsNumber(m, r)
        BY <1>1, <1>3, <1>5, <2>3, <2>6, <3>1 DEF ReadsNumber, NumberHere
      <3>4. QED
        BY <3>2, <3>3 DEF r
    <2>7. QED
      BY <2>2, <2>4, <2>5, <2>6 DEF r
  <1>6. CASE m.state = "OUTPUT"
    <2>1. r = ReadOutput(c)
      BY <1>1, <1>6 DEF HandleOutputState
    <2>2. \/ r = Outcome("wait", c)
          \/ r = Outcome("throw", c)
          \/ r = Outcome("processed", Hide(c, n)) /\ n # 0
          \/ r = Outcome("display", Show(c, n)) /\ n # 0
      <3> HIDE DEF c, r, n
      <3>1. QED
        BY <1>3, <2>1, Zenon DEF ReadOutput
    <2>3. /\ Hide(c, n).bytes = SubSeq(c.bytes, n + 1, Len(c.bytes))
          /\ Hide(c, n).reviewed = Append(c.reviewed, SubSeq(c.bytes, 1, n))
          /\ Hide(c, n).state = "OUTPUT" /\ Hide(c, n).remaining = c.remaining - 1
          /\ Hide(c, n).changeOutputFound \in BOOLEAN /\ Hide(c, n).discardSize = c.discardSize
      <3> HIDE DEF c, n
      <3>1. QED
        BY <1>1, <1>6 DEF Hide, Seen, Discard, Memories
    <2>4. /\ Show(c, n).bytes = c.bytes /\ Show(c, n).reviewed = c.reviewed
          /\ Show(c, n).state = "OUTPUT" /\ Show(c, n).remaining = c.remaining
          /\ Show(c, n).changeOutputFound = c.changeOutputFound /\ Show(c, n).discardSize = n
      <3> HIDE DEF c, n
      <3>1. QED
        BY <1>1, <1>6 DEF Show, Memories
    <2> HIDE DEF c, r
    <2>5. CASE r = Outcome("wait", c) \/ r = Outcome("throw", c)
      <3>1. r.name \in {"wait", "throw"} /\ r.m = c
        BY <2>5 DEF Outcome
      <3>2. r.m \in Memories
        BY <1>1, <3>1
      <3>3. Waits(m, r)
        BY <1>1, <1>6, <3>1 DEF Waits
      <3>4. QED
        BY <3>2, <3>3 DEF r
    <2>6. CASE r = Outcome("processed", Hide(c, n)) /\ n # 0
      <3>1. r.name = "processed" /\ r.m = Hide(c, n)
        BY <2>6 DEF Outcome
      <3>2. r.m \in Memories
        <4>1. n \in 0..Len(c.bytes) /\ c.bytes \in Seq(Byte) /\ c.reviewed \in Seq(Seq(Byte))
          BY <1>1, HeadFacts DEF Memories
        <4>2. /\ SubSeq(c.bytes, n + 1, Len(c.bytes)) \in Seq(Byte)
              /\ SubSeq(c.bytes, 1, n) \in Seq(Byte)
          BY <4>1, SplitAt
        <4>3. Append(c.reviewed, SubSeq(c.bytes, 1, n)) \in Seq(Seq(Byte))
          BY <4>1, <4>2, AppendProperties
        <4> HIDE DEF n
        <4>4. Hide(c, n) \in Memories
          <5> DEFINE e == Seen(c, n)
                     g == [e EXCEPT !.changeOutputFound = TRUE, !.remaining = @ - 1]
          <5>1. e \in Memories /\ e.bytes = c.bytes
            BY <1>1, <4>3 DEF Seen, Memories
          <5> HIDE DEF e
          <5> DEFINE e1 == [e EXCEPT !.changeOutputFound = TRUE]
          <5>a. TRUE \in BOOLEAN
            OBVIOUS
          <5>b. e1 \in Memories /\ e1.bytes = c.bytes
            BY <5>1, <5>a, FlagSet, Zenon
          <5>2. g \in Memories /\ g.bytes = c.bytes
            <6> HIDE DEF e1
            <6>1. e.remaining - 1 \in Int
              BY <5>1 DEF Memories
            <6>2. /\ [e1 EXCEPT !.remaining = e.remaining - 1] \in Memories
                  /\ [e1 EXCEPT !.remaining = e.remaining - 1].bytes = c.bytes
              BY <5>b, <6>1, CountSet, Zenon
            <6>3. QED
              BY <6>2 DEF e1
          <5> HIDE DEF g
          <5>3. Discard(g, n) \in Memories
            BY <5>2, <4>2 DEF Discard, Memories
          <5>4. QED
            BY <5>3 DEF Hide, g, e
        <4>5. QED
          BY <3>1, <4>4
      <3>3. Hides(m, r)
        BY <1>1, <1>6, <2>3, <2>6, <3>1 DEF Hides
      <3>4. QED
        BY <3>2, <3>3 DEF r
    <2>7. CASE r = Outcome("display", Show(c, n)) /\ n # 0
      <3>1. r.name = "display" /\ r.m = Show(c, n)
        BY <2>7 DEF Outcome
      <3>2. r.m \in Memories
        <4> HIDE DEF n
        <4>1. Show(c, n) \in Memories
          BY <1>1, <1>4 DEF Show, Memories
        <4>2. QED
          BY <3>1, <4>1
      <3>3. Shows(m, r)
        BY <1>1, <1>6, <2>4, <2>7, <3>1 DEF Shows
      <3>4. QED
        BY <3>2, <3>3 DEF r
    <2>8. QED
      BY <2>2, <2>5, <2>6, <2>7 DEF r
  <1>7. CASE m.state \in {"FINALIZE_TX", "HANDLE_LEGACY"}
    <2>1. r = Outcome("throw", c)
      BY <1>1, <1>7 DEF HandleOutputState
    <2> HIDE DEF c, r
    <2>2. QED
      BY <1>1, <2>1 DEF Outcome, Waits, Memories, r
  <1>8. QED
    BY <1>2, <1>5, <1>6, <1>7

\* What a turn, or several, leave of a buffer whose bytes are the last of h.
Keeps(m, r, h) ==
  /\ r.m \in Memories /\ Len(r.m.bytes) <= Len(m.bytes)
  /\ Suffix(m.bytes, h) => Suffix(r.m.bytes, h)
  /\ r.name = "display" =>
       r.m.state = "OUTPUT" /\ r.m.discardSize = HeadBytes(r.m) /\ r.m.discardSize # 0
  /\ r.name # "throw" => r.m.state \in {"NUMBER_OUTPUTS", "OUTPUT"}
  /\ m.state = "OUTPUT" => r.m.state = "OUTPUT"
  /\ r.name # "throw" /\ NumberHere(m) => r.m.state = "OUTPUT"
  /\ r.name # "throw" /\ Parsed(m, h) /\ m.reviewed \in Seq(Outputs) =>
       Parsed(r.m, h) /\ r.m.reviewed \in Seq(Outputs)

\* The number of outputs is dropped: the bytes hashed are a form of it and the rest.
LEMMA NumberRead ==
  ASSUME NEW m \in Memories, NEW r, ReadsNumber(m, r), NEW h \in Seq(Byte), Parsed(m, h)
  PROVE  Parsed(r.m, h) /\ r.m.reviewed = <<>>
  <1> DEFINE k == NumberBytes(m.bytes[1])
             f == SubSeq(m.bytes, 1, k)
  <1>1. m.bytes \in Seq(Byte) /\ m.state = "NUMBER_OUTPUTS" /\ m.bytes = h /\ m.reviewed = <<>>
    BY DEF Memories, ReadsNumber, Parsed
  <1>2. k \in 1..Len(m.bytes) /\ NumberAt(m, 1) \in Nat /\ f \in NumberForms(NumberAt(m, 1))
    BY <1>1, NumberIsForm DEF ReadsNumber, NumberHere
  <1>3. k \in 0..Len(m.bytes)
    BY <1>2
  <1>4. f \in Seq(Byte) /\ h = f \o r.m.bytes
    BY <1>1, <1>3, SplitAt DEF ReadsNumber
  <1>5. r.m.reviewed = <<>> /\ r.m.state = "OUTPUT" /\ r.m.remaining = NumberAt(m, 1)
    BY <1>1 DEF ReadsNumber
  <1> HIDE DEF f, k
  <1>6. FlattenSeq(r.m.reviewed) = <<>> /\ f \o <<>> = f
    BY <1>4, <1>5, ConcatEmptySeq DEF FlattenSeq
  <1>7. r.m.remaining + Len(r.m.reviewed) = NumberAt(m, 1)
    BY <1>2, <1>5
  <1>8. h = (f \o FlattenSeq(r.m.reviewed)) \o r.m.bytes
    BY <1>4, <1>6
  <1>9. QED
    BY <1>2, <1>5, <1>7, <1>8 DEF Parsed

\* Concatenation of bytes is associative.
LEMMA ConcatBytes ==
  ASSUME NEW s \in Seq(Byte), NEW t \in Seq(Byte), NEW u \in Seq(Byte)
  PROVE  (s \o t) \o u = s \o (t \o u)
  BY ConcatAssociative

\* An output moves from the head of the buffer to those reviewed.
LEMMA OutputMoves ==
  ASSUME NEW m, m.bytes \in Seq(Byte), m.reviewed \in Seq(Seq(Byte)), m.remaining \in Int,
         NEW h \in Seq(Byte), m.state = "OUTPUT", Parsed(m, h), HeadBytes(m) # 0
  PROVE  LET n == HeadBytes(m)
             more == Append(m.reviewed, SubSeq(m.bytes, 1, n))
         IN  /\ more \in Seq(Seq(Byte))
             /\ m.reviewed \in Seq(Outputs) => more \in Seq(Outputs)
             /\ \E f \in NumberForms((m.remaining - 1) + Len(more)) :
                  h = (f \o FlattenSeq(more)) \o SubSeq(m.bytes, n + 1, Len(m.bytes))
  <1> DEFINE n == HeadBytes(m)
             o == SubSeq(m.bytes, 1, n)
             rest == SubSeq(m.bytes, n + 1, Len(m.bytes))
             more == Append(m.reviewed, o)
  <1>1. n \in 0..Len(m.bytes) /\ o \in Outputs
    BY HeadFacts
  <1>2. o \in Seq(Byte) /\ rest \in Seq(Byte) /\ m.bytes = o \o rest
    BY <1>1, SplitAt
  <1>3. more \in Seq(Seq(Byte)) /\ Len(more) = Len(m.reviewed) + 1 /\ Len(m.reviewed) \in Nat
    BY <1>2, AppendProperties, LenProperties
  <1>4. m.reviewed \in Seq(Outputs) => more \in Seq(Outputs)
    BY <1>1, AppendProperties
  <1>5. PICK f \in NumberForms(m.remaining + Len(m.reviewed)) :
          h = (f \o FlattenSeq(m.reviewed)) \o m.bytes
    BY DEF Parsed
  <1>6. f \in Seq(Byte)
    BY <1>5 DEF NumberForms
  <1>7. FlattenSeq(m.reviewed) \in Seq(Byte) /\ FlattenSeq(more) = FlattenSeq(m.reviewed) \o o
    BY <1>2, FlattenAppend
  <1> DEFINE done == FlattenSeq(m.reviewed)
  <1> HIDE DEF done, o, rest, n, more
  <1>8. done \in Seq(Byte) /\ f \o done \in Seq(Byte)
    BY <1>6, <1>7, ConcatProperties DEF done
  <1>9. ((f \o done) \o o) \o rest = (f \o done) \o (o \o rest)
    BY <1>2, <1>8, ConcatBytes, Zenon
  <1>10. (f \o done) \o o = f \o (done \o o)
    BY <1>2, <1>6, <1>8, ConcatBytes, Zenon
  <1>11. h = (f \o FlattenSeq(more)) \o rest
    BY <1>2, <1>5, <1>7, <1>9, <1>10 DEF done
  <1>12. (m.remaining - 1) + Len(more) = m.remaining + Len(m.reviewed)
    <2>1. \A l \in Nat, q \in Int : (q - 1) + (l + 1) = q + l
      OBVIOUS
    <2>2. QED
      BY <1>3, <2>1, Zenon
  <1>13. QED
    BY <1>3, <1>4, <1>5, <1>11, <1>12 DEF more, o, rest, n

\* The head depends on the bytes only.
LEMMA HeadOfBytes ==
  ASSUME NEW m, NEW w, m.bytes = w.bytes
  PROVE  HeadBytes(m) = HeadBytes(w)
  <1>1. NumberAt(m, ScriptAt) = NumberAt(w, ScriptAt)
    BY DEF NumberAt
  <1>2. QED
    BY <1>1, Zenon DEF HeadBytes

\* One turn of handle_output_state loses no byte that was not reviewed.
LEMMA TurnKeeps ==
  ASSUME NEW m \in Memories, NEW h \in Seq(Byte)
  PROVE  Keeps(m, HandleOutputState(m), h)
  <1> DEFINE r == HandleOutputState(m)
  <1>1. /\ Waits(m, r) \/ ReadsNumber(m, r) \/ Hides(m, r) \/ Shows(m, r)
        /\ r.m \in Memories
    BY TurnCases
  <1> SUFFICES Keeps(m, r, h)
    OBVIOUS
  <1>2. /\ m.bytes \in Seq(Byte) /\ m.reviewed \in Seq(Seq(Byte)) /\ m.remaining \in Int
        /\ Len(m.bytes) \in Nat
    BY LenProperties DEF Memories
  <1> HIDE DEF r
  <1>3. CASE Waits(m, r)
    <2>1. /\ r.name \in {"wait", "throw"} /\ r.m.bytes = m.bytes /\ r.m.reviewed = m.reviewed
          /\ r.m.state = m.state /\ r.m.remaining = m.remaining
          /\ r.name = "wait" => m.state \in {"NUMBER_OUTPUTS", "OUTPUT"}
          /\ r.name = "wait" /\ NumberHere(m) => m.state = "OUTPUT"
      BY <1>3 DEF Waits
    <2>2. Parsed(m, h) => Parsed(r.m, h)
      BY <2>1 DEF Parsed
    <2>3. Len(r.m.bytes) <= Len(m.bytes) /\ (Suffix(m.bytes, h) => Suffix(r.m.bytes, h))
      BY <1>2, <2>1
    <2>4. r.name # "display" /\ (r.name # "throw" => r.name = "wait")
      BY <2>1
    <2>5. QED
      BY <1>1, <2>1, <2>2, <2>3, <2>4 DEF Keeps
  <1>4. CASE ReadsNumber(m, r)
    <2> DEFINE k == NumberBytes(m.bytes[1])
    <2>1. k \in 0..Len(m.bytes)
      BY <1>2, <1>4, NumberIsForm DEF ReadsNumber, NumberHere
    <2>2. r.m.bytes = SubSeq(m.bytes, k + 1, Len(m.bytes)) /\ r.m.state = "OUTPUT"
          /\ r.name = "processed"
      BY <1>4 DEF ReadsNumber
    <2> HIDE DEF k
    <2>3. Len(r.m.bytes) <= Len(m.bytes)
      BY <1>2, <2>1, <2>2, SplitAt
    <2>4. Suffix(m.bytes, h) => Suffix(r.m.bytes, h)
      BY <1>2, <2>1, <2>2, SuffixDrop
    <2>5. Parsed(m, h) => Parsed(r.m, h) /\ r.m.reviewed \in Seq(Outputs)
      BY <1>4, NumberRead, EmptySeq
    <2>6. r.name # "display" /\ r.name # "throw"
      BY <2>2
    <2>7. QED
      BY <1>1, <2>2, <2>3, <2>4, <2>5, <2>6 DEF Keeps
  <1>5. CASE Hides(m, r)
    <2> DEFINE n == HeadBytes(m)
               more == Append(m.reviewed, SubSeq(m.bytes, 1, n))
    <2>1. n \in 0..Len(m.bytes)
      BY <1>2, HeadFacts
    <2>2. /\ r.m.bytes = SubSeq(m.bytes, n + 1, Len(m.bytes)) /\ r.m.state = "OUTPUT"
          /\ r.name = "processed" /\ m.state = "OUTPUT" /\ n # 0
          /\ r.m.reviewed = more /\ r.m.remaining = m.remaining - 1
      BY <1>5 DEF Hides
    <2>3. Len(r.m.bytes) <= Len(m.bytes)
      <3> HIDE DEF n
      <3>1. QED
        BY <1>2, <2>1, <2>2, SplitAt
    <2>4. Suffix(m.bytes, h) => Suffix(r.m.bytes, h)
      <3> HIDE DEF n
      <3>1. QED
        BY <1>2, <2>1, <2>2, SuffixDrop
    <2>5. Parsed(m, h) /\ m.reviewed \in Seq(Outputs) =>
            Parsed(r.m, h) /\ r.m.reviewed \in Seq(Outputs)
      <3>1. HAVE Parsed(m, h) /\ m.reviewed \in Seq(Outputs)
      <3>2. /\ more \in Seq(Outputs)
            /\ \E f \in NumberForms((m.remaining - 1) + Len(more)) :
                 h = (f \o FlattenSeq(more)) \o SubSeq(m.bytes, n + 1, Len(m.bytes))
        BY <1>2, <2>2, <3>1, OutputMoves
      <3> HIDE DEF more, n
      <3>3. QED
        BY <2>2, <3>2 DEF Parsed
    <2>6. r.name # "display" /\ r.name # "throw"
      BY <2>2
    <2> HIDE DEF more, n
    <2>7. QED
      BY <1>1, <2>2, <2>3, <2>4, <2>5, <2>6 DEF Keeps
  <1>6. CASE Shows(m, r)
    <2>1. HeadBytes(r.m) = HeadBytes(m)
      BY <1>6, HeadOfBytes DEF Shows
    <2>2. /\ r.name = "display" /\ m.state = "OUTPUT" /\ r.m.state = "OUTPUT"
          /\ r.m.bytes = m.bytes /\ r.m.reviewed = m.reviewed /\ r.m.remaining = m.remaining
          /\ r.m.discardSize = HeadBytes(m) /\ HeadBytes(m) # 0
      BY <1>6 DEF Shows
    <2>3. Parsed(m, h) => Parsed(r.m, h)
      BY <2>2 DEF Parsed
    <2>4. Len(r.m.bytes) <= Len(m.bytes) /\ (Suffix(m.bytes, h) => Suffix(r.m.bytes, h))
      BY <1>2, <2>2
    <2>5. QED
      BY <1>1, <2>1, <2>2, <2>3, <2>4 DEF Keeps
  <1>7. QED
    BY <1>1, <1>3, <1>4, <1>5, <1>6

\* The loop.
LEMMA ParseKeeps ==
  ASSUME NEW m \in Memories, NEW h \in Seq(Byte)
  PROVE  Keeps(m, ParseOutputs(m), h)
  <1> DEFINE Again(r) == IF r.name = "processed" THEN HandleOutputState(r.m) ELSE r
             r1 == HandleOutputState(m)
             r2 == Again(r1)
             r3 == Again(r2)
  <1>1. Keeps(m, r1, h)
    BY TurnKeeps
  <1>2. ASSUME NEW r, Keeps(m, r, h) PROVE Keeps(m, Again(r), h)
    <2>1. CASE r.name = "processed"
      <3> DEFINE q == HandleOutputState(r.m)
      <3>1. r.m \in Memories
        BY <1>2 DEF Keeps
      <3>2. Keeps(r.m, q, h)
        BY <3>1, TurnKeeps
      <3> HIDE DEF q
      <3>3. Len(q.m.bytes) <= Len(m.bytes)
        <4>1. /\ Len(r.m.bytes) \in Nat /\ Len(q.m.bytes) \in Nat /\ Len(m.bytes) \in Nat
              /\ Len(r.m.bytes) <= Len(m.bytes) /\ Len(q.m.bytes) <= Len(r.m.bytes)
          BY <1>2, <3>2, LenProperties DEF Keeps, Memories
        <4>2. QED
          BY <4>1
      <3>4. Keeps(m, q, h)
        BY <1>2, <2>1, <3>2, <3>3 DEF Keeps
      <3>5. QED
        BY <2>1, <3>4 DEF q
    <2>2. CASE r.name # "processed"
      BY <1>2, <2>2
    <2>3. QED
      BY <2>1, <2>2
  <1> HIDE DEF Again
  <1>3. Keeps(m, r3, h)
    BY <1>1, <1>2
  <1>4. QED
    BY <1>3 DEF ParseOutputs, Again

-----------------------------------------------------------------------------
\* The review on one screen.

\* What is appended to leaves a prefix.
LEMMA PrefixOfConcat ==
  ASSUME NEW B, NEW p \in Seq(B), NEW q \in Seq(B)
  PROVE  IsPrefix(p, p \o q)
  <1>1. Len(p) \in Nat /\ Len(q) \in Nat
    BY LenProperties
  <1>2. p \o q \in Seq(B) /\ Len(p \o q) = Len(p) + Len(q)
    BY ConcatProperties
  <1>3. SubSeq(p, 1, Len(p)) = p
    BY SubSeqFull
  <1>4. Len(p) \in 0..Len(p \o q)
    BY <1>1, <1>2
  <1> DEFINE s == SubSeq(p \o q, 1, Len(p))
  <1>5. s \in Seq(B) /\ Len(s) = Len(p)
    BY <1>2, <1>4, SplitAt
  <1>6. \A i \in 1..Len(p) : s[i] = p[i]
    <2>1. \A i \in 1..Len(p) : (p \o q)[i] = p[i] /\ p[i] \in B
      BY <1>1, ConcatProperties, ElementOfSeq
    <2>2. \A i \in 1..Len(p) - 1 + 1 : s[i] = (p \o q)[1 + i - 1]
      BY <1>1, <2>1, SubSeqProperties
    <2>3. Len(p) - 1 + 1 = Len(p) /\ \A i \in 1..Len(p) : 1 + i - 1 = i
      BY <1>1
    <2> HIDE DEF s
    <2>4. QED
      BY <2>1, <2>2, <2>3
  <1> HIDE DEF s
  <1>7. s = p
    BY <1>5, <1>6, SeqEqual
  <1>8. Len(p) <= Len(p \o q)
    BY <1>1, <1>2
  <1>9. QED
    BY <1>3, <1>7, <1>8 DEF IsPrefix, s

\* An address the device shows is a whole output, where it ends in the buffer.
LEMMA RegularOutput ==
  ASSUME NEW m, m.bytes \in Seq(Byte), NEW s \in 1..Len(m.bytes), NEW at,
         at = s + ScriptAt, EndsInBuffer(m, at), IsRegular(m, at)
  PROVE  LET e == at + m.bytes[at]
         IN  e \in s..Len(m.bytes) /\ SubSeq(m.bytes, s + 1, e) \in Outputs
  <1> DEFINE b == m.bytes
             e == at + b[at]
             o == SubSeq(b, s + 1, e)
             w == [bytes |-> o]
  <1>1. /\ Len(b) \in Nat /\ HeaderBytes \in Nat \ {0} /\ ScriptAt = HeaderBytes + 1
        /\ s \in Nat /\ s >= 1 /\ s <= Len(b) /\ at \in Nat /\ at <= Len(b) /\ at >= 1
        /\ at \in 1..Len(b) /\ e <= Len(b)
    BY LenProperties, OutputBufferAssumption DEF OutputBufferAssumption, ScriptAt, EndsInBuffer
  <1>2. b[at] \in Byte /\ b[at] < 253
    <2>1. PICK script \in Regular : ScriptIs(m, at, script)
      BY DEF IsRegular
    <2>2. script \in Seq(Byte) /\ Len(script) < 253 /\ Len(script) \in Nat
      BY <2>1, OutputBufferAssumption, LenProperties DEF OutputBufferAssumption
    <2>3. /\ at + Len(script) <= Len(b)
          /\ SubSeq(b, at, at + Len(script)) = <<Len(script)>> \o script
      BY <2>1 DEF ScriptIs
    <2>4. SubSeq(b, at, at + Len(script))[1] = b[at]
      <3> DEFINE l == at + Len(script)
      <3>1. \A i \in at..l : b[i] \in Byte
        BY <1>1, <2>2, <2>3, ElementOfSeq
      <3>2. at \in Int /\ l \in Int /\ 1 \in 1..l - at + 1 /\ at + 1 - 1 = at
        BY <1>1, <2>2
      <3> HIDE DEF b, l
      <3>3. \A i \in 1..l - at + 1 : SubSeq(b, at, l)[i] = b[at + i - 1]
        BY <3>1, <3>2, SubSeqProperties
      <3>4. SubSeq(b, at, l)[1] = b[at]
        BY <3>2, <3>3
      <3>5. QED
        BY <3>4 DEF l
    <2>5. (<<Len(script)>> \o script)[1] = Len(script)
      BY <2>2
    <2>6. b[at] = Len(script)
      BY <2>3, <2>4, <2>5
    <2>7. b[at] \in Byte
      BY <1>1, ElementOfSeq
    <2>8. QED
      BY <2>2, <2>6, <2>7
  <1>3. b[at] \in Nat
    BY <1>2, ByteCases
  <1> HIDE DEF b
  <1>4. e \in Nat /\ e >= s /\ e \in s..Len(b) /\ e - s = ScriptAt + b[at] /\ e - s >= ScriptAt
    BY <1>1, <1>3
  <1> HIDE DEF e
  <1>5. b \in Seq(Byte)
    BY DEF b
  <1>6. o \in Seq(Byte) /\ Len(o) = e - s /\ \A i \in 1..e - s : o[i] = b[s + i]
    <2>1. \A i \in s + 1..e : b[i] \in Byte
      BY <1>1, <1>4, <1>5, ElementOfSeq
    <2>2. /\ s + 1 \in Int /\ e \in Int /\ s + 1 <= e /\ e - (s + 1) + 1 = e - s
          /\ \A i \in 1..e - s : (s + 1) + i - 1 = s + i
      BY <1>1, <1>4
    <2>3. /\ o \in Seq(Byte) /\ Len(o) = e - (s + 1) + 1
          /\ \A i \in 1..e - (s + 1) + 1 : o[i] = b[(s + 1) + i - 1]
      BY <2>1, <2>2, SubSeqProperties
    <2> HIDE DEF o
    <2>4. QED
      BY <2>2, <2>3
  <1> HIDE DEF o
  <1>7. o[ScriptAt] = b[at]
    <2>1. ScriptAt \in 1..e - s
      BY <1>1, <1>4
    <2>2. QED
      BY <1>6, <2>1
  <1>8. w.bytes = o
    OBVIOUS
  <1> HIDE DEF w
  <1>9. NumberBytes(o[ScriptAt]) = 1 /\ NumberAt(w, ScriptAt) = b[at]
    BY <1>2, <1>7, <1>8 DEF NumberBytes, NumberAt
  <1>10. HeadBytes(w) = Len(o)
    <2>1. HeaderBytes + 1 + b[at] = Len(o) /\ ~(Len(o) < ScriptAt) /\ ~(Len(o) < HeaderBytes + 1)
          /\ ~(Len(o) < HeaderBytes + 1 + b[at])
      BY <1>1, <1>3, <1>4, <1>6
    <2>2. QED
      BY <1>8, <1>9, <2>1 DEF HeadBytes
  <1>11. o # <<>>
    BY <1>1, <1>4, <1>6, EmptySeq
  <1>12. o \in Outputs
    BY <1>6, <1>10, <1>11 DEF Outputs, w
  <1>13. QED
    BY <1>4, <1>12 DEF o, e, b

\* One output more that is read next to those before.
LEMMA NextOutput ==
  ASSUME NEW b \in Seq(Byte), NEW f \in Seq(Byte), NEW outputs \in Seq(Outputs),
         NEW s \in 1..Len(b), NEW e \in s..Len(b),
         f \o FlattenSeq(outputs) = SubSeq(b, 1, s), SubSeq(b, s + 1, e) \in Outputs
  PROVE  /\ Append(outputs, SubSeq(b, s + 1, e)) \in Seq(Outputs)
         /\ f \o FlattenSeq(Append(outputs, SubSeq(b, s + 1, e))) = SubSeq(b, 1, e)
  <1> DEFINE o == SubSeq(b, s + 1, e)
             done == FlattenSeq(outputs)
  <1>1. Append(outputs, o) \in Seq(Outputs)
    BY AppendProperties
  <1>2. outputs \in Seq(Seq(Byte)) /\ o \in Seq(Byte)
    <2>1. Outputs \subseteq Seq(Byte)
      BY DEF Outputs
    <2>2. QED
      BY <2>1, SeqMonotonic
  <1>3. FlattenSeq(Append(outputs, o)) = done \o o /\ done \in Seq(Byte)
    BY <1>2, FlattenAppend
  <1>4. SubSeq(b, 1, s) \o o = SubSeq(b, 1, e)
    <2>1. 1 \in 1..Len(b) + 1 /\ s \in 1 - 1..Len(b)
      BY LenProperties
    <2>2. QED
      BY <2>1, ConcatAdjacentSubSeq
  <1> HIDE DEF o, done
  <1>5. (f \o done) \o o = f \o (done \o o)
    BY <1>2, <1>3, ConcatBytes
  <1>6. QED
    BY <1>1, <1>3, <1>4, <1>5 DEF done, o

\* Output i of those the one screen covers.
OutputOf(m, i) ==
  LET at == ScriptOf(m, i)
  IN  SubSeq(m.bytes, at - HeaderBytes, at + m.bytes[at])

\* Where the bytes of output i end.
EndOf(m, i) == ScriptOf(m, i) + m.bytes[ScriptOf(m, i)]

\* The one screen covers one to three outputs.
LEMMA FullCount ==
  ASSUME NEW m, m.bytes \in Seq(Byte), FullOutputReviewable(m)
  PROVE  /\ m.bytes[1] \in {1, 2, 3} /\ 1 \in 1..Len(m.bytes)
         /\ \A i \in 1..m.bytes[1] : /\ EndsInBuffer(m, ScriptOf(m, i))
                                     /\ IsRegular(m, ScriptOf(m, i))
  <1> DEFINE outputs == 1..m.bytes[1]
             changes == {i \in outputs : IsChange(m, ScriptOf(m, i))}
  <1>1. /\ m.bytes # <<>> /\ m.bytes[1] <= 3
        /\ Cardinality(outputs \ changes) = 1
        /\ \A i \in outputs : EndsInBuffer(m, ScriptOf(m, i)) /\ IsRegular(m, ScriptOf(m, i))
    BY DEF FullOutputReviewable, MaxFullOutputs
  <1>2. Len(m.bytes) \in Nat \ {0} /\ 1 \in 1..Len(m.bytes)
    BY <1>1, EmptySeq
  <1>3. m.bytes[1] \in Nat
    <2>1. m.bytes[1] \in Byte
      BY <1>2, ElementOfSeq
    <2>2. QED
      BY <2>1, ByteCases
  <1>4. m.bytes[1] # 0
    <2>1. SUFFICES ASSUME m.bytes[1] = 0 PROVE FALSE
      OBVIOUS
    <2>2. outputs = {}
      BY <2>1
    <2>3. outputs \ changes = {}
      BY <2>2
    <2>4. Cardinality({}) = 0
      BY FS_EmptySet
    <2>5. Cardinality(outputs \ changes) = 0
      BY <2>3, <2>4
    <2>6. Cardinality(outputs \ changes) = 1
      BY <1>1
    <2> HIDE DEF outputs, changes
    <2>7. QED
      BY <2>5, <2>6
  <1>5. QED
    BY <1>1, <1>2, <1>3, <1>4

\* Each of them is an output, next to the one before it.
LEMMA FullOutputAt ==
  ASSUME NEW m, m.bytes \in Seq(Byte), FullOutputReviewable(m), NEW s \in 1..Len(m.bytes),
         NEW i \in 1..m.bytes[1], ScriptOf(m, i) = s + ScriptAt
  PROVE  /\ EndOf(m, i) \in s..Len(m.bytes) /\ EndOf(m, i) \in 1..Len(m.bytes)
         /\ OutputOf(m, i) = SubSeq(m.bytes, s + 1, EndOf(m, i))
         /\ OutputOf(m, i) \in Outputs
         /\ AfterScript(m, ScriptOf(m, i)) = EndOf(m, i) + ScriptAt
  <1> DEFINE at == ScriptOf(m, i)
             b == m.bytes
             e == EndOf(m, i)
  <1>1. EndsInBuffer(m, at) /\ IsRegular(m, at)
    BY FullCount
  <1>2. e = at + b[at]
    BY DEF EndOf
  <1>3. e \in s..Len(b) /\ SubSeq(b, s + 1, e) \in Outputs
    BY <1>1, <1>2, RegularOutput
  <1>4. /\ HeaderBytes \in Nat /\ ScriptAt = HeaderBytes + 1 /\ s \in Nat /\ s >= 1
        /\ Len(b) \in Nat /\ at \in Nat /\ at <= Len(b)
    BY <1>1, LenProperties, OutputBufferAssumption
    DEF OutputBufferAssumption, ScriptAt, EndsInBuffer
  <1>5. at - HeaderBytes = s + 1
    BY <1>4
  <1>6. OutputOf(m, i) = SubSeq(b, s + 1, e)
    BY <1>2, <1>5 DEF OutputOf
  <1>7. AfterScript(m, at) = e + ScriptAt
    BY <1>2, <1>4 DEF AfterScript
  <1>8. e \in 1..Len(b)
    BY <1>3, <1>4
  <1>9. QED
    BY <1>3, <1>6, <1>7, <1>8

\* The outputs of the one screen are the first of the bytes, and all of them.
LEMMA FullOutputShows ==
  ASSUME NEW m, m.bytes \in Seq(Byte), FullOutputReviewable(m)
  PROVE  LET outputs == [i \in 1..m.bytes[1] |-> OutputOf(m, i)]
         IN  outputs \in Seq(Outputs) /\ Shown(outputs, m.bytes)
  <1> DEFINE b == m.bytes
             n == b[1]
             f == <<n>>
             o1 == OutputOf(m, 1)
             o2 == OutputOf(m, 2)
             o3 == OutputOf(m, 3)
             q1 == Append(<<>>, o1)
             q2 == Append(q1, o2)
             q3 == Append(q2, o3)
             outputs == [i \in 1..n |-> OutputOf(m, i)]
             e1 == EndOf(m, 1)
             e2 == EndOf(m, 2)
             e3 == EndOf(m, 3)
  <1>1. n \in {1, 2, 3} /\ 1 \in 1..Len(b)
    BY FullCount
  <1>2. /\ 1 \in 1..n
        /\ n >= 2 => 2 \in 1..n
        /\ n >= 3 => 3 \in 1..n
    BY <1>1
  <1>3. /\ ScriptOf(m, 1) = 1 + ScriptAt
        /\ ScriptOf(m, 2) = AfterScript(m, ScriptOf(m, 1))
        /\ ScriptOf(m, 3) = AfterScript(m, ScriptOf(m, 2))
    BY DEF ScriptOf
  <1>4. /\ e1 \in 1..Len(b) /\ o1 = SubSeq(b, 1 + 1, e1) /\ o1 \in Outputs
        /\ ScriptOf(m, 2) = e1 + ScriptAt
    BY <1>1, <1>2, <1>3, FullOutputAt
  <1>5. n >= 2 => /\ e2 \in e1..Len(b) /\ e2 \in 1..Len(b) /\ o2 = SubSeq(b, e1 + 1, e2)
                  /\ o2 \in Outputs /\ ScriptOf(m, 3) = e2 + ScriptAt
    BY <1>2, <1>3, <1>4, FullOutputAt
  <1>6. n >= 3 => e3 \in e2..Len(b) /\ e3 \in 1..Len(b) /\ o3 = SubSeq(b, e2 + 1, e3) /\ o3 \in Outputs
    BY <1>1, <1>2, <1>5, FullOutputAt
  <1> HIDE DEF e1, e2, e3, o1, o2, o3, f, q1, q2, q3
  <1>7. f \in Seq(Byte) /\ f \in NumberForms(n)
    <2>1. n \in Byte /\ n < 253
      BY <1>1 DEF Byte
    <2>2. <<n>> \in Seq(Byte) /\ Len(<<n>>) = 1
      BY <2>1
    <2> HIDE DEF n
    <2>3. QED
      BY <2>1, <2>2 DEF NumberForms, f
  <1>8. f \o FlattenSeq(<<>>) = SubSeq(b, 1, 1) /\ <<>> \in Seq(Outputs)
    <2>1. f \o <<>> = f /\ FlattenSeq(<<>>) = <<>> /\ <<>> \in Seq(Outputs)
      BY <1>7, ConcatEmptySeq, EmptySeq DEF FlattenSeq
    <2>2. f = SubSeq(b, 1, 1)
      <3>1. SubSeq(b, 1, 1) \in Seq(Byte) /\ Len(SubSeq(b, 1, 1)) = 1
        BY <1>1, SplitAt
      <3>2. SubSeq(b, 1, 1)[1] = b[1]
        <4>1. \A i \in 1..1 : b[i] \in Byte
          BY <1>1, ElementOfSeq
        <4>2. \A i \in 1..1 - 1 + 1 : SubSeq(b, 1, 1)[i] = b[1 + i - 1]
          BY <4>1, SubSeqProperties
        <4>3. 1 \in 1..1 - 1 + 1 /\ 1 + 1 - 1 = 1
          OBVIOUS
        <4>4. QED
          BY <4>2, <4>3
      <3>3. Len(f) = 1 /\ f[1] = b[1]
        BY DEF f
      <3>4. QED
        BY <1>7, <3>1, <3>2, <3>3, SeqEqual
    <2>3. QED
      BY <2>1, <2>2
  <1>9. q1 \in Seq(Outputs) /\ f \o FlattenSeq(q1) = SubSeq(b, 1, e1)
    BY <1>1, <1>4, <1>7, <1>8, NextOutput DEF q1
  <1>10. n >= 2 => q2 \in Seq(Outputs) /\ f \o FlattenSeq(q2) = SubSeq(b, 1, e2)
    <2>1. SUFFICES ASSUME n >= 2 PROVE q2 \in Seq(Outputs) /\ f \o FlattenSeq(q2) = SubSeq(b, 1, e2)
      OBVIOUS
    <2>2. e2 \in e1..Len(b) /\ o2 = SubSeq(b, e1 + 1, e2) /\ o2 \in Outputs
      BY <1>5, <2>1
    <2>3. b \in Seq(Byte) /\ SubSeq(b, e1 + 1, e2) \in Outputs
      BY <2>2
    <2> HIDE DEF n, b
    <2>4. QED
      BY <1>4, <1>7, <1>9, <2>2, <2>3, NextOutput DEF q2
  <1>11. n >= 3 => q3 \in Seq(Outputs) /\ f \o FlattenSeq(q3) = SubSeq(b, 1, e3)
    <2>1. SUFFICES ASSUME n >= 3 PROVE q3 \in Seq(Outputs) /\ f \o FlattenSeq(q3) = SubSeq(b, 1, e3)
      OBVIOUS
    <2>2. e3 \in e2..Len(b) /\ o3 = SubSeq(b, e2 + 1, e3) /\ o3 \in Outputs
      BY <1>6, <2>1
    <2>3. e2 \in 1..Len(b) /\ q2 \in Seq(Outputs) /\ f \o FlattenSeq(q2) = SubSeq(b, 1, e2)
      BY <1>1, <1>5, <1>10, <2>1
    <2>4. b \in Seq(Byte) /\ SubSeq(b, e2 + 1, e3) \in Outputs
      BY <2>2
    <2> HIDE DEF n, b
    <2>5. QED
      BY <1>7, <2>2, <2>3, <2>4, NextOutput DEF q3
  <1>12. ASSUME NEW q \in Seq(Outputs), NEW e \in 1..Len(b), Len(q) = n,
                f \o FlattenSeq(q) = SubSeq(b, 1, e), outputs = q
         PROVE  outputs \in Seq(Outputs) /\ Shown(outputs, b)
    <2>1. IsPrefix(SubSeq(b, 1, e), b)
      <3>1. e \in 0..Len(b)
        BY <1>12
      <3>2. /\ SubSeq(b, 1, e) \in Seq(Byte) /\ SubSeq(b, e + 1, Len(b)) \in Seq(Byte)
            /\ b = SubSeq(b, 1, e) \o SubSeq(b, e + 1, Len(b))
        BY <3>1, SplitAt
      <3>3. QED
        BY <3>2, PrefixOfConcat
    <2> HIDE DEF outputs
    <2>2. QED
      BY <1>7, <1>12, <2>1 DEF Shown
  <1>13. CASE n = 1
    <2>1. outputs = q1 /\ Len(q1) = n
      BY <1>13 DEF q1, o1
    <2>2. QED
      BY <1>4, <1>9, <1>12, <2>1
  <1>14. CASE n = 2
    <2>1. outputs = q2 /\ Len(q2) = n
      BY <1>14 DEF q1, q2, o1, o2
    <2>2. e2 \in 1..Len(b) /\ q2 \in Seq(Outputs) /\ f \o FlattenSeq(q2) = SubSeq(b, 1, e2)
      BY <1>5, <1>10, <1>14
    <2>3. QED
      BY <1>12, <2>1, <2>2
  <1>15. CASE n = 3
    <2>1. outputs = q3 /\ Len(q3) = n
      BY <1>15 DEF q1, q2, q3, o1, o2, o3
    <2>2. e3 \in 1..Len(b) /\ q3 \in Seq(Outputs) /\ f \o FlattenSeq(q3) = SubSeq(b, 1, e3)
      BY <1>6, <1>11, <1>15
    <2>3. QED
      BY <1>12, <2>1, <2>2
  <1>16. QED
    BY <1>1, <1>13, <1>14, <1>15

-----------------------------------------------------------------------------
\* The commands.

\* The variables hold a buffer.
LEMMA MemoryType ==
  ASSUME TypeOK
  PROVE  /\ Memory \in Memories
         /\ Memory.bytes = currentOutput /\ Memory.reviewed = reviewed
         /\ Memory.state = parser.state /\ Memory.remaining = parser.remaining
         /\ Memory.discardSize = parser.discardSize
  BY DEF TypeOK, Memory, Memories, Parsers

\* A buffer that is stored is the buffer of the next state.
LEMMA StoreIs ==
  ASSUME NEW m \in Memories, Store(m)
  PROVE  /\ Memory' = m
         /\ currentOutput' = m.bytes /\ reviewed' = m.reviewed
         /\ parser'.state = m.state /\ parser'.remaining = m.remaining
         /\ parser'.discardSize = m.discardSize
         /\ currentOutput' \in Seq(Byte) /\ reviewed' \in Seq(Seq(Byte)) /\ parser' \in Parsers
  <1>1. m = [bytes |-> m.bytes, reviewed |-> m.reviewed, state |-> m.state,
             remaining |-> m.remaining, changeOutputFound |-> m.changeOutputFound,
             discardSize |-> m.discardSize]
    BY DEF Memories
  <1>2. /\ m.bytes \in Seq(Byte) /\ m.reviewed \in Seq(Seq(Byte))
        /\ m.state \in {"NUMBER_OUTPUTS", "OUTPUT", "FINALIZE_TX", "HANDLE_LEGACY"}
        /\ m.remaining \in Int /\ m.changeOutputFound \in BOOLEAN /\ m.discardSize \in Nat
    BY DEF Memories
  <1>3. /\ currentOutput' = m.bytes /\ reviewed' = m.reviewed
        /\ parser' = [state |-> m.state, remaining |-> m.remaining,
                      changeOutputFound |-> m.changeOutputFound, discardSize |-> m.discardSize]
    BY DEF Store
  <1>4. /\ parser'.state = m.state /\ parser'.remaining = m.remaining
        /\ parser'.changeOutputFound = m.changeOutputFound
        /\ parser'.discardSize = m.discardSize
    BY <1>3
  <1>5. Memory' = m
    BY <1>1, <1>3, <1>4, Zenon DEF Memory
  <1>6. parser' \in Parsers
    BY <1>2, <1>3, Zenon DEF Parsers
  <1>7. QED
    BY <1>2, <1>3, <1>4, <1>5, <1>6

\* A buffer may be emptied, and its state set.
LEMMA StateSet ==
  ASSUME NEW m \in Memories, NEW x \in BOOLEAN,
         NEW s \in {"NUMBER_OUTPUTS", "OUTPUT", "FINALIZE_TX", "HANDLE_LEGACY"}
  PROVE  LET e == [m EXCEPT !.bytes = <<>>, !.state = s, !.changeOutputFound = x]
             f == [m EXCEPT !.state = s]
         IN  /\ e \in Memories /\ e.bytes = <<>> /\ e.reviewed = m.reviewed /\ e.state = s
             /\ f \in Memories /\ f.bytes = m.bytes /\ f.reviewed = m.reviewed /\ f.state = s
             /\ f.remaining = m.remaining /\ f.discardSize = m.discardSize
  <1>1. <<>> \in Seq(Byte)
    BY EmptySeq
  <1>2. QED
    BY <1>1 DEF Memories

\* The buffer behind the one screen.
LEMMA FullOutputIs ==
  ASSUME NEW m \in Memories, [i \in 1..m.bytes[1] |-> OutputOf(m, i)] \in Seq(Seq(Byte))
  PROVE  LET e == FullOutput(m)
         IN  /\ e \in Memories /\ e.bytes = m.bytes
             /\ e.reviewed = [i \in 1..m.bytes[1] |-> OutputOf(m, i)]
  <1> DEFINE q == [i \in 1..m.bytes[1] |-> OutputOf(m, i)]
  <1>1. FullOutput(m) = [m EXCEPT !.state = "HANDLE_LEGACY", !.remaining = 0, !.reviewed = q]
    BY DEF FullOutput, OutputOf
  <1>2. q \in Seq(Seq(Byte)) /\ 0 \in Int
    OBVIOUS
  <1>3. "HANDLE_LEGACY" \in {"NUMBER_OUTPUTS", "OUTPUT", "FINALIZE_TX", "HANDLE_LEGACY"}
    OBVIOUS
  <1> SUFFICES LET e == FullOutput(m)
               IN  e \in Memories /\ e.bytes = m.bytes /\ e.reviewed = q
    OBVIOUS
  <1> HIDE DEF q
  <1>4. PICK s \in {"NUMBER_OUTPUTS", "OUTPUT", "FINALIZE_TX", "HANDLE_LEGACY"} : s = "HANDLE_LEGACY"
    BY <1>3
  <1>5. PICK k \in Int : k = 0
    BY <1>2
  <1> DEFINE e == [m EXCEPT !.state = s, !.remaining = k, !.reviewed = q]
  <1>6. e \in Memories /\ e.bytes = m.bytes /\ e.reviewed = q
    BY <1>2 DEF Memories
  <1>7. FullOutput(m) = e
    BY <1>1, <1>4, <1>5
  <1> HIDE DEF e
  <1>8. QED
    BY <1>6, <1>7

\* btchip_apdu_hash_input_finalize_full_reset empties the buffer.
LEMMA ResetIs ==
  ASSUME NEW m \in Memories
  PROVE  LET e == Reset(m)
         IN  /\ e \in Memories /\ e.bytes = <<>> /\ e.reviewed = m.reviewed
             /\ e.state = "NUMBER_OUTPUTS"
  <1>1. FALSE \in BOOLEAN
    OBVIOUS
  <1>2. QED
    BY <1>1, StateSet, Zenon DEF Reset

\* The bytes hashed, and those of a block more.
LEMMA HashedGrows ==
  ASSUME TypeOK
  PROVE  /\ Hashed \in Seq(Byte) /\ Len(Hashed) = sent
         /\ \A n \in Nat : sent + n <= Len(stream) =>
              /\ SubSeq(stream, sent + 1, sent + n) \in Seq(Byte)
              /\ SubSeq(stream, 1, sent + n) = Hashed \o SubSeq(stream, sent + 1, sent + n)
              /\ SubSeq(stream, 1, sent + n) \in Seq(Byte)
              /\ Len(SubSeq(stream, 1, sent + n)) = sent + n
  <1>1. stream \in Seq(Byte) /\ sent \in 0..Len(stream) /\ Len(stream) \in Nat
    BY OutputBufferAssumption, LenProperties DEF TypeOK, OutputBufferAssumption
  <1>2. Hashed \in Seq(Byte) /\ Len(Hashed) = sent
    BY <1>1, SplitAt DEF Hashed
  <1>3. ASSUME NEW n \in Nat, sent + n <= Len(stream)
        PROVE  /\ SubSeq(stream, sent + 1, sent + n) \in Seq(Byte)
               /\ SubSeq(stream, 1, sent + n) = Hashed \o SubSeq(stream, sent + 1, sent + n)
               /\ SubSeq(stream, 1, sent + n) \in Seq(Byte)
               /\ Len(SubSeq(stream, 1, sent + n)) = sent + n
    <2>1. sent + n \in 0..Len(stream) /\ sent + n \in sent..Len(stream)
          /\ 1 \in 1..Len(stream) + 1 /\ sent \in 1 - 1..Len(stream)
      BY <1>1, <1>3
    <2>2. SubSeq(stream, 1, sent + n) \in Seq(Byte) /\ Len(SubSeq(stream, 1, sent + n)) = sent + n
      BY <1>1, <2>1, SplitAt
    <2>3. SubSeq(stream, 1, sent + n) = Hashed \o SubSeq(stream, sent + 1, sent + n)
      BY <1>1, <2>1, ConcatAdjacentSubSeq DEF Hashed
    <2>4. \A i \in sent + 1..sent + n : stream[i] \in Byte
      BY <1>1, <1>3, ElementOfSeq
    <2>5. SubSeq(stream, sent + 1, sent + n) \in Seq(Byte)
      BY <1>1, <2>4, SubSeqProperties
    <2>6. QED
      BY <2>2, <2>3, <2>5
  <1>4. QED
    BY <1>2, <1>3

\* A transaction given up leaves nothing to keep.
LEMMA Dropped ==
  ASSUME TypeOK', transactionState' \notin {"PARSING", "PRESIGN_READY"}, screen' = "none"
  PROVE  BufferInv'
  BY DEF BufferInv, ScreenInv, ShownOutputWaits, WaitingInv, ParsedInv, LastScreens

\* A command that fails leaves a state of the right types.
LEMMA DiscardType ==
  ASSUME TypeOK, NEW m \in Memories, DiscardTransaction(m),
         UNCHANGED <<firstSigned, stream, change, disorder>>,
         sent' \in 0..Len(stream), screen' = "none"
  PROVE  BufferInv'
  <1>1. Reset(m) \in Memories /\ Reset(m).bytes = <<>> /\ Store(Reset(m))
    BY ResetIs DEF DiscardTransaction
  <1>2. /\ currentOutput' = <<>> /\ currentOutput' \in Seq(Byte)
        /\ reviewed' \in Seq(Seq(Byte)) /\ parser' \in Parsers
    BY <1>1, StoreIs
  <1>3. Len(currentOutput') <= BufferBytes
    BY <1>2, OutputBufferAssumption DEF OutputBufferAssumption
  <1>4. transactionState' = "NONE"
    BY DEF DiscardTransaction
  <1>5. TypeOK'
    BY <1>2, <1>3, <1>4 DEF TypeOK, change
  <1>6. QED
    BY <1>4, <1>5, Dropped

\* HASH_INPUT_START, the first block: everything begins anew.
LEMMA StartFirstStep ==
  ASSUME BufferInv, NEW new \in BOOLEAN, NEW s \in Streams, StartFirst(new, s)
  PROVE  BufferInv'
  <1> DEFINE m == [Reset(Memory) EXCEPT !.reviewed = <<>>]
  <1>1. /\ TypeOK /\ screen = "none" /\ screen' = "none" /\ stream' = s /\ sent' = 0
        /\ disorder' = {} /\ firstSigned' = TRUE
        /\ transactionState' \in {"NONE", "PARSING", "PRESIGN_READY"}
    BY DEF BufferInv, StartFirst, Listening, InputsParse
  <1>2. m \in Memories /\ m.bytes = <<>> /\ m.state = "NUMBER_OUTPUTS" /\ m.reviewed = <<>>
    <2>1. /\ Reset(Memory) \in Memories /\ Reset(Memory).bytes = <<>>
          /\ Reset(Memory).state = "NUMBER_OUTPUTS"
      BY <1>1, MemoryType, ResetIs
    <2>2. <<>> \in Seq(Seq(Byte))
      BY EmptySeq
    <2>3. QED
      BY <2>1, <2>2 DEF Memories
  <1>3. Store(m)
    BY DEF StartFirst
  <1> HIDE DEF m
  <1>4. /\ Memory' = m /\ currentOutput' = <<>> /\ reviewed' = <<>>
        /\ parser'.state = "NUMBER_OUTPUTS" /\ parser' \in Parsers
        /\ currentOutput' \in Seq(Byte) /\ reviewed' \in Seq(Seq(Byte))
    BY <1>2, <1>3, StoreIs
  <1>5. changeAddress' \in Changes \cup {NoAddress} /\ {changeAccepted', multipleOutput'} \subseteq BOOLEAN
    BY <1>1 DEF StartFirst, TypeOK, change
  <1>6. TypeOK'
    <2>1. stream' \in Seq(Byte) /\ Len(stream') \in Nat /\ BufferBytes \in Nat
      BY <1>1, OutputBufferAssumption, LenProperties DEF OutputBufferAssumption
    <2>2. sent' \in 0..Len(stream') /\ Len(currentOutput') <= BufferBytes
      BY <1>1, <1>4, <2>1
    <2>3. QED
      BY <1>1, <1>4, <1>5, <2>2 DEF TypeOK
  <1>7. Hashed' = <<>>
    <2>1. SubSeq(s, 1, 0) = <<>>
      BY OutputBufferAssumption, SubSeqEmpty DEF OutputBufferAssumption
    <2>2. QED
      BY <1>1, <2>1 DEF Hashed
  <1>8. WaitingInv'
    <2>1. Suffix(<<>>, <<>>)
      <3>1. SubSeq(<<>>, 1, 0) = <<>> /\ Len(<<>>) = 0
        OBVIOUS
      <3>2. QED
        BY <3>1 DEF Suffix
    <2>2. Suffix(currentOutput', Hashed')
      BY <1>4, <1>7, <2>1
    <2>3. QED
      BY <1>1, <1>4, <2>2 DEF WaitingInv, Suffix
  <1>9. ParsedInv'
    <2>1. Parsed(m, <<>>)
      BY <1>2 DEF Parsed
    <2>2. Parsed(Memory, Hashed)'
      BY <1>4, <1>7, <2>1 DEF Parsed
    <2>3. ~(screen' \in LastScreens) /\ DOMAIN reviewed' = {}
      BY <1>1, <1>4 DEF LastScreens
    <2>4. QED
      BY <1>1, <1>4, <2>2, <2>3, Zenon DEF ParsedInv
  <1>10. ScreenInv'
    BY <1>1 DEF ScreenInv, ShownOutputWaits
  <1>11. QED
    BY <1>6, <1>8, <1>9, <1>10 DEF BufferInv

\* HASH_INPUT_START, another block.
LEMMA StartNextStep ==
  ASSUME BufferInv, StartNext
  PROVE  BufferInv'
  <1>1. /\ UNCHANGED <<firstSigned, stream, sent, buffer, change, screen, reviewed, disorder>>
        /\ transactionState = "PARSING" /\ screen = "none"
        /\ transactionState' \in {"NONE", "PARSING", "PRESIGN_READY"}
    BY DEF StartNext, Listening, InputsParse
  <1>2. /\ currentOutput' = currentOutput /\ parser' = parser /\ reviewed' = reviewed
        /\ stream' = stream /\ sent' = sent /\ screen' = screen /\ disorder' = disorder
        /\ changeAddress' = changeAddress /\ changeAccepted' = changeAccepted
        /\ multipleOutput' = multipleOutput /\ firstSigned' = firstSigned
    BY <1>1 DEF buffer, change
  <1>3. Memory' = Memory /\ Hashed' = Hashed
    BY <1>2 DEF Memory, Hashed
  <1>4. TypeOK'
    BY <1>1, <1>2 DEF BufferInv, TypeOK
  <1>5. ScreenInv'
    BY <1>1, <1>2 DEF ScreenInv, ShownOutputWaits
  <1>6. WaitingInv'
    <2>1. SUFFICES ASSUME "restart" \notin disorder
                   PROVE  /\ transactionState' = "PARSING" => sent = 0 /\ currentOutput = <<>>
                          /\ Suffix(currentOutput, Hashed)
      BY <1>2, <1>3 DEF WaitingInv, Suffix
    <2>2. sent = 0 /\ currentOutput = <<>>
      BY <1>1, <2>1 DEF BufferInv, WaitingInv
    <2>3. Hashed \in Seq(Byte) /\ Len(Hashed) = 0
      BY <2>2, HashedGrows DEF BufferInv
    <2>4. Hashed = <<>>
      BY <2>3, EmptySeq
    <2>5. SubSeq(<<>>, 1, 0) = <<>> /\ Len(<<>>) = 0
      OBVIOUS
    <2>6. QED
      BY <2>2, <2>4, <2>5 DEF Suffix
  <1>7. ParsedInv'
    <2>1. ParsedInv /\ transactionState = "PARSING" /\ screen \notin LastScreens
      BY <1>1 DEF BufferInv, LastScreens
    <2>2. disorder = {} => sent = 0
      BY <2>1 DEF ParsedInv
    <2>3. Parsed(Memory, Hashed) => Parsed(Memory, Hashed)'
      BY <1>3 DEF Parsed
    <2>4. QED
      BY <1>2, <2>1, <2>2, <2>3 DEF ParsedInv
  <1>8. QED
    BY <1>4, <1>5, <1>6, <1>7 DEF BufferInv

\* HASH_INPUT_START, another block, where there was none before: out of order.
LEMMA StartWithNextStep ==
  ASSUME BufferInv, NEW s \in Streams, StartWithNext(s)
  PROVE  BufferInv'
  <1>1. /\ TypeOK /\ screen = "none" /\ screen' = "none" /\ stream' = s /\ sent' = 0
        /\ disorder' = disorder \cup {"restart"} /\ reviewed' = <<>>
        /\ UNCHANGED <<firstSigned, buffer, change>>
        /\ transactionState' \in {"NONE", "PARSING", "PRESIGN_READY"}
    BY DEF BufferInv, StartWithNext, Listening, InputsParse
  <1>2. TypeOK'
    <2>1. s \in Seq(Byte) /\ Len(s) \in Nat
      BY OutputBufferAssumption, LenProperties DEF OutputBufferAssumption
    <2>2. sent' \in 0..Len(stream')
      BY <1>1, <2>1
    <2>3. <<>> \in Seq(Seq(Byte))
      BY EmptySeq
    <2>4. QED
      BY <1>1, <2>2, <2>3 DEF TypeOK, buffer, change
  <1>3. "restart" \in disorder'
    BY <1>1
  <1>4. QED
    BY <1>1, <1>2, <1>3 DEF BufferInv, ScreenInv, ShownOutputWaits, WaitingInv, ParsedInv

\* Commands that fail drop the transaction.
LEMMA FailedStep ==
  ASSUME BufferInv, FinalizeOutOfState \/ ChangePathRefused \/ RejectTransaction
  PROVE  BufferInv'
  <1>1. /\ TypeOK /\ DiscardTransaction(Memory) /\ screen' = "none"
        /\ UNCHANGED <<firstSigned, stream, sent, change, disorder>>
    BY DEF BufferInv, FinalizeOutOfState, ChangePathRefused, RejectTransaction, Listening
  <1>2. Memory \in Memories /\ sent' \in 0..Len(stream)
    BY <1>1, MemoryType DEF TypeOK
  <1>3. QED
    BY <1>1, <1>2, DiscardType

\* CHANGEINFO: before the outputs it changes nothing of the parser; behind
\* some of them it is out of order.
LEMMA SetChangePathStep ==
  ASSUME BufferInv, NEW address \in Changes, NEW unusual \in BOOLEAN,
         SetChangePath(address, unusual)
  PROVE  BufferInv'
  <1> DEFINE m == IF unusual THEN [Memory EXCEPT !.state = "NUMBER_OUTPUTS"] ELSE Memory
  <1>1. /\ TypeOK /\ screen = "none" /\ screen' \in {"none", "change_path"}
        /\ transactionState = "PRESIGN_READY"
        /\ UNCHANGED <<transactionState, firstSigned, stream, sent, multipleOutput>>
        /\ changeAddress' = address /\ changeAccepted' \in BOOLEAN
        /\ disorder' = IF sent = 0 THEN disorder ELSE disorder \cup {"late_change"}
    BY DEF BufferInv, SetChangePath, Listening
  <1>2. /\ Memory \in Memories /\ Memory.bytes = currentOutput /\ Memory.reviewed = reviewed
        /\ Memory.state = parser.state
    BY <1>1, MemoryType
  <1>3. m \in Memories /\ m.bytes = Memory.bytes /\ m.reviewed = Memory.reviewed
        /\ m.state \in {Memory.state, "NUMBER_OUTPUTS"}
    <2>1. CASE unusual
      BY <1>2, <2>1 DEF Memories
    <2>2. CASE ~unusual
      BY <1>2, <2>2
    <2>3. QED
      BY <2>1, <2>2
  <1>4. Store(m)
    <2>1. CASE unusual
      BY <2>1 DEF SetChangePath
    <2>2. CASE ~unusual
      <3>1. Store(Memory)
        <4>1. currentOutput' = currentOutput /\ parser' = parser /\ reviewed' = reviewed
          BY <2>2 DEF SetChangePath, buffer
        <4>2. parser = [state |-> parser.state, remaining |-> parser.remaining,
                        changeOutputFound |-> parser.changeOutputFound,
                        discardSize |-> parser.discardSize]
          BY <1>1 DEF TypeOK, Parsers
        <4>3. QED
          BY <4>1, <4>2 DEF Store, Memory
      <3>2. QED
        BY <2>2, <3>1
    <2>3. QED
      BY <2>1, <2>2
  <1> HIDE DEF m
  <1>5. /\ Memory' = m /\ currentOutput' = currentOutput /\ reviewed' = reviewed
        /\ currentOutput' \in Seq(Byte) /\ reviewed' \in Seq(Seq(Byte)) /\ parser' \in Parsers
        /\ parser'.state = m.state
    BY <1>2, <1>3, <1>4, StoreIs
  <1>6. Hashed' = Hashed
    BY <1>1 DEF Hashed
  <1>7. TypeOK'
    BY <1>1, <1>5 DEF TypeOK
  <1>8. ScreenInv'
    BY <1>1 DEF ScreenInv, ShownOutputWaits
  <1>9. WaitingInv'
    <2>1. SUFFICES ASSUME "restart" \notin disorder' PROVE Suffix(currentOutput', Hashed')
      BY <1>1 DEF WaitingInv, Suffix
    <2>2. "restart" \notin disorder
      BY <1>1, <2>1
    <2>3. QED
      BY <1>1, <1>5, <1>6, <2>2 DEF BufferInv, WaitingInv
  <1>10. ParsedInv'
    <2>1. SUFFICES ASSUME disorder' = {} PROVE ParsedInv'
      BY DEF ParsedInv
    <2>2. sent = 0 /\ disorder = {}
      BY <1>1, <2>1
    <2>3. /\ currentOutput = <<>> /\ reviewed = <<>> /\ parser.state = "NUMBER_OUTPUTS"
          /\ Parsed(Memory, Hashed)
      BY <1>1, <2>2 DEF BufferInv, ParsedInv, LastScreens
    <2>4. m.state = "NUMBER_OUTPUTS"
      BY <1>2, <1>3, <2>3
    <2>5. Memory.bytes = Hashed
      BY <1>2, <2>3 DEF Parsed
    <2>6. Parsed(m, Hashed)
      BY <1>2, <1>3, <2>3, <2>4, <2>5 DEF Parsed
    <2>7. Parsed(Memory, Hashed)'
      BY <1>5, <1>6, <2>6 DEF Parsed
    <2>8. sent' = 0 /\ screen' \notin LastScreens /\ DOMAIN reviewed' = {}
      BY <1>1, <1>5, <2>2, <2>3 DEF LastScreens
    <2>9. parser'.state = "NUMBER_OUTPUTS"
      BY <1>5, <2>4
    <2>10. QED
      BY <1>1, <1>5, <2>3, <2>7, <2>8, <2>9 DEF ParsedInv
  <1>11. QED
    BY <1>7, <1>8, <1>9, <1>10 DEF BufferInv

\* The user's answer about an unusual change path.
LEMMA AnswerChangePathStep ==
  ASSUME BufferInv, NEW confirming \in BOOLEAN, AnswerChangePath(confirming)
  PROVE  BufferInv'
  <1>1. /\ TypeOK /\ screen = "change_path" /\ screen' = "none"
        /\ UNCHANGED <<firstSigned, stream, sent, currentOutput, reviewed, disorder>>
    BY DEF BufferInv, AnswerChangePath
  <1>2. CASE confirming
    <2>1. /\ changeAccepted' = TRUE
          /\ UNCHANGED <<transactionState, changeAddress, multipleOutput, parser>>
      BY <1>2 DEF AnswerChangePath
    <2>2. Memory' = Memory /\ Hashed' = Hashed
      BY <1>1, <2>1 DEF Memory, Hashed
    <2>3. TypeOK'
      BY <1>1, <2>1 DEF TypeOK
    <2>4. ScreenInv'
      BY <1>1 DEF ScreenInv, ShownOutputWaits
    <2>5. WaitingInv'
      BY <1>1, <2>1, <2>2 DEF BufferInv, WaitingInv, Suffix
    <2>6. ParsedInv'
      <3>1. screen \notin LastScreens /\ screen' \notin LastScreens
        BY <1>1 DEF LastScreens
      <3>2. Parsed(Memory, Hashed) => Parsed(Memory, Hashed)'
        BY <2>2 DEF Parsed
      <3>3. QED
        BY <1>1, <2>1, <3>1, <3>2 DEF BufferInv, ParsedInv
    <2>7. QED
      BY <2>3, <2>4, <2>5, <2>6 DEF BufferInv
  <1>3. CASE ~confirming
    <2>1. /\ changeAddress' = NoAddress /\ changeAccepted' = FALSE /\ multipleOutput' = FALSE
          /\ transactionState' = "NONE"
          /\ parser' = [parser EXCEPT !.state = "NUMBER_OUTPUTS"]
      BY <1>3 DEF AnswerChangePath
    <2>2. parser' \in Parsers
      BY <1>1, <2>1 DEF TypeOK, Parsers
    <2>3. TypeOK'
      BY <1>1, <2>1, <2>2 DEF TypeOK
    <2>4. QED
      BY <1>1, <2>1, <2>3, Dropped
  <1>4. QED
    BY <1>2, <1>3

\* The last answer: the outputs are done with.
LEMMA AcceptTransactionStep ==
  ASSUME BufferInv, AcceptTransaction
  PROVE  BufferInv'
  <1>1. /\ TypeOK /\ transactionState' = "SIGN_READY" /\ firstSigned' = FALSE
        /\ Store(Reset(Memory)) /\ screen' = "none"
        /\ UNCHANGED <<stream, sent, change, disorder>>
    BY DEF BufferInv, AcceptTransaction
  <1>2. Reset(Memory) \in Memories /\ Reset(Memory).bytes = <<>>
    BY <1>1, MemoryType, ResetIs
  <1>3. /\ currentOutput' = <<>> /\ currentOutput' \in Seq(Byte)
        /\ reviewed' \in Seq(Seq(Byte)) /\ parser' \in Parsers
    BY <1>1, <1>2, StoreIs
  <1>4. Len(currentOutput') <= BufferBytes
    BY <1>3, OutputBufferAssumption DEF OutputBufferAssumption
  <1>5. TypeOK'
    BY <1>1, <1>3, <1>4 DEF TypeOK, change
  <1>6. QED
    BY <1>1, <1>5, Dropped

\* HASH_SIGN drops the transaction.
LEMMA HashSignStep ==
  ASSUME BufferInv, HashSign
  PROVE  BufferInv'
  <1>1. /\ TypeOK /\ screen' = "none" /\ transactionState' = "NONE"
        /\ UNCHANGED <<firstSigned, stream, sent, buffer, change, screen, reviewed, disorder>>
    BY DEF BufferInv, HashSign, Listening
  <1>2. TypeOK'
    BY <1>1 DEF TypeOK, buffer, change
  <1>3. QED
    BY <1>1, <1>2, Dropped

\* The application is launched again.
LEMMA RamZeroedStep ==
  ASSUME TypeOK, RamZeroed, stream' = stream
  PROVE  BufferInv'
  <1>1. /\ transactionState' = "NONE" /\ firstSigned' = FALSE /\ currentOutput' = <<>>
        /\ parser' = [state |-> "NUMBER_OUTPUTS", remaining |-> 0,
                      changeOutputFound |-> FALSE, discardSize |-> 0]
        /\ changeAddress' = NoAddress /\ changeAccepted' = FALSE /\ multipleOutput' = FALSE
        /\ screen' = "none" /\ sent' = 0 /\ reviewed' = <<>> /\ disorder' = {}
    BY DEF RamZeroed
  <1>2. <<>> \in Seq(Byte) /\ <<>> \in Seq(Seq(Byte)) /\ Len(<<>>) = 0
    BY EmptySeq
  <1>3. parser' \in Parsers
    <2>1. FALSE \in BOOLEAN /\ 0 \in Int /\ 0 \in Nat
      OBVIOUS
    <2>2. QED
      BY <1>1, <2>1, Zenon DEF Parsers
  <1>4. sent' \in 0..Len(stream') /\ Len(currentOutput') <= BufferBytes
    BY <1>1, <1>2, OutputBufferAssumption, LenProperties DEF OutputBufferAssumption, TypeOK
  <1>5. TypeOK'
    BY <1>1, <1>2, <1>3, <1>4 DEF TypeOK
  <1>6. QED
    BY <1>1, <1>5, Dropped

-----------------------------------------------------------------------------
\* The blocks of outputs, and the answers to their screens.

\* The outputs reviewed, one by one or as a sequence of outputs.
LEMMA ReviewedType ==
  ASSUME NEW q \in Seq(Seq(Byte))
  PROVE  (\A i \in DOMAIN q : q[i] # <<>> /\ HeadBytes([bytes |-> q[i]]) = Len(q[i]))
           <=> q \in Seq(Outputs)
  <1>1. DOMAIN q = 1..Len(q) /\ Len(q) \in Nat /\ \A i \in 1..Len(q) : q[i] \in Seq(Byte)
    BY LenProperties, ElementOfSeq
  <1>2. ASSUME q \in Seq(Outputs)
        PROVE  \A i \in DOMAIN q : q[i] # <<>> /\ HeadBytes([bytes |-> q[i]]) = Len(q[i])
    <2>1. \A i \in 1..Len(q) : q[i] \in Outputs
      BY <1>2, ElementOfSeq
    <2>2. QED
      BY <1>1, <2>1 DEF Outputs
  <1>3. ASSUME \A i \in DOMAIN q : q[i] # <<>> /\ HeadBytes([bytes |-> q[i]]) = Len(q[i])
        PROVE  q \in Seq(Outputs)
    <2>1. \A i \in 1..Len(q) : q[i] \in Outputs
      BY <1>1, <1>3 DEF Outputs
    <2>2. q = [i \in 1..Len(q) |-> q[i]]
      BY <1>1, LenProperties
    <2>3. QED
      BY <1>1, <2>1, <2>2, IsASeq
  <1>4. QED
    BY <1>2, <1>3

\* A buffer that is stored during a review keeps the invariant, when it is in
\* its place in the bytes hashed.
LEMMA StoredInv ==
  ASSUME TypeOK, UNCHANGED <<firstSigned, stream, changeAddress, changeAccepted, disorder>>,
         transactionState' = "PRESIGN_READY", sent' \in 0..Len(stream),
         multipleOutput' \in BOOLEAN,
         NEW m \in Memories, Store(m), Len(m.bytes) <= BufferBytes,
         screen' \in {"none", "single_output"} \cup LastScreens,
         screen' = "single_output" =>
           m.state = "OUTPUT" /\ m.discardSize = HeadBytes(m) /\ m.discardSize # 0,
         "restart" \notin disorder => Suffix(m.bytes, Hashed'),
         disorder = {} =>
           /\ m.reviewed \in Seq(Outputs) /\ sent' # 0
           /\ sent' # Len(stream) => multipleOutput'
           /\ screen' \in LastScreens => Shown(m.reviewed, Hashed')
           /\ screen' \notin LastScreens => m.state = "OUTPUT" /\ Parsed(m, Hashed')
  PROVE  BufferInv'
  <1>1. /\ Memory' = m /\ currentOutput' = m.bytes /\ reviewed' = m.reviewed
        /\ parser'.state = m.state /\ parser'.discardSize = m.discardSize
        /\ currentOutput' \in Seq(Byte) /\ reviewed' \in Seq(Seq(Byte)) /\ parser' \in Parsers
    BY StoreIs
  <1>2. TypeOK'
    BY <1>1 DEF TypeOK, LastScreens
  <1>3. ScreenInv'
    <2>1. screen' = "single_output" => HeadBytes(Memory)' = HeadBytes(m)
      BY <1>1 DEF HeadBytes, NumberAt, NumberBytes, ScriptAt
    <2>2. QED
      BY <1>1, <2>1 DEF ScreenInv, ShownOutputWaits
  <1>4. WaitingInv'
    <2>1. SUFFICES ASSUME "restart" \notin disorder PROVE Suffix(currentOutput, Hashed)'
      BY DEF WaitingInv
    <2>2. Suffix(m.bytes, Hashed')
      BY <2>1
    <2>3. QED
      BY <1>1, <2>2 DEF Suffix
  <1>5. ParsedInv'
    <2>1. SUFFICES ASSUME disorder = {}, disorder' = {} PROVE ParsedInv'
      BY DEF ParsedInv
    <2>2. /\ m.reviewed \in Seq(Outputs) /\ sent' # 0
          /\ sent' # Len(stream') => multipleOutput'
      BY <2>1
    <2>3. screen' \in LastScreens => Shown(reviewed, Hashed)'
      BY <1>1, <2>1 DEF Shown
    <2>4. screen' \notin LastScreens => Parsed(Memory, Hashed)' /\ parser'.state = "OUTPUT"
      BY <1>1, <2>1 DEF Parsed
    <2>5. \A i \in DOMAIN reviewed' :
            reviewed'[i] # <<>> /\ HeadBytes([bytes |-> reviewed'[i]]) = Len(reviewed'[i])
      BY <1>1, <2>2, ReviewedType
    <2>6. (\A i \in DOMAIN reviewed :
             reviewed[i] # <<>> /\ HeadBytes([bytes |-> reviewed[i]]) = Len(reviewed[i]))'
      BY <2>5 DEF HeadBytes, NumberAt, NumberBytes, ScriptAt
    <2>7. QED
      BY <2>2, <2>3, <2>4, <2>6 DEF ParsedInv
  <1>6. QED
    BY <1>2, <1>3, <1>4, <1>5 DEF BufferInv

\* A block is added to the bytes hashed and to those of the buffer.
LEMMA BlockAdded ==
  ASSUME BufferInv, transactionState = "PRESIGN_READY", screen = "none",
         NEW n \in Nat \ {0}, sent + n <= Len(stream), sent + n >= NumberBytes(stream[1])
  PROVE  LET m == AddBlock(Memory, SubSeq(stream, sent + 1, sent + n))
             h == SubSeq(stream, 1, sent + n)
         IN  /\ m \in Memories /\ Len(m.bytes) = Len(Memory.bytes) + n
             /\ h \in Seq(Byte)
             /\ "restart" \notin disorder => Suffix(m.bytes, h)
             /\ disorder = {} =>
                  /\ Parsed(m, h) /\ m.reviewed \in Seq(Outputs)
                  /\ m.state = "OUTPUT" \/ NumberHere(m)
                  /\ sent = 0 => m.bytes = h
  <1> DEFINE block == SubSeq(stream, sent + 1, sent + n)
             m == AddBlock(Memory, block)
             h == SubSeq(stream, 1, sent + n)
  <1>1. /\ TypeOK /\ stream \in Seq(Byte) /\ Len(stream) \in Nat /\ sent \in Nat
        /\ currentOutput \in Seq(Byte) /\ reviewed \in Seq(Seq(Byte))
    BY OutputBufferAssumption, LenProperties DEF BufferInv, TypeOK, OutputBufferAssumption
  <1>2. /\ Memory \in Memories /\ Memory.bytes = currentOutput /\ Memory.reviewed = reviewed
        /\ Memory.state = parser.state /\ Memory.remaining = parser.remaining
    BY <1>1, MemoryType
  <1>3. /\ block \in Seq(Byte) /\ h = Hashed \o block /\ h \in Seq(Byte) /\ Len(h) = sent + n
        /\ Hashed \in Seq(Byte) /\ Len(Hashed) = sent
    BY <1>1, HashedGrows
  <1>4. Len(block) = n
    <2> HIDE DEF block, h
    <2>1. Len(Hashed \o block) = Len(Hashed) + Len(block) /\ Len(block) \in Nat
      BY <1>3, ConcatProperties, LenProperties
    <2>2. QED
      BY <1>1, <1>3, <2>1
  <1>5. h[1] = stream[1] /\ 1 \in 1..Len(h)
    <2>1. 1 \in 1..(sent + n) - 1 + 1 /\ 1 + 1 - 1 = 1
      BY <1>1
    <2>2. \A i \in 1..sent + n : stream[i] \in Byte
      BY <1>1, ElementOfSeq
    <2>3. \A i \in 1..(sent + n) - 1 + 1 : h[i] = stream[1 + i - 1]
      BY <1>1, <2>2, SubSeqProperties
    <2> HIDE DEF h
    <2>4. h[1] = stream[1 + 1 - 1]
      BY <2>1, <2>3, Zenon
    <2>5. 1 \in 1..Len(h)
      BY <1>1, <1>3
    <2>6. QED
      BY <2>1, <2>4, <2>5
  <1> HIDE DEF block, h
  <1>6. /\ currentOutput \o block \in Seq(Byte)
        /\ Len(currentOutput \o block) = Len(currentOutput) + n
    <2>1. currentOutput \in Seq(Byte) /\ block \in Seq(Byte)
      BY <1>1, <1>3
    <2>2. /\ currentOutput \o block \in Seq(Byte)
          /\ Len(currentOutput \o block) = Len(currentOutput) + Len(block)
      BY <2>1, ConcatProperties
    <2>3. QED
      BY <1>4, <2>2
  <1>7. /\ m \in Memories /\ m.bytes = currentOutput \o block /\ m.reviewed = reviewed
        /\ m.state = parser.state /\ m.remaining = parser.remaining
    BY <1>2, <1>6 DEF AddBlock, Memories
  <1> HIDE DEF m
  <1>8. "restart" \notin disorder => Suffix(m.bytes, h)
    <2>1. HAVE "restart" \notin disorder
    <2>2. Suffix(currentOutput, Hashed)
      BY <2>1 DEF BufferInv, WaitingInv
    <2>3. QED
      BY <1>1, <1>3, <1>7, <2>2, SuffixExtend
  <1>9. ASSUME disorder = {}
        PROVE  /\ Parsed(m, h) /\ m.reviewed \in Seq(Outputs)
               /\ m.state = "OUTPUT" \/ NumberHere(m)
               /\ sent = 0 => m.bytes = h
    <2>1. /\ Parsed(Memory, Hashed)
          /\ parser.state = "NUMBER_OUTPUTS" => sent = 0
          /\ sent = 0 => currentOutput = <<>>
          /\ \A i \in DOMAIN reviewed :
               reviewed[i] # <<>> /\ HeadBytes([bytes |-> reviewed[i]]) = Len(reviewed[i])
      BY <1>9 DEF BufferInv, ParsedInv, LastScreens
    <2>2. m.reviewed \in Seq(Outputs)
      BY <1>1, <1>7, <2>1, ReviewedType
    <2>3. sent = 0 => m.bytes = h
      <3>1. HAVE sent = 0
      <3>2. currentOutput = <<>> /\ Hashed = <<>>
        BY <1>3, <2>1, <3>1, EmptySeq
      <3>3. QED
        BY <1>3, <1>7, <3>2
    <2>4. Parsed(m, h)
      <3>1. CASE Memory.state = "NUMBER_OUTPUTS" /\ Memory.bytes = Hashed /\ Memory.reviewed = <<>>
        BY <1>2, <1>3, <1>7, <3>1 DEF Parsed
      <3>2. ASSUME Memory.state = "OUTPUT",
                   NEW f \in NumberForms(Memory.remaining + Len(Memory.reviewed)),
                   Hashed = (f \o FlattenSeq(Memory.reviewed)) \o Memory.bytes
            PROVE  Parsed(m, h)
        <4>1. f \in Seq(Byte) /\ FlattenSeq(reviewed) \in Seq(Byte)
          BY <1>1, <1>3, FlattenAppend DEF NumberForms
        <4> DEFINE p == f \o FlattenSeq(reviewed)
        <4>2. p \in Seq(Byte)
          BY <4>1, ConcatProperties
        <4>3. Hashed = p \o currentOutput
          BY <1>2, <3>2
        <4> HIDE DEF p
        <4>4. (p \o currentOutput) \o block = p \o (currentOutput \o block)
          BY <1>1, <1>3, <4>2, ConcatBytes
        <4>5. h = p \o m.bytes
          BY <1>3, <1>7, <4>3, <4>4
        <4>6. QED
          BY <1>2, <1>7, <3>2, <4>5 DEF Parsed, p
      <3>3. QED
        BY <2>1, <3>1, <3>2 DEF Parsed
    <2>5. m.state = "OUTPUT" \/ NumberHere(m)
      <3>1. CASE parser.state = "NUMBER_OUTPUTS"
        <4>1. sent = 0 /\ m.bytes = h
          BY <2>1, <2>3, <3>1
        <4>2. Len(m.bytes) >= 1 /\ Len(m.bytes) >= NumberBytes(m.bytes[1])
          BY <1>1, <1>3, <1>5, <4>1
        <4>3. QED
          BY <4>2 DEF NumberHere
      <3>2. CASE parser.state # "NUMBER_OUTPUTS"
        <4>1. Memory.state = "OUTPUT"
          BY <1>2, <2>1, <3>2 DEF Parsed
        <4>2. QED
          BY <1>2, <1>7, <4>1
      <3>3. QED
        BY <3>1, <3>2
    <2>6. QED
      BY <2>2, <2>3, <2>4, <2>5
  <1>10. QED
    BY <1>2, <1>3, <1>6, <1>7, <1>8, <1>9 DEF m, h, block

\* All that the number says is reviewed: it is a prefix of what was hashed.
LEMMA AllShown ==
  ASSUME NEW m \in Memories, NEW h \in Seq(Byte), Parsed(m, h), m.state = "OUTPUT",
         m.remaining = 0
  PROVE  Shown(m.reviewed, h)
  <1>1. m.bytes \in Seq(Byte) /\ m.reviewed \in Seq(Seq(Byte)) /\ Len(m.reviewed) \in Nat
    BY LenProperties DEF Memories
  <1>2. PICK f \in NumberForms(m.remaining + Len(m.reviewed)) :
          h = (f \o FlattenSeq(m.reviewed)) \o m.bytes
    BY DEF Parsed
  <1>3. m.remaining + Len(m.reviewed) = Len(m.reviewed)
    BY <1>1
  <1>4. f \in NumberForms(Len(m.reviewed))
    BY <1>2, <1>3
  <1>5. f \in Seq(Byte)
    BY <1>2 DEF NumberForms
  <1>6. <<>> \in Seq(Byte)
    BY EmptySeq
  <1>7. FlattenSeq(m.reviewed) \in Seq(Byte)
    BY <1>1, <1>6, FlattenAppend
  <1>8. f \o FlattenSeq(m.reviewed) \in Seq(Byte)
    BY <1>5, <1>7, ConcatProperties
  <1>9. IsPrefix(f \o FlattenSeq(m.reviewed), h)
    BY <1>1, <1>2, <1>8, PrefixOfConcat
  <1>10. QED
    BY <1>4, <1>9 DEF Shown

\* A block of outputs, where it has room.
LEMMA ReviewStep ==
  ASSUME BufferInv, transactionState = "PRESIGN_READY", screen = "none",
         UNCHANGED <<firstSigned, stream, changeAddress, changeAccepted, disorder>>,
         NEW n \in Nat \ {0}, sent + n <= Len(stream), sent + n >= NumberBytes(stream[1]),
         sent' = sent + n, Room(Memory, n),
         ReviewOutputs(sent + n = Len(stream),
                       AddBlock(Memory, SubSeq(stream, sent + 1, sent + n)))
  PROVE  BufferInv'
  <1> DEFINE m == AddBlock(Memory, SubSeq(stream, sent + 1, sent + n))
             h == SubSeq(stream, 1, sent + n)
             r == ParseOutputs(m)
             last == sent + n = Len(stream)
  <1>1. TypeOK /\ sent \in Nat /\ Len(stream) \in Nat /\ multipleOutput \in BOOLEAN
    BY OutputBufferAssumption, LenProperties DEF BufferInv, TypeOK, OutputBufferAssumption
  <1>2. /\ m \in Memories /\ Len(m.bytes) = Len(Memory.bytes) + n /\ h \in Seq(Byte)
        /\ "restart" \notin disorder => Suffix(m.bytes, h)
        /\ disorder = {} =>
             /\ Parsed(m, h) /\ m.reviewed \in Seq(Outputs)
             /\ m.state = "OUTPUT" \/ NumberHere(m)
             /\ sent = 0 => m.bytes = h
    BY BlockAdded
  <1>3. Keeps(m, r, h)
    BY <1>2, ParseKeeps
  <1>4. Hashed' = h /\ sent' \in 0..Len(stream) /\ sent' # 0
    BY <1>1 DEF Hashed
  <1>5. /\ disorder = {} => /\ sent = 0 => m.bytes = h
                            /\ sent # 0 /\ sent # Len(stream) => multipleOutput
        /\ Len(m.bytes) <= BufferBytes
    BY <1>2 DEF BufferInv, ParsedInv, Room
  <1>6. ReviewOutputs(last, m)
    OBVIOUS
  <1>7. last \in BOOLEAN /\ (last <=> sent' = Len(stream))
    OBVIOUS
  <1> HIDE DEF m, h, r, last
  <1>8. /\ r.m \in Memories /\ Len(r.m.bytes) <= BufferBytes
        /\ "restart" \notin disorder => Suffix(r.m.bytes, h)
    <2>1. r.m \in Memories /\ Len(r.m.bytes) <= Len(m.bytes)
      BY <1>3 DEF Keeps
    <2>2. Len(r.m.bytes) \in Nat /\ Len(m.bytes) \in Nat /\ BufferBytes \in Nat
      BY <1>2, <2>1, LenProperties, OutputBufferAssumption DEF Memories, OutputBufferAssumption
    <2>3. Len(r.m.bytes) <= BufferBytes
      BY <1>5, <2>1, <2>2
    <2>4. QED
      BY <1>2, <1>3, <2>1, <2>3 DEF Keeps
  <1>9. r.name # "throw" /\ disorder = {} =>
          Parsed(r.m, h) /\ r.m.reviewed \in Seq(Outputs) /\ r.m.state = "OUTPUT"
    BY <1>2, <1>3 DEF Keeps
  <1>10. CASE last /\ ~multipleOutput /\ FullOutputReviewable(m) /\ Store(FullOutput(m))
              /\ screen' = "full_output" /\ UNCHANGED <<transactionState, multipleOutput>>
    <2> DEFINE outputs == [i \in 1..m.bytes[1] |-> OutputOf(m, i)]
               e == FullOutput(m)
    <2>1. m.bytes \in Seq(Byte)
      BY <1>2 DEF Memories
    <2>2. outputs \in Seq(Outputs) /\ Shown(outputs, m.bytes)
      BY <1>10, <2>1, FullOutputShows
    <2>3. outputs \in Seq(Seq(Byte))
      <3>1. Outputs \subseteq Seq(Byte)
        BY DEF Outputs
      <3>2. QED
        BY <2>2, <3>1, SeqMonotonic
    <2>4. e \in Memories /\ e.bytes = m.bytes /\ e.reviewed = outputs
      BY <1>2, <2>3, FullOutputIs
    <2> HIDE DEF outputs, e
    <2>6. ASSUME disorder = {}
          PROVE  m.bytes = h
      BY <1>1, <1>5, <1>10, <2>6 DEF last
    <2>7. screen' \in LastScreens /\ screen' # "single_output"
      BY <1>10 DEF LastScreens
    <2>8. Store(e) /\ transactionState' = "PRESIGN_READY" /\ multipleOutput' \in BOOLEAN
      BY <1>1, <1>10 DEF e
    <2>9. "restart" \notin disorder => Suffix(e.bytes, Hashed')
      BY <1>2, <1>4, <2>4
    <2>10. disorder = {} =>
            /\ e.reviewed \in Seq(Outputs) /\ sent' # 0
            /\ sent' # Len(stream) => multipleOutput'
            /\ screen' \in LastScreens => Shown(e.reviewed, Hashed')
      BY <1>4, <1>7, <1>10, <2>2, <2>4, <2>6
    <2>11. QED
      BY <1>1, <1>4, <1>5, <2>4, <2>7, <2>8, <2>9, <2>10, StoredInv
  <1>11. CASE r.name = "throw" /\ DiscardTransaction(r.m) /\ UNCHANGED <<screen, multipleOutput>>
    BY <1>1, <1>4, <1>8, <1>11, DiscardType DEF change
  <1>12. CASE r.name = "display" /\ Store(r.m) /\ screen' = "single_output"
              /\ multipleOutput' = (multipleOutput \/ ~last) /\ UNCHANGED transactionState
    <2>1. /\ r.m.state = "OUTPUT" /\ r.m.discardSize = HeadBytes(r.m) /\ r.m.discardSize # 0
      BY <1>3, <1>12 DEF Keeps
    <2>2. multipleOutput' \in BOOLEAN /\ (sent' # Len(stream) => multipleOutput')
      BY <1>1, <1>7, <1>12
    <2>3. screen' \in {"none", "single_output"} \cup LastScreens /\ screen' \notin LastScreens
      BY <1>12 DEF LastScreens
    <2>4. disorder = {} => Parsed(r.m, Hashed') /\ r.m.reviewed \in Seq(Outputs)
      BY <1>4, <1>9, <1>12
    <2>5. QED
      BY <1>1, <1>4, <1>8, <1>12, <2>1, <2>2, <2>3, <2>4, StoredInv
  <1>13. CASE r.name = "wait" /\ r.m.remaining # 0 /\ Store(r.m)
              /\ multipleOutput' = (multipleOutput \/ ~last)
              /\ UNCHANGED <<transactionState, screen>>
    <2>1. multipleOutput' \in BOOLEAN /\ (sent' # Len(stream) => multipleOutput')
      BY <1>1, <1>7, <1>13
    <2>2. screen' \in {"none", "single_output"} \cup LastScreens /\ screen' \notin LastScreens
          /\ screen' # "single_output"
      BY <1>13 DEF LastScreens
    <2>3. disorder = {} =>
            Parsed(r.m, Hashed') /\ r.m.reviewed \in Seq(Outputs) /\ r.m.state = "OUTPUT"
      BY <1>4, <1>9, <1>13
    <2>4. QED
      BY <1>1, <1>4, <1>8, <1>13, <2>1, <2>2, <2>3, StoredInv
  <1>14. CASE r.name = "wait" /\ r.m.remaining = 0 /\ Finalize(r.m)
              /\ multipleOutput' = (multipleOutput \/ ~last)
    <2> DEFINE e == [r.m EXCEPT !.state = "FINALIZE_TX"]
    <2>1. /\ e \in Memories /\ e.bytes = r.m.bytes /\ e.reviewed = r.m.reviewed
      BY <1>8, StateSet
    <2>2. /\ Store(e)
          /\ \/ screen' = "finalize" /\ UNCHANGED transactionState
             \/ transactionState' = "NONE" /\ UNCHANGED screen
      BY <1>14 DEF Finalize
    <2>3. multipleOutput' \in BOOLEAN /\ (sent' # Len(stream) => multipleOutput')
      BY <1>1, <1>7, <1>14
    <2> HIDE DEF e
    <2>4. CASE screen' = "finalize" /\ UNCHANGED transactionState
      <3>1. disorder = {} => Shown(e.reviewed, Hashed') /\ e.reviewed \in Seq(Outputs)
        BY <1>2, <1>4, <1>8, <1>9, <1>14, <2>1, AllShown
      <3>2. screen' \in LastScreens /\ screen' # "single_output"
        BY <2>4 DEF LastScreens
      <3>3. Len(e.bytes) <= BufferBytes /\ ("restart" \notin disorder => Suffix(e.bytes, Hashed'))
        BY <1>4, <1>8, <2>1
      <3>4. QED
        BY <1>1, <1>4, <2>1, <2>2, <2>3, <2>4, <3>1, <3>2, <3>3, StoredInv
    <2>5. CASE transactionState' = "NONE" /\ UNCHANGED screen
      <3>1. /\ currentOutput' = e.bytes /\ currentOutput' \in Seq(Byte)
            /\ reviewed' \in Seq(Seq(Byte)) /\ parser' \in Parsers
        BY <2>1, <2>2, StoreIs
      <3>2. Len(currentOutput') <= BufferBytes
        BY <1>8, <2>1, <3>1
      <3>3. TypeOK'
        BY <1>1, <1>4, <2>3, <2>5, <3>1, <3>2 DEF TypeOK
      <3>4. QED
        BY <2>5, <3>3, Dropped
    <2>6. QED
      BY <2>2, <2>4, <2>5
  <1>15. QED
    BY <1>6, <1>10, <1>11, <1>12, <1>13, <1>14 DEF ReviewOutputs, r

\* HASH_INPUT_FINALIZE_FULL.
LEMMA SendOutputsStep ==
  ASSUME BufferInv, NEW n \in 1..BufferBytes + 1, SendOutputs(n)
  PROVE  BufferInv'
  <1>1. /\ transactionState = "PRESIGN_READY" /\ screen = "none"
        /\ UNCHANGED <<firstSigned, stream, changeAddress, changeAccepted, disorder>>
        /\ sent + n <= Len(stream) /\ sent + n >= NumberBytes(stream[1]) /\ sent' = sent + n
        /\ TypeOK
    BY DEF SendOutputs, Listening, BufferInv
  <1>2. n \in Nat \ {0}
    BY OutputBufferAssumption DEF OutputBufferAssumption
  <1>3. CASE Room(Memory, n)
    <2>1. ReviewOutputs(sent + n = Len(stream),
                        AddBlock(Memory, SubSeq(stream, sent + 1, sent + n)))
      BY <1>3 DEF SendOutputs
    <2>2. QED
      BY <1>1, <1>2, <1>3, <2>1, ReviewStep
  <1>4. CASE ~Room(Memory, n)
    <2>1. DiscardTransaction(Memory) /\ UNCHANGED <<screen, multipleOutput>>
      BY <1>4 DEF SendOutputs
    <2>2. Memory \in Memories
      BY <1>1, MemoryType
    <2>3. sent' \in 0..Len(stream)
      <3>1. Len(stream) \in Nat /\ sent \in Nat
        BY <1>1, OutputBufferAssumption, LenProperties DEF TypeOK, OutputBufferAssumption
      <3>2. QED
        BY <1>1, <1>2, <3>1
    <2>4. QED
      BY <1>1, <2>1, <2>2, <2>3, DiscardType DEF change
  <1>5. QED
    BY <1>3, <1>4

\* The output just accepted is reviewed, and dropped if more are to come.
LEMMA AcceptOutputStep ==
  ASSUME BufferInv, AcceptOutput
  PROVE  BufferInv'
  <1> DEFINE a == Accepted
             d == Discard(a, a.discardSize)
             r == IF a.remaining = 0 THEN Outcome("wait", a) ELSE ParseOutputs(d)
             n == HeadBytes(Memory)
             more == Append(reviewed, SubSeq(currentOutput, 1, n))
             rest == SubSeq(currentOutput, n + 1, Len(currentOutput))
  <1>1. /\ TypeOK /\ screen = "single_output" /\ stream' = stream
        /\ transactionState = "PRESIGN_READY" /\ parser.state = "OUTPUT"
        /\ parser.discardSize = n /\ n # 0
    BY DEF BufferInv, ScreenInv, ShownOutputWaits, AcceptOutput
  <1>2. /\ Memory \in Memories /\ Memory.bytes = currentOutput /\ Memory.reviewed = reviewed
        /\ Memory.state = "OUTPUT" /\ Memory.remaining = parser.remaining
        /\ Memory.discardSize = n
        /\ currentOutput \in Seq(Byte) /\ reviewed \in Seq(Seq(Byte)) /\ parser.remaining \in Int
    BY <1>1, MemoryType DEF TypeOK, Parsers
  <1>3. Hashed \in Seq(Byte)
    BY <1>1, HashedGrows
  <1>4. n \in 0..Len(currentOutput)
    BY <1>2, HeadFacts
  <1>5. /\ SubSeq(currentOutput, 1, n) \in Seq(Byte) /\ more \in Seq(Seq(Byte))
        /\ rest \in Seq(Byte) /\ Len(rest) <= Len(currentOutput)
    <2> HIDE DEF n
    <2>1. SubSeq(currentOutput, 1, n) \in Seq(Byte) /\ rest \in Seq(Byte)
          /\ Len(rest) = Len(currentOutput) - n
      BY <1>2, <1>4, SplitAt
    <2>2. more \in Seq(Seq(Byte))
      BY <1>2, <2>1, AppendProperties
    <2>3. Len(currentOutput) \in Nat
      BY <1>2, LenProperties
    <2>4. QED
      BY <1>4, <2>1, <2>2, <2>3
  <1>6. /\ a \in Memories /\ a.bytes = currentOutput /\ a.reviewed = more
        /\ a.state = "OUTPUT" /\ a.remaining = parser.remaining - 1 /\ a.discardSize = n
    <2> DEFINE seen == [Memory EXCEPT !.reviewed = more]
    <2>1. a = [seen EXCEPT !.remaining = @ - 1]
      BY <1>1, <1>2 DEF Accepted, Seen
    <2> HIDE DEF a, more, n
    <2>2. /\ seen \in Memories /\ seen.bytes = currentOutput /\ seen.reviewed = more
          /\ seen.state = "OUTPUT" /\ seen.remaining = parser.remaining /\ seen.discardSize = n
      BY <1>2, <1>5 DEF Memories
    <2> HIDE DEF seen
    <2>3. a.remaining = parser.remaining - 1 /\ parser.remaining - 1 \in Int
      BY <1>2, <2>1, <2>2 DEF Memories
    <2>4. QED
      BY <2>1, <2>2, <2>3 DEF Memories
  <1>7. /\ d \in Memories /\ d.bytes = rest /\ d.reviewed = more
        /\ d.state = "OUTPUT" /\ d.remaining = parser.remaining - 1
    <2>1. d = [a EXCEPT !.bytes = rest]
      BY <1>6 DEF Discard
    <2> HIDE DEF a, d, more, rest, n
    <2>2. QED
      BY <1>5, <1>6, <2>1 DEF Memories
  <1>8. "restart" \notin disorder => Suffix(currentOutput, Hashed) /\ Suffix(rest, Hashed)
    <2>1. HAVE "restart" \notin disorder
    <2>2. Suffix(currentOutput, Hashed)
      BY <1>1, <2>1 DEF BufferInv, WaitingInv
    <2> HIDE DEF n
    <2>3. QED
      BY <1>2, <1>3, <1>4, <2>2, SuffixDrop
  <1>9. ASSUME disorder = {}
        PROVE  /\ more \in Seq(Outputs) /\ sent # 0
               /\ sent # Len(stream) => multipleOutput
               /\ Parsed(d, Hashed)
               /\ \E f \in NumberForms((parser.remaining - 1) + Len(more)) :
                    Hashed = (f \o FlattenSeq(more)) \o rest
    <2>1. /\ Parsed(Memory, Hashed) /\ sent # 0 /\ (sent # Len(stream) => multipleOutput)
          /\ \A i \in DOMAIN reviewed :
               reviewed[i] # <<>> /\ HeadBytes([bytes |-> reviewed[i]]) = Len(reviewed[i])
      BY <1>1, <1>9 DEF BufferInv, ParsedInv, LastScreens
    <2>2. reviewed \in Seq(Outputs)
      BY <1>2, <2>1, ReviewedType
    <2>3. /\ more \in Seq(Outputs)
          /\ \E f \in NumberForms((parser.remaining - 1) + Len(more)) :
               Hashed = (f \o FlattenSeq(more)) \o rest
      BY <1>1, <1>2, <1>3, <2>1, <2>2, OutputMoves
    <2> HIDE DEF d, more, rest, n
    <2>4. Parsed(d, Hashed)
      BY <1>7, <2>3 DEF Parsed
    <2>5. QED
      BY <2>1, <2>3, <2>4
  <1>10. BufferBytes \in Nat /\ Len(currentOutput) <= BufferBytes /\ Len(currentOutput) \in Nat
         /\ Len(rest) \in Nat /\ sent \in 0..Len(stream) /\ multipleOutput \in BOOLEAN
    BY <1>1, <1>2, <1>5, OutputBufferAssumption, LenProperties DEF TypeOK, OutputBufferAssumption
  <1> HIDE DEF d, more, rest, n
  <1>11. /\ r.m \in Memories /\ Len(r.m.bytes) <= BufferBytes
         /\ "restart" \notin disorder => Suffix(r.m.bytes, Hashed)
         /\ r.name = "display" =>
              r.m.state = "OUTPUT" /\ r.m.discardSize = HeadBytes(r.m) /\ r.m.discardSize # 0
         /\ disorder = {} /\ r.name # "throw" =>
              /\ r.m.reviewed \in Seq(Outputs)
              /\ r.m.remaining = 0 => Shown(r.m.reviewed, Hashed)
              /\ r.m.remaining # 0 => r.m.state = "OUTPUT" /\ Parsed(r.m, Hashed)
         /\ r.name = "display" /\ disorder = {} => Parsed(r.m, Hashed)
    <2>1. CASE a.remaining = 0
      <3>1. r.name = "wait" /\ r.m = a
        BY <2>1 DEF Outcome
      <3>2. disorder = {} => Shown(more, Hashed)
        <4>1. HAVE disorder = {}
        <4>2. PICK f \in NumberForms((parser.remaining - 1) + Len(more)) :
                Hashed = (f \o FlattenSeq(more)) \o rest
          BY <1>9, <4>1
        <4>3. (parser.remaining - 1) + Len(more) = Len(more)
          <5>1. parser.remaining - 1 = 0 /\ Len(more) \in Nat
            BY <1>5, <1>6, <2>1, LenProperties
          <5>2. QED
            BY <5>1
        <4>4. f \in NumberForms(Len(more)) /\ f \in Seq(Byte)
          BY <4>2, <4>3 DEF NumberForms
        <4>5. <<>> \in Seq(Byte)
          BY EmptySeq
        <4>6. f \o FlattenSeq(more) \in Seq(Byte)
          BY <1>5, <4>4, <4>5, FlattenAppend, ConcatProperties
        <4>7. IsPrefix(f \o FlattenSeq(more), Hashed)
          BY <1>5, <4>2, <4>6, PrefixOfConcat
        <4>8. QED
          BY <4>4, <4>7 DEF Shown
      <3> HIDE DEF a, r
      <3>3. QED
        BY <1>6, <1>8, <1>9, <1>10, <2>1, <3>1, <3>2
    <2>2. CASE a.remaining # 0
      <3>1. r = ParseOutputs(d)
        BY <2>2
      <3>2. Keeps(d, r, Hashed)
        BY <1>3, <1>7, <3>1, ParseKeeps
      <3> HIDE DEF r, a
      <3>3. r.m \in Memories /\ Len(r.m.bytes) <= Len(rest) /\ Len(r.m.bytes) \in Nat
        BY <1>7, <3>2, LenProperties DEF Keeps, Memories
      <3>4. Len(r.m.bytes) <= BufferBytes
        BY <1>5, <1>10, <3>3
      <3>5. "restart" \notin disorder => Suffix(r.m.bytes, Hashed)
        BY <1>7, <1>8, <3>2 DEF Keeps
      <3>6. disorder = {} /\ r.name # "throw" =>
              r.m.reviewed \in Seq(Outputs) /\ Parsed(r.m, Hashed) /\ r.m.state = "OUTPUT"
        BY <1>7, <1>9, <3>2 DEF Keeps
      <3>7. disorder = {} /\ r.name # "throw" /\ r.m.remaining = 0 => Shown(r.m.reviewed, Hashed)
        BY <1>3, <3>3, <3>6, AllShown
      <3>8. r.name = "display" =>
              r.m.state = "OUTPUT" /\ r.m.discardSize = HeadBytes(r.m) /\ r.m.discardSize # 0
        BY <3>2 DEF Keeps
      <3>9. QED
        BY <3>3, <3>4, <3>5, <3>6, <3>7, <3>8
    <2>3. QED
      BY <2>1, <2>2
  <1> HIDE DEF a
  <1>12. \/ r.name = "throw" /\ RamZeroed
         \/ /\ r.name = "display" /\ Store(r.m)
            /\ UNCHANGED <<transactionState, firstSigned, sent, change, screen, disorder>>
         \/ /\ r.name = "wait" /\ r.m.remaining # 0 /\ Store(r.m) /\ screen' = "none"
            /\ UNCHANGED <<transactionState, firstSigned, sent, change, disorder>>
         \/ /\ r.name = "wait" /\ r.m.remaining = 0
            /\ \/ Store([r.m EXCEPT !.state = "FINALIZE_TX"])
                  /\ screen' = "finalize" /\ UNCHANGED transactionState
               \/ DiscardTransaction(r.m) /\ screen' = "none"
            /\ UNCHANGED <<firstSigned, sent, change, disorder>>
    BY DEF AcceptOutput, a, d
  <1> HIDE DEF r
  <1>13. CASE r.name = "throw" /\ RamZeroed
    BY <1>1, <1>13, RamZeroedStep
  <1>14. CASE /\ r.name = "display" /\ Store(r.m)
              /\ UNCHANGED <<transactionState, firstSigned, sent, change, screen, disorder>>
    <2>1. Hashed' = Hashed /\ screen' = "single_output" /\ screen' \notin LastScreens
      BY <1>1, <1>14 DEF Hashed, LastScreens
    <2>2. disorder = {} => r.m.state = "OUTPUT" /\ Parsed(r.m, Hashed') /\ r.m.reviewed \in Seq(Outputs)
      BY <1>11, <1>14, <2>1
    <2>3. QED
      BY <1>1, <1>9, <1>10, <1>11, <1>14, <2>1, <2>2, StoredInv DEF change
  <1>15. CASE /\ r.name = "wait" /\ r.m.remaining # 0 /\ Store(r.m) /\ screen' = "none"
              /\ UNCHANGED <<transactionState, firstSigned, sent, change, disorder>>
    <2>1. Hashed' = Hashed /\ screen' # "single_output" /\ screen' \notin LastScreens
      BY <1>1, <1>15 DEF Hashed, LastScreens
    <2>2. disorder = {} => r.m.state = "OUTPUT" /\ Parsed(r.m, Hashed') /\ r.m.reviewed \in Seq(Outputs)
      BY <1>11, <1>15, <2>1
    <2>3. QED
      BY <1>1, <1>9, <1>10, <1>11, <1>15, <2>1, <2>2, StoredInv DEF change
  <1>16. CASE /\ r.name = "wait" /\ r.m.remaining = 0
              /\ Store([r.m EXCEPT !.state = "FINALIZE_TX"])
              /\ screen' = "finalize" /\ UNCHANGED transactionState
              /\ UNCHANGED <<firstSigned, sent, change, disorder>>
    <2> DEFINE e == [r.m EXCEPT !.state = "FINALIZE_TX"]
    <2>1. e \in Memories /\ e.bytes = r.m.bytes /\ e.reviewed = r.m.reviewed /\ Store(e)
      BY <1>11, <1>16, StateSet
    <2> HIDE DEF e
    <2>2. Hashed' = Hashed /\ screen' # "single_output" /\ screen' \in LastScreens
      BY <1>1, <1>16 DEF Hashed, LastScreens
    <2>3. disorder = {} => Shown(e.reviewed, Hashed') /\ e.reviewed \in Seq(Outputs)
      BY <1>11, <1>16, <2>1, <2>2
    <2>4. Len(e.bytes) <= BufferBytes /\ ("restart" \notin disorder => Suffix(e.bytes, Hashed'))
      BY <1>11, <2>1, <2>2
    <2>5. QED
      BY <1>1, <1>9, <1>10, <1>16, <2>1, <2>2, <2>3, <2>4, StoredInv DEF change
  <1>17. CASE /\ r.name = "wait" /\ r.m.remaining = 0
              /\ DiscardTransaction(r.m) /\ screen' = "none"
              /\ UNCHANGED <<firstSigned, sent, change, disorder>>
    BY <1>1, <1>10, <1>11, <1>17, DiscardType
  <1>18. QED
    BY <1>12, <1>13, <1>14, <1>15, <1>16, <1>17

-----------------------------------------------------------------------------
\* The invariant holds.

\* At power-up.
LEMMA InitBuffer ==
  ASSUME Init
  PROVE  BufferInv
  <1>1. /\ transactionState = "NONE" /\ firstSigned = FALSE /\ currentOutput = <<>>
        /\ parser = [state |-> "NUMBER_OUTPUTS", remaining |-> 0,
                     changeOutputFound |-> FALSE, discardSize |-> 0]
        /\ changeAddress = NoAddress /\ changeAccepted = FALSE /\ multipleOutput = FALSE
        /\ screen = "none" /\ stream \in Streams /\ sent = 0 /\ reviewed = <<>> /\ disorder = {}
    BY DEF Init
  <1>2. <<>> \in Seq(Byte) /\ <<>> \in Seq(Seq(Byte)) /\ Len(<<>>) = 0
    BY EmptySeq
  <1>3. parser \in Parsers
    <2>1. FALSE \in BOOLEAN /\ 0 \in Int /\ 0 \in Nat
      OBVIOUS
    <2>2. QED
      BY <1>1, <2>1, Zenon DEF Parsers
  <1>4. sent \in 0..Len(stream) /\ Len(currentOutput) <= BufferBytes
    BY <1>1, <1>2, OutputBufferAssumption, LenProperties DEF OutputBufferAssumption
  <1>5. TypeOK
    BY <1>1, <1>2, <1>3, <1>4 DEF TypeOK
  <1>6. QED
    BY <1>1, <1>5 DEF BufferInv, ScreenInv, ShownOutputWaits, WaitingInv, ParsedInv

\* And every step keeps it.
LEMMA NextBuffer ==
  ASSUME BufferInv, [Next]_vars
  PROVE  BufferInv'
  <1>1. ASSUME NEW s \in Streams, NEW new \in BOOLEAN, StartFirst(new, s) PROVE BufferInv'
    BY <1>1, StartFirstStep
  <1>2. ASSUME NEW s \in Streams, StartWithNext(s) PROVE BufferInv'
    BY <1>2, StartWithNextStep
  <1>3. CASE StartNext
    BY <1>3, StartNextStep
  <1>4. CASE FinalizeOutOfState \/ ChangePathRefused \/ RejectTransaction
    BY <1>4, FailedStep
  <1>5. ASSUME NEW address \in Changes, NEW unusual \in BOOLEAN, SetChangePath(address, unusual)
        PROVE  BufferInv'
    BY <1>5, SetChangePathStep
  <1>6. ASSUME NEW n \in 1..BufferBytes + 1, SendOutputs(n) PROVE BufferInv'
    BY <1>6, SendOutputsStep
  <1>7. ASSUME NEW confirming \in BOOLEAN, AnswerChangePath(confirming) PROVE BufferInv'
    BY <1>7, AnswerChangePathStep
  <1>8. CASE AcceptOutput
    BY <1>8, AcceptOutputStep
  <1>9. CASE AcceptTransaction
    BY <1>9, AcceptTransactionStep
  <1>10. CASE HashSign
    BY <1>10, HashSignStep
  <1>11. CASE IoReset
    BY <1>11, RamZeroedStep DEF IoReset, BufferInv
  <1>12. CASE UNCHANGED vars
    <2>1. /\ currentOutput' = currentOutput /\ parser' = parser /\ reviewed' = reviewed
          /\ stream' = stream /\ sent' = sent /\ screen' = screen /\ disorder' = disorder
          /\ changeAddress' = changeAddress /\ changeAccepted' = changeAccepted
          /\ multipleOutput' = multipleOutput /\ firstSigned' = firstSigned
          /\ transactionState' = transactionState
      BY <1>12 DEF vars, buffer, change
    <2>2. Memory' = Memory /\ Hashed' = Hashed
      BY <2>1 DEF Memory, Hashed
    <2>3. TypeOK'
      BY <2>1 DEF BufferInv, TypeOK
    <2>4. ScreenInv'
      BY <2>1, <2>2 DEF BufferInv, ScreenInv, ShownOutputWaits, HeadBytes, NumberAt
    <2>5. WaitingInv'
      BY <2>1, <2>2 DEF BufferInv, WaitingInv, Suffix
    <2>6. ParsedInv'
      <3>1. Parsed(Memory, Hashed) => Parsed(Memory, Hashed)'
        BY <2>2 DEF Parsed
      <3>2. Shown(reviewed, Hashed) => Shown(reviewed, Hashed)'
        BY <2>1, <2>2 DEF Shown
      <3>3. QED
        BY <2>1, <3>1, <3>2 DEF BufferInv, ParsedInv
    <2>7. QED
      BY <2>3, <2>4, <2>5, <2>6 DEF BufferInv
  <1>13. QED
    BY <1>1, <1>2, <1>3, <1>4, <1>5, <1>6, <1>7, <1>8, <1>9, <1>10, <1>11, <1>12 DEF Next

\* Whatever the host sends and the user answers, the parser stays in its place
\* in the bytes hashed.
THEOREM BufferInvariance == Spec => []BufferInv
  <1>1. Init => BufferInv
    BY InitBuffer
  <1>2. BufferInv /\ [Next]_vars => BufferInv'
    BY NextBuffer
  <1>3. QED
    BY <1>1, <1>2, PTL DEF Spec

\* The variables keep their types: currentOutput never holds more than its size.
THEOREM BufferTypes == Spec => []TypeOK
  <1>1. BufferInv => TypeOK
    BY DEF BufferInv
  <1>2. QED
    BY <1>1, BufferInvariance, PTL

\* An output on a screen of its own is whole at the head of the buffer.
THEOREM OutputsWait == Spec => []ShownOutputWaits
  <1>1. BufferInv => ShownOutputWaits
    BY DEF BufferInv, ScreenInv
  <1>2. QED
    BY <1>1, BufferInvariance, PTL

\* While outputs are awaited, the bytes in the buffer are the last ones hashed.
THEOREM BytesWait == Spec => []WaitingBytesHashed
  <1>1. BufferInv => WaitingBytesHashed
    <2>1. SUFFICES ASSUME BufferInv, transactionState = "PRESIGN_READY", "restart" \notin disorder
                   PROVE  IsSuffix(currentOutput, Hashed)
      BY DEF WaitingBytesHashed
    <2>2. Suffix(currentOutput, Hashed)
      BY <2>1 DEF BufferInv, WaitingInv
    <2>3. Hashed \in Seq(Byte) /\ currentOutput \in Seq(Byte)
      BY <2>1, HashedGrows DEF BufferInv, TypeOK
    <2>4. QED
      BY <2>2, <2>3, SuffixIs
  <1>2. QED
    BY <1>1, BufferInvariance, PTL

\* What the last screen of a review closes are outputs, and the first bytes the
\* hashes absorbed: for any bytes a host sends as its outputs.
ReviewBeginsHash ==
  disorder = {} /\ screen \in LastScreens =>
    reviewed \in Seq(Outputs) /\ Shown(reviewed, Hashed)

THEOREM ReviewIsFirstHashed == Spec => []ReviewBeginsHash
  <1>1. BufferInv => ReviewBeginsHash
    <2>1. SUFFICES ASSUME BufferInv, disorder = {}, screen \in LastScreens
                   PROVE  reviewed \in Seq(Outputs) /\ Shown(reviewed, Hashed)
      BY DEF ReviewBeginsHash
    <2>2. screen # "none"
      BY <2>1 DEF LastScreens
    <2>3. transactionState = "PRESIGN_READY"
      BY <2>1, <2>2 DEF BufferInv, ScreenInv
    <2>4. /\ Shown(reviewed, Hashed)
          /\ \A i \in DOMAIN reviewed :
               reviewed[i] # <<>> /\ HeadBytes([bytes |-> reviewed[i]]) = Len(reviewed[i])
      BY <2>1, <2>3 DEF BufferInv, ParsedInv
    <2>5. reviewed \in Seq(Seq(Byte))
      BY <2>1 DEF BufferInv, TypeOK
    <2>6. QED
      BY <2>4, <2>5, ReviewedType
  <1>2. QED
    BY <1>1, BufferInvariance, PTL

-----------------------------------------------------------------------------
\* Outputs are read in one way only.

\* A sequence begins another, element by element.
Begins(p, w) == Len(p) <= Len(w) /\ \A i \in 1..Len(p) : p[i] = w[i]

\* That is what a prefix does.
LEMMA PrefixBegins ==
  ASSUME NEW B, NEW p \in Seq(B), NEW w \in Seq(B), IsPrefix(p, w)
  PROVE  Begins(p, w)
  <1>1. Len(p) \in Nat /\ Len(w) \in Nat /\ Len(p) <= Len(w)
    BY LenProperties DEF IsPrefix
  <1>2. SubSeq(p, 1, Len(p)) = SubSeq(w, 1, Len(p))
    BY DEF IsPrefix
  <1>3. \A i \in 1..Len(p) : SubSeq(p, 1, Len(p))[i] = p[i]
    BY SubSeqFull
  <1>4. \A i \in 1..Len(p) : SubSeq(w, 1, Len(p))[i] = w[i]
    <2>1. \A i \in 1..Len(p) : w[i] \in B
      BY <1>1, ElementOfSeq
    <2>2. \A i \in 1..Len(p) - 1 + 1 : SubSeq(w, 1, Len(p))[i] = w[1 + i - 1]
      BY <1>1, <2>1, SubSeqProperties
    <2>3. Len(p) - 1 + 1 = Len(p) /\ \A i \in 1..Len(p) : 1 + i - 1 = i
      BY <1>1
    <2>4. QED
      BY <2>2, <2>3
  <1>5. QED
    BY <1>1, <1>2, <1>3, <1>4 DEF Begins

\* Of what begins the same sequence, the longer continues the shorter.
LEMMA BeginsBoth ==
  ASSUME NEW B, NEW p \in Seq(B), NEW q \in Seq(B), NEW w \in Seq(B),
         Begins(p, w), Begins(q, w), Len(p) <= Len(q)
  PROVE  Begins(p, q)
  <1>1. Len(p) \in Nat /\ Len(q) \in Nat
    BY LenProperties
  <1>2. \A i \in 1..Len(p) : i \in 1..Len(q)
    BY <1>1
  <1>3. QED
    BY <1>2 DEF Begins

\* What begins a sequence and is as long is that sequence.
LEMMA BeginsAll ==
  ASSUME NEW B, NEW p \in Seq(B), NEW w \in Seq(B), Begins(p, w), Len(p) = Len(w)
  PROVE  p = w
  BY SeqEqual DEF Begins

\* The order of beginnings.
LEMMA BeginsTransitive ==
  ASSUME NEW B, NEW p \in Seq(B), NEW q \in Seq(B), NEW w \in Seq(B), Begins(p, q), Begins(q, w)
  PROVE  Begins(p, w)
  <1>1. Len(p) \in Nat /\ Len(q) \in Nat /\ Len(w) \in Nat
    BY LenProperties
  <1>2. Len(p) <= Len(w) /\ \A i \in 1..Len(p) : i \in 1..Len(q)
    BY <1>1 DEF Begins
  <1>3. QED
    BY <1>2 DEF Begins

\* A sequence begins what it is continued to.
LEMMA BeginsConcat ==
  ASSUME NEW B, NEW p \in Seq(B), NEW q \in Seq(B)
  PROVE  p \o q \in Seq(B) /\ Begins(p, p \o q)
  <1>1. p \o q \in Seq(B) /\ IsPrefix(p, p \o q)
    BY PrefixOfConcat, ConcatProperties
  <1>2. QED
    BY <1>1, PrefixBegins

\* What follows a common beginning.
LEMMA BeginsAfter ==
  ASSUME NEW B, NEW c \in Seq(B), NEW p \in Seq(B), NEW q \in Seq(B), Begins(c \o p, c \o q)
  PROVE  Begins(p, q)
  <1>1. Len(c) \in Nat /\ Len(p) \in Nat /\ Len(q) \in Nat
    BY LenProperties
  <1>2. /\ Len(c \o p) = Len(c) + Len(p) /\ Len(c \o q) = Len(c) + Len(q)
        /\ \A i \in 1..Len(c) + Len(p) : (c \o p)[i] = IF i <= Len(c) THEN c[i] ELSE p[i - Len(c)]
        /\ \A i \in 1..Len(c) + Len(q) : (c \o q)[i] = IF i <= Len(c) THEN c[i] ELSE q[i - Len(c)]
    BY ConcatProperties
  <1>3. Len(p) <= Len(q)
    BY <1>1, <1>2 DEF Begins
  <1>4. ASSUME NEW i \in 1..Len(p)
        PROVE  p[i] = q[i]
    <2>1. /\ Len(c) + i \in 1..Len(c) + Len(p) /\ Len(c) + i \in 1..Len(c) + Len(q)
          /\ ~(Len(c) + i <= Len(c)) /\ (Len(c) + i) - Len(c) = i
      BY <1>1, <1>3
    <2>2. (c \o p)[Len(c) + i] = p[i] /\ (c \o q)[Len(c) + i] = q[i]
      BY <1>2, <2>1
    <2>3. Len(c) + i \in 1..Len(c \o p)
      BY <1>2, <2>1
    <2>4. (c \o p)[Len(c) + i] = (c \o q)[Len(c) + i]
      BY <2>3 DEF Begins
    <2>5. QED
      BY <2>2, <2>4
  <1>5. QED
    BY <1>3, <1>4 DEF Begins

\* The length of an output is in its first bytes.
LEMMA OutputPrefix ==
  ASSUME NEW o \in Outputs, NEW u \in Outputs, Begins(o, u)
  PROVE  o = u
  <1> DEFINE k == NumberBytes(o[ScriptAt])
             v == [bytes |-> o]
             w == [bytes |-> u]
  <1>1. /\ o \in Seq(Byte) /\ u \in Seq(Byte) /\ o # <<>> /\ u # <<>>
        /\ HeadBytes(v) = Len(o) /\ HeadBytes(w) = Len(u)
    BY DEF Outputs
  <1>2. /\ Len(o) \in Nat /\ Len(o) # 0 /\ Len(u) \in Nat /\ Len(u) # 0
        /\ HeaderBytes \in Nat /\ ScriptAt = HeaderBytes + 1
    BY <1>1, EmptySeq, LenProperties, OutputBufferAssumption DEF OutputBufferAssumption, ScriptAt
  <1>3. /\ ~(Len(o) < ScriptAt) /\ ~(Len(o) < HeaderBytes + k)
        /\ Len(o) = HeaderBytes + k + NumberAt(v, ScriptAt)
    BY <1>1, <1>2 DEF HeadBytes
  <1>4. Len(u) = HeaderBytes + NumberBytes(u[ScriptAt]) + NumberAt(w, ScriptAt)
    BY <1>1, <1>2 DEF HeadBytes
  <1>5. k \in {1, 3, 5} /\ ScriptAt \in 1..Len(o)
    BY <1>2, <1>3 DEF NumberBytes
  <1>6. \A i \in 1..Len(o) : o[i] = u[i]
    BY DEF Begins
  <1>7. o[ScriptAt] = u[ScriptAt] /\ o[ScriptAt] \in Byte
    BY <1>1, <1>5, <1>6, ElementOfSeq
  <1>8. NumberAt(v, ScriptAt) = NumberAt(w, ScriptAt)
    <2>1. CASE o[ScriptAt] < 253
      BY <1>7, <2>1 DEF NumberAt
    <2>2. CASE o[ScriptAt] = 253
      <3>1. k = 3
        BY <2>2 DEF NumberBytes
      <3>2. ScriptAt + 1 \in 1..Len(o) /\ ScriptAt + 2 \in 1..Len(o)
        BY <1>2, <1>3, <3>1
      <3>3. o[ScriptAt + 1] = u[ScriptAt + 1] /\ o[ScriptAt + 2] = u[ScriptAt + 2]
        BY <1>6, <3>2
      <3>4. ~(o[ScriptAt] < 253)
        BY <2>2
      <3>5. NumberAt(v, ScriptAt) = o[ScriptAt + 1] + 256 * o[ScriptAt + 2]
        BY <2>2, <3>4 DEF NumberAt
      <3>6. u[ScriptAt] = 253
        BY <1>7, <2>2
      <3>7. NumberAt(w, ScriptAt) = u[ScriptAt + 1] + 256 * u[ScriptAt + 2]
        BY <3>6 DEF NumberAt
      <3>8. QED
        BY <3>3, <3>5, <3>7, Zenon
    <2>3. CASE o[ScriptAt] = 254 \/ o[ScriptAt] = 255
      <3>1. k = 5
        BY <2>3 DEF NumberBytes
      <3>2. /\ ScriptAt + 1 \in 1..Len(o) /\ ScriptAt + 2 \in 1..Len(o)
            /\ ScriptAt + 3 \in 1..Len(o) /\ ScriptAt + 4 \in 1..Len(o)
        BY <1>2, <1>3, <3>1
      <3>3. /\ o[ScriptAt + 1] = u[ScriptAt + 1] /\ o[ScriptAt + 2] = u[ScriptAt + 2]
            /\ o[ScriptAt + 3] = u[ScriptAt + 3] /\ o[ScriptAt + 4] = u[ScriptAt + 4]
        BY <1>6, <3>2
      <3>4. QED
        BY <1>7, <2>3, <3>3 DEF NumberAt
    <2>4. QED
      BY <1>7, <2>1, <2>2, <2>3, ByteCases
  <1>9. Len(o) = Len(u)
    BY <1>3, <1>4, <1>7, <1>8
  <1>10. QED
    BY <1>1, <1>9, BeginsAll

\* After a common beginning, the next output is the same.
LEMMA SameNext ==
  ASSUME NEW c \in Seq(Byte), NEW o \in Outputs, NEW u \in Outputs, NEW w \in Seq(Byte),
         Begins(c \o o, w), Begins(c \o u, w)
  PROVE  o = u
  <1>1. o \in Seq(Byte) /\ u \in Seq(Byte)
    BY DEF Outputs
  <1>2. c \o o \in Seq(Byte) /\ c \o u \in Seq(Byte)
    BY <1>1, ConcatProperties
  <1>3. Len(c \o o) \in Nat /\ Len(c \o u) \in Nat
    BY <1>2, LenProperties
  <1>4. CASE Len(c \o o) <= Len(c \o u)
    <2>1. Begins(c \o o, c \o u)
      BY <1>2, <1>4, BeginsBoth
    <2>2. Begins(o, u)
      BY <1>1, <2>1, BeginsAfter
    <2>3. QED
      BY <2>2, OutputPrefix
  <1>5. CASE Len(c \o u) <= Len(c \o o)
    <2>1. Begins(c \o u, c \o o)
      BY <1>2, <1>5, BeginsBoth
    <2>2. Begins(u, o)
      BY <1>1, <2>1, BeginsAfter
    <2>3. QED
      BY <2>2, OutputPrefix
  <1>6. QED
    BY <1>3, <1>4, <1>5

\* Each turn of a flattening goes on where the one before ended.
Grows(g, s, n, B) ==
  /\ \A i \in 1..n : g[i] \in Seq(B) /\ Begins(g[i], g[n])
  /\ \A k \in Nat : k + 1 \in 1..n =>
       g[k + 1] = (IF k = 0 THEN <<>> ELSE g[k]) \o s[k + 1]

\* Flattening the first sequences begins the flattening of them all.
LEMMA FlatteningGrows ==
  ASSUME NEW B, NEW n \in Nat, NEW s, NEW g, \A i \in 1..n : s[i] \in Seq(B),
         Flattening(g, s, n)
  PROVE  Grows(g, s, n, B)
  <1> DEFINE T == {j \in Nat : j \in 1..n => g[j] \in Seq(B)}
             U == {j \in Nat : j \in 1..n => \A i \in 1..j : Begins(g[i], g[j])}
  <1>1. ASSUME NEW k \in Nat, k + 1 \in 1..n
        PROVE  g[k + 1] = (IF k = 0 THEN <<>> ELSE g[k]) \o s[k + 1]
    <2>1. g[k + 1] = IF k + 1 = 1 THEN s[k + 1] ELSE g[(k + 1) - 1] \o s[k + 1]
      BY <1>1 DEF Flattening
    <2>2. (k + 1) - 1 = k /\ (k + 1 = 1 <=> k = 0)
      OBVIOUS
    <2>3. <<>> \o s[k + 1] = s[k + 1]
      BY <1>1, ConcatEmptySeq
    <2>4. QED
      BY <2>1, <2>2, <2>3
  <1>2. Nat \subseteq T
    <2>1. 0 \in T
      OBVIOUS
    <2>2. ASSUME NEW j \in Nat, j \in T
          PROVE  j + 1 \in T
      <3>1. SUFFICES ASSUME j + 1 \in 1..n PROVE g[j + 1] \in Seq(B)
        OBVIOUS
      <3> DEFINE c == IF j = 0 THEN <<>> ELSE g[j]
      <3>2. c \in Seq(B)
        <4>1. j # 0 => j \in 1..n
          BY <3>1
        <4>2. QED
          BY <2>2, <4>1, EmptySeq
      <3>3. g[j + 1] = c \o s[j + 1] /\ s[j + 1] \in Seq(B)
        BY <1>1, <3>1
      <3> HIDE DEF c
      <3>4. QED
        BY <3>2, <3>3, ConcatProperties
    <2> HIDE DEF T
    <2>3. QED
      BY <2>1, <2>2, NaturalsIn
  <1>3. \A i \in 1..n : g[i] \in Seq(B)
    BY <1>2
  <1> HIDE DEF T
  <1>4. Nat \subseteq U
    <2>1. 0 \in U
      OBVIOUS
    <2>2. ASSUME NEW j \in Nat, j \in U
          PROVE  j + 1 \in U
      <3>1. SUFFICES ASSUME j + 1 \in 1..n, NEW i \in 1..j + 1
                     PROVE  Begins(g[i], g[j + 1])
        OBVIOUS
      <3>2. g[j + 1] \in Seq(B) /\ g[i] \in Seq(B)
        BY <1>3, <3>1
      <3>3. CASE i = j + 1
        BY <3>2, <3>3 DEF Begins
      <3>4. CASE i # j + 1
        <4>1. i \in 1..j /\ j \in 1..n /\ j # 0
          BY <3>1, <3>4
        <4>2. Begins(g[i], g[j]) /\ g[j] \in Seq(B)
          BY <1>3, <2>2, <4>1
        <4>3. g[j + 1] = g[j] \o s[j + 1] /\ s[j + 1] \in Seq(B)
          BY <1>1, <3>1, <4>1
        <4>4. Begins(g[j], g[j + 1])
          BY <4>2, <4>3, BeginsConcat
        <4>5. QED
          BY <3>2, <4>2, <4>4, BeginsTransitive
      <3>5. QED
        BY <3>3, <3>4
    <2> HIDE DEF U
    <2>3. QED
      BY <2>1, <2>2, NaturalsIn
  <1>5. \A i \in 1..n : Begins(g[i], g[n])
    BY <1>4
  <1>6. QED
    BY <1>1, <1>3, <1>5 DEF Grows

\* Two sequences of as many outputs flatten alike when the one begins the other.
LEMMA OneReading ==
  ASSUME NEW a \in Seq(Outputs), NEW z \in Seq(Outputs), Len(a) = Len(z),
         Begins(FlattenSeq(a), FlattenSeq(z))
  PROVE  FlattenSeq(a) = FlattenSeq(z)
  <1> DEFINE n == Len(a)
             w == FlattenSeq(z)
  <1>1. Outputs \subseteq Seq(Byte)
    BY DEF Outputs
  <1>2. n \in Nat /\ \A i \in 1..n : a[i] \in Outputs /\ z[i] \in Outputs
    BY LenProperties, ElementOfSeq
  <1>3. CASE n = 0
    <2>1. a = <<>> /\ z = <<>>
      BY <1>3, EmptySeq
    <2>2. QED
      BY <2>1
  <1>4. CASE n # 0
    <2>1. PICK g : Flattening(g, a, n) /\ FlattenSeq(a) = g[n]
      BY <1>2, <1>4, FlattenIs
    <2>2. PICK h : Flattening(h, z, n) /\ w = h[n]
      BY <1>2, <1>4, FlattenIs
    <2> HIDE DEF n, w
    <2>3. \A i \in 1..n : a[i] \in Seq(Byte) /\ z[i] \in Seq(Byte)
      BY <1>1, <1>2
    <2>4. /\ \A i \in 1..n : g[i] \in Seq(Byte) /\ Begins(g[i], g[n])
          /\ \A k \in Nat : k + 1 \in 1..n =>
               g[k + 1] = (IF k = 0 THEN <<>> ELSE g[k]) \o a[k + 1]
      <3>1. n \in Nat /\ \A i \in 1..n : a[i] \in Seq(Byte)
        BY <1>2, <2>3
      <3>2. Grows(g, a, n, Byte)
        BY <2>1, <3>1, FlatteningGrows
      <3>3. QED
        BY <3>2 DEF Grows
    <2>5. /\ \A i \in 1..n : h[i] \in Seq(Byte) /\ Begins(h[i], h[n])
          /\ \A k \in Nat : k + 1 \in 1..n =>
               h[k + 1] = (IF k = 0 THEN <<>> ELSE h[k]) \o z[k + 1]
      <3>1. n \in Nat /\ \A i \in 1..n : z[i] \in Seq(Byte)
        BY <1>2, <2>3
      <3>2. Grows(h, z, n, Byte)
        BY <2>2, <3>1, FlatteningGrows
      <3>3. QED
        BY <3>2 DEF Grows
    <2>6. n \in 1..n /\ w \in Seq(Byte) /\ g[n] \in Seq(Byte) /\ Begins(g[n], w)
      BY <1>2, <1>4, <2>1, <2>2, <2>4, <2>5 DEF w
    <2> DEFINE T == {k \in Nat : k \in 1..n => g[k] = h[k]}
    <2>7. 0 \in T
      OBVIOUS
    <2>8. ASSUME NEW k \in Nat, k \in T
          PROVE  k + 1 \in T
      <3>1. SUFFICES ASSUME k + 1 \in 1..n PROVE g[k + 1] = h[k + 1]
        OBVIOUS
      <3> DEFINE c == IF k = 0 THEN <<>> ELSE g[k]
      <3>2. k # 0 => k \in 1..n
        BY <1>2, <3>1
      <3>3. c \in Seq(Byte) /\ c = IF k = 0 THEN <<>> ELSE h[k]
        BY <2>4, <2>8, <3>2, EmptySeq
      <3>4. g[k + 1] = c \o a[k + 1]
        BY <2>4, <3>1
      <3>5. h[k + 1] = c \o z[k + 1]
        BY <2>5, <3>1, <3>3
      <3> HIDE DEF c
      <3>6. g[k + 1] \in Seq(Byte) /\ Begins(g[k + 1], w)
        BY <2>4, <2>6, <3>1, BeginsTransitive
      <3>7. Begins(h[k + 1], w)
        BY <2>2, <2>5, <3>1
      <3>8. a[k + 1] = z[k + 1]
        BY <1>2, <2>6, <3>1, <3>3, <3>4, <3>5, <3>6, <3>7, SameNext
      <3>9. QED
        BY <3>4, <3>5, <3>8
    <2> HIDE DEF T
    <2>9. Nat \subseteq T
      BY <2>7, <2>8, NaturalsIn
    <2>10. g[n] = h[n]
      BY <1>2, <2>6, <2>9 DEF T
    <2>11. QED
      BY <2>1, <2>2, <2>10 DEF w
  <1>5. QED
    BY <1>3, <1>4

\* A number is known by its quotient and its remainder.
LEMMA SameNumber ==
  ASSUME NEW n \in Nat, NEW k \in Nat, n \div 256 = k \div 256, n % 256 = k % 256
  PROVE  n = k
  OBVIOUS

\* The higher bytes of a number are those of its quotients.
LEMMA HighBytes ==
  ASSUME NEW n \in Nat
  PROVE  /\ n \div 256 \in Nat /\ n \div 65536 \in Nat
         /\ (n \div 256) \div 256 = n \div 65536
         /\ (n \div 65536) \div 256 = n \div 16777216
  OBVIOUS

\* A number has one form of each length, and no form begins another.
LEMMA OneNumber ==
  ASSUME NEW n \in Nat, NEW k \in Nat, NEW f \in NumberForms(n), NEW u \in NumberForms(k),
         NEW w, Begins(f, w), Begins(u, w)
  PROVE  f = u /\ n = k
  <1>1. /\ f \in Seq(Byte) /\ u \in Seq(Byte)
        /\ Len(f) = 1 => n < 253
        /\ Len(u) = 1 => k < 253
    BY DEF NumberForms
  <1>2. /\ f = <<n>> \/ f = <<253, n % 256, n \div 256>>
           \/ f = <<254, n % 256, (n \div 256) % 256, (n \div 65536) % 256, n \div 16777216>>
        /\ u = <<k>> \/ u = <<253, k % 256, k \div 256>>
           \/ u = <<254, k % 256, (k \div 256) % 256, (k \div 65536) % 256, k \div 16777216>>
    BY DEF NumberForms
  <1>3. /\ \A i \in 1..Len(f) : f[i] = w[i]
        /\ \A i \in 1..Len(u) : u[i] = w[i]
    BY DEF Begins
  <1>4. /\ f = <<n>> => Len(f) = 1 /\ f[1] = n
        /\ f = <<253, n % 256, n \div 256>> => Len(f) = 3 /\ f[1] = 253
        /\ f = <<254, n % 256, (n \div 256) % 256, (n \div 65536) % 256, n \div 16777216>>
             => Len(f) = 5 /\ f[1] = 254
    OBVIOUS
  <1>5. /\ u = <<k>> => Len(u) = 1 /\ u[1] = k
        /\ u = <<253, k % 256, k \div 256>> => Len(u) = 3 /\ u[1] = 253
        /\ u = <<254, k % 256, (k \div 256) % 256, (k \div 65536) % 256, k \div 16777216>>
             => Len(u) = 5 /\ u[1] = 254
    OBVIOUS
  <1>6. 1 \in 1..Len(f) /\ 1 \in 1..Len(u) /\ f[1] = u[1]
    <2>1. Len(f) \in {1, 3, 5} /\ Len(u) \in {1, 3, 5}
      BY <1>2, <1>4, <1>5
    <2>2. 1 \in 1..1 /\ 1 \in 1..3 /\ 1 \in 1..5
      OBVIOUS
    <2>3. 1 \in 1..Len(f) /\ 1 \in 1..Len(u)
      BY <2>1, <2>2, Zenon
    <2>4. QED
      BY <1>3, <2>3
  <1>7. CASE f = <<n>>
    <2>1. f[1] = n /\ n < 253
      BY <1>1, <1>7
    <2>2. u = <<k>>
      <3>1. u[1] # 253 /\ u[1] # 254
        BY <1>6, <2>1
      <3>2. QED
        BY <1>2, <1>5, <3>1
    <2>3. QED
      BY <1>5, <1>6, <1>7, <2>1, <2>2
  <1>8. CASE f = <<253, n % 256, n \div 256>>
    <2>1. f[1] = 253
      BY <1>8
    <2>2. u = <<253, k % 256, k \div 256>>
      <3>1. u[1] = 253
        BY <1>6, <2>1
      <3>2. u # <<k>>
        BY <1>1, <1>5, <3>1
      <3>3. QED
        BY <1>2, <1>5, <3>1, <3>2
    <2>3. f[2] = u[2] /\ f[3] = u[3]
      <3>1. 2 \in 1..Len(f) /\ 2 \in 1..Len(u) /\ 3 \in 1..Len(f) /\ 3 \in 1..Len(u)
        BY <1>8, <2>2
      <3>2. QED
        BY <1>3, <3>1
    <2>4. n % 256 = k % 256 /\ n \div 256 = k \div 256
      BY <1>8, <2>2, <2>3
    <2>5. n = k
      BY <2>4, SameNumber
    <2>6. QED
      BY <1>8, <2>2, <2>5
  <1>9. CASE f = <<254, n % 256, (n \div 256) % 256, (n \div 65536) % 256, n \div 16777216>>
    <2>1. f[1] = 254
      BY <1>9
    <2>2. u = <<254, k % 256, (k \div 256) % 256, (k \div 65536) % 256, k \div 16777216>>
      <3>1. u[1] = 254
        BY <1>6, <2>1
      <3>2. u # <<k>>
        BY <1>1, <1>5, <3>1
      <3>3. QED
        BY <1>2, <1>5, <3>1, <3>2
    <2>3. f[2] = u[2] /\ f[3] = u[3] /\ f[4] = u[4] /\ f[5] = u[5]
      <3>1. /\ 2 \in 1..Len(f) /\ 3 \in 1..Len(f) /\ 4 \in 1..Len(f) /\ 5 \in 1..Len(f)
            /\ 2 \in 1..Len(u) /\ 3 \in 1..Len(u) /\ 4 \in 1..Len(u) /\ 5 \in 1..Len(u)
        BY <1>9, <2>2
      <3>2. QED
        BY <1>3, <3>1
    <2>4. /\ n % 256 = k % 256 /\ (n \div 256) % 256 = (k \div 256) % 256
          /\ (n \div 65536) % 256 = (k \div 65536) % 256
          /\ n \div 16777216 = k \div 16777216
      BY <1>9, <2>2, <2>3
    <2>5. n \div 65536 = k \div 65536
      <3>1. /\ n \div 65536 \in Nat /\ k \div 65536 \in Nat
            /\ (n \div 65536) \div 256 = (k \div 65536) \div 256
        BY <2>4, HighBytes
      <3>2. QED
        BY <2>4, <3>1, SameNumber
    <2>6. n \div 256 = k \div 256
      <3>1. /\ n \div 256 \in Nat /\ k \div 256 \in Nat
            /\ (n \div 256) \div 256 = (k \div 256) \div 256
        BY <2>5, HighBytes
      <3>2. QED
        BY <2>4, <3>1, SameNumber
    <2>7. n = k
      BY <2>4, <2>6, SameNumber
    <2>8. QED
      BY <1>9, <2>2, <2>7
  <1>10. QED
    BY <1>2, <1>7, <1>8, <1>9

\* No serialization of outputs begins another.
LEMMA OneSerialization ==
  ASSUME NEW a \in Seq(Outputs), NEW z \in Seq(Outputs),
         NEW f \in NumberForms(Len(a)), NEW u \in NumberForms(Len(z)),
         Begins(f \o FlattenSeq(a), u \o FlattenSeq(z))
  PROVE  f \o FlattenSeq(a) = u \o FlattenSeq(z)
  <1> DEFINE p == FlattenSeq(a)
             q == FlattenSeq(z)
  <1>1. f \in Seq(Byte) /\ u \in Seq(Byte) /\ Len(a) \in Nat /\ Len(z) \in Nat
    BY LenProperties DEF NumberForms
  <1>2. p \in Seq(Byte) /\ q \in Seq(Byte)
    <2>1. a \in Seq(Seq(Byte)) /\ z \in Seq(Seq(Byte)) /\ <<>> \in Seq(Byte)
      <3>1. Outputs \subseteq Seq(Byte)
        BY DEF Outputs
      <3>2. QED
        BY <3>1, SeqMonotonic, EmptySeq
    <2>2. QED
      BY <2>1, FlattenAppend
  <1> HIDE DEF p, q
  <1>3. /\ f \o p \in Seq(Byte) /\ u \o q \in Seq(Byte)
        /\ Begins(f, f \o p) /\ Begins(u, u \o q)
    BY <1>1, <1>2, BeginsConcat
  <1>4. Begins(f \o p, u \o q)
    BY DEF p, q
  <1>5. Begins(f, u \o q)
    BY <1>1, <1>3, <1>4, BeginsTransitive
  <1>6. f = u /\ Len(a) = Len(z)
    BY <1>1, <1>3, <1>5, OneNumber
  <1>7. Begins(p, q)
    BY <1>1, <1>2, <1>4, <1>6, BeginsAfter
  <1>8. p = q
    BY <1>6, <1>7, OneReading DEF p, q
  <1>9. QED
    BY <1>6, <1>8 DEF p, q

\* A host sends serialized outputs and nothing behind them.
Serialized == \A s \in Streams : \E outputs \in Seq(Outputs) : s \in Serializations(outputs)

\* The screens of a review, from a host that names the change path before the
\* outputs, show to the byte what was hashed.
THEOREM ReviewShowsTheHashed ==
  ASSUME Serialized
  PROVE  Spec => []ReviewIsHashed
  <1>1. BufferInv /\ ReviewBeginsHash => ReviewIsHashed
    <2>1. SUFFICES ASSUME BufferInv, ReviewBeginsHash, disorder = {}, screen \in LastScreens
                   PROVE  Hashed \in Serializations(reviewed)
      BY DEF ReviewIsHashed, VerifiedOnScreen, LastScreens
    <2>2. reviewed \in Seq(Outputs) /\ Shown(reviewed, Hashed)
      BY <2>1 DEF ReviewBeginsHash
    <2>3. PICK f \in NumberForms(Len(reviewed)) : IsPrefix(f \o FlattenSeq(reviewed), Hashed)
      BY <2>2 DEF Shown
    <2>4. PICK z \in Seq(Outputs) : stream \in Serializations(z)
      BY <2>1 DEF BufferInv, TypeOK, Serialized
    <2>5. PICK u \in NumberForms(Len(z)) : stream = u \o FlattenSeq(z)
      BY <2>4 DEF Serializations
    <2> DEFINE p == f \o FlattenSeq(reviewed)
    <2>6. /\ stream \in Seq(Byte) /\ Len(stream) \in Nat /\ sent \in 0..Len(stream)
          /\ Hashed \in Seq(Byte) /\ Len(Hashed) = sent
      BY <2>1, HashedGrows, OutputBufferAssumption, LenProperties
      DEF BufferInv, TypeOK, OutputBufferAssumption
    <2>7. Begins(Hashed, stream)
      <3>1. /\ SubSeq(stream, sent + 1, Len(stream)) \in Seq(Byte)
            /\ stream = Hashed \o SubSeq(stream, sent + 1, Len(stream))
        BY <2>6, SplitAt DEF Hashed
      <3>2. QED
        BY <2>6, <3>1, BeginsConcat
    <2>8. p \in Seq(Byte)
      <3>1. reviewed \in Seq(Seq(Byte)) /\ f \in Seq(Byte) /\ <<>> \in Seq(Byte)
        BY <2>1, <2>3, EmptySeq DEF BufferInv, TypeOK, NumberForms
      <3>2. QED
        BY <3>1, FlattenAppend, ConcatProperties
    <2>9. Begins(p, Hashed)
      BY <2>3, <2>6, <2>8, PrefixBegins
    <2>10. Begins(p, stream)
      BY <2>6, <2>7, <2>8, <2>9, BeginsTransitive
    <2>11. p = stream
      BY <2>2, <2>5, <2>10, OneSerialization
    <2> HIDE DEF p
    <2>12. Len(Hashed) = Len(stream)
      BY <2>6, <2>9, <2>11 DEF Begins
    <2>13. Hashed = p
      BY <2>6, <2>7, <2>11, <2>12, BeginsAll
    <2>14. QED
      BY <2>3, <2>13 DEF Serializations, p
  <1>2. QED
    BY <1>1, BufferInvariance, ReviewIsFirstHashed, PTL

=============================================================================
