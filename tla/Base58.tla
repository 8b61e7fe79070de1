-------------------------------- MODULE Base58 --------------------------------
(***************************************************************************)
(* The loops of btchip_base58.c.  An encoder's inner loop multiplies the   *)
(* digits found so far by the base of the input and stops early, once past *)
(* the digits of the byte before (stopAt) with nothing left to carry; the  *)
(* size of its result is estimated as 138/100 of the input.  The decoder   *)
(* divides the digits by 256 again and again, writing a byte per pass from *)
(* the end of its buffer.                                                  *)
(*                                                                         *)
(* One step is one turn of a loop: a digit of the encoder, a pass of the   *)
(* decoder.  The alphabet is left out: a character is its digit.           *)
(***************************************************************************)
EXTENDS Integers, Sequences, SequencesExt, Folds

CONSTANTS
  ByteBase,     \* 256
  DigitBase,    \* 58
  Per, Of,      \* Per / Of digits are reserved for a byte: 138 / 100
  Inputs,       \* the byte strings that are encoded
  Moduli        \* pairwise coprime numbers whose product exceeds every value

ASSUME BaseAssumption ==
  /\ DigitBase \in Nat \ {0, 1} /\ ByteBase \in Nat \ 0 .. DigitBase
  /\ Per \in Nat /\ Of \in Nat \ {0} /\ Of <= Per
  /\ Inputs \subseteq Seq(0 .. ByteBase - 1)
  /\ Moduli \subseteq Nat \ {0}

VARIABLES
  in,           \* the bytes to encode
  pc,           \* where the call stands
  buffer,       \* the digits, most significant first, at 0 .. outputSize - 1
  startAt,      \* the byte, or the digit, the outer loop is at
  stopAt, j,    \* indices of buffer; an index below 0 is a wrapped size_t
  carry,
  text,         \* the encoded text
  tmp,          \* the digits the decoder divides
  decoded       \* the decoded bytes

encoding == <<stopAt, carry, text>>
decoding == <<tmp, decoded>>
codeVars == <<in, pc, buffer, startAt, j, encoding, decoding>>

-----------------------------------------------------------------------------
LeadingZeros(s) ==
  LET first == SelectInSeq(s, LAMBDA b : b # 0)
  IN  IF first = 0 THEN Len(s) ELSE first - 1

zeroCount == LeadingZeros(in)

\* Mutant: the size of the result leaves no room for the rounding.
OutputSizeTight(length) == (length * Per) \div Of

OutputSize(length) == (length * Per) \div Of + 1

outputSize == OutputSize(Len(in) - zeroCount)

\* A number modulo m: digits are most significant first.
Residue(digits, base, m) == FoldLeft(LAMBDA r, d : (r * base + d) % m, 0, digits)

SameNumber(a, baseA, b, baseB) ==
  \A m \in Moduli : Residue(a, baseA, m) = Residue(b, baseB, m)

Digits(f, n) == [k \in 1 .. n |-> f[k - 1]]

CodeInit ==
  /\ in = <<>>
  /\ pc = "call"
  /\ buffer = <<>> /\ startAt = 0 /\ stopAt = 0 /\ j = 0 /\ carry = 0
  /\ text = <<>> /\ tmp = <<>> /\ decoded = <<>>

-----------------------------------------------------------------------------
\* btchip_encode_base58
EncodeCall ==
  /\ pc = "call"
  /\ pc' = "byte"
  /\ in' \in Inputs
  /\ buffer' = [k \in 0 .. outputSize' - 1 |-> 0]
  /\ stopAt' = outputSize' - 1
  /\ startAt' = zeroCount'
  /\ UNCHANGED <<j, carry, text, decoding>>

EncodeByte ==
  /\ pc = "byte" /\ startAt < Len(in)
  /\ pc' = "digit"
  /\ carry' = in[startAt + 1]
  /\ j' = outputSize - 1
  /\ UNCHANGED <<in, buffer, startAt, stopAt, text, decoding>>

\* Mutant: the loop stops as soon as there is nothing to carry.
StopsHereAnywhere(left) == left = 0

\* if (j <= stopAt - 1 && carry == 0) break; stopAt - 1 wraps when stopAt is 0,
\* and stopAt itself has wrapped when the loop ran off the buffer.
StopsHere(left) == left = 0 /\ (stopAt <= 0 \/ j <= stopAt - 1)

\* for (j = outputSize - 1; (int) j >= 0; j--): the loop also ends, with an
\* index that has wrapped, behind the first digit.
EncodeDigit ==
  /\ pc = "digit"
  /\ LET sum == carry + ByteBase * buffer[j]
         left == sum \div DigitBase
         index == IF StopsHere(left) THEN j ELSE j - 1
     IN  /\ buffer' = [buffer EXCEPT ![j] = sum % DigitBase]
         /\ carry' = left
         /\ j' = index
         /\ IF StopsHere(left) \/ index < 0
              THEN pc' = "byte" /\ stopAt' = index /\ startAt' = startAt + 1
              ELSE UNCHANGED <<pc, stopAt, startAt>>
  /\ UNCHANGED <<in, text, decoding>>

ZeroDigits(n) == [k \in 1 .. n |-> 0]

\* The digits without the zeros in front, after one for every zero byte.
EncodeReturn ==
  /\ pc = "byte" /\ startAt >= Len(in)
  /\ LET digits == Digits(buffer, outputSize)
     IN  text' = ZeroDigits(zeroCount) \o SubSeq(digits, LeadingZeros(digits) + 1, outputSize)
  /\ pc' = "encoded"
  /\ UNCHANGED <<in, buffer, startAt, stopAt, j, carry, decoding>>

-----------------------------------------------------------------------------
\* btchip_decode_base58, of the text just encoded.
DecodeCall ==
  /\ pc = "encoded"
  /\ pc' = "pass"
  /\ tmp' = text
  /\ buffer' = [k \in 0 .. Len(text) - 1 |-> 0]
  /\ startAt' = LeadingZeros(text)
  /\ j' = Len(text)
  /\ UNCHANGED <<in, encoding, decoded>>

\* The divLoop: the digits from position `from` on, divided by ByteBase.
Division(digits, from) ==
  FoldLeft(LAMBDA d, k : LET v == d.remainder * DigitBase + digits[k]
                         IN  [tmp |-> [d.tmp EXCEPT ![k] = v \div ByteBase],
                              remainder |-> v % ByteBase],
           [tmp |-> digits, remainder |-> 0],
           [k \in 1 .. Len(digits) - from |-> from + k])

\* if (tmp[startAt] == 0) ++startAt
UsedUp(digits, at) == digits[at + 1] = 0

DecodePass ==
  /\ pc = "pass" /\ startAt < Len(text)
  /\ LET d == Division(tmp, startAt)
     IN  /\ tmp' = d.tmp
         /\ buffer' = [k \in DOMAIN buffer |-> IF k = j - 1 THEN d.remainder ELSE buffer[k]]
         /\ startAt' = IF UsedUp(d.tmp, startAt) THEN startAt + 1 ELSE startAt
  /\ j' = j - 1
  /\ UNCHANGED <<in, pc, encoding, decoded>>

\* The bytes without the zeros in front, after one for every zero digit.
DecodeReturn ==
  /\ pc = "pass" /\ startAt >= Len(text)
  /\ LET bytes == Digits(buffer, Len(text))
         written == SubSeq(bytes, j + 1, Len(bytes))
         from == j + LeadingZeros(written) - LeadingZeros(text)
     IN  decoded' = SubSeq(bytes, from + 1, Len(bytes))
  /\ pc' = "decoded"
  /\ UNCHANGED <<in, buffer, startAt, j, encoding, tmp>>

\* Every call starts from nothing.
NextCall ==
  /\ pc = "decoded"
  /\ pc' = "call"
  /\ in' = <<>>
  /\ buffer' = <<>> /\ startAt' = 0 /\ stopAt' = 0 /\ j' = 0 /\ carry' = 0
  /\ text' = <<>> /\ tmp' = <<>> /\ decoded' = <<>>

CodeNext ==
  \/ EncodeCall \/ EncodeByte \/ EncodeDigit \/ EncodeReturn
  \/ DecodeCall \/ DecodePass \/ DecodeReturn
  \/ NextCall

CodeSpec == CodeInit /\ [][CodeNext]_codeVars

-----------------------------------------------------------------------------
\* After every byte the buffer holds the number of the bytes read so far: no
\* digit is left unmultiplied where the inner loop stops early, and nothing
\* is carried out of the estimated size (btchip_base58.c:101).
PrefixEncoded ==
  pc = "byte" =>
    SameNumber(Digits(buffer, outputSize), DigitBase, SubSeq(in, 1, startAt), ByteBase)

\* What was encoded is decoded to the same bytes, zeros in front included.
RoundTrip == pc = "decoded" => decoded = in
=============================================================================
