---------------------------- MODULE AmountDisplay ----------------------------
(***************************************************************************)
(* How an amount becomes the decimal text of a screen (btchip_bcd.c): the  *)
(* bits of its eight bytes are shifted, high bit first, into a scratch of  *)
(* 21 decimal digits ("double dabble"), and the digits are printed as      *)
(* coins, a point and what is left of the eight decimals once the trailing *)
(* zeros are cut.                                                          *)
(*                                                                         *)
(* The scratch is kept digit by digit as in the code.  The amount itself   *)
(* is kept beside it in limbs of DecimalDigits digits, the last one the    *)
(* fraction, since it does not fit an integer of the checker.              *)
(***************************************************************************)
EXTENDS Integers, Sequences, FiniteSets, FiniteSetsExt, Folds, SequencesExt

CONSTANTS
  AmountBytes,      \* 8
  ByteBits,         \* 8
  BytesSeen,        \* bound: the values a byte of an amount takes
  CoinDigits,       \* LOOP1 = 13: digits of the scratch before the point
  DecimalDigits,    \* LOOP2 = 8: digits of the scratch after the point
  FieldChars,       \* sizeof(vars.tmp.fullAmount) = 20
  CoinIdChars       \* shortCoinIdLength = 3

SCRATCH_SIZE == CoinDigits + DecimalDigits

TenTo[n \in Nat] == IF n = 0 THEN 1 ELSE 10 * TenTo[n - 1]
TwoTo[n \in Nat] == IF n = 0 THEN 1 ELSE 2 * TwoTo[n - 1]

\* Four digits hold thirteen bits.
AmountAssumption ==
  /\ AmountBytes \in Nat \ {0} /\ ByteBits \in Nat \ {0}
  /\ BytesSeen \subseteq 0 .. TwoTo[ByteBits] - 1
  /\ CoinDigits \in Nat \ {0} /\ DecimalDigits \in Nat \ {0}
  /\ AmountBytes * ByteBits <= 13 * (SCRATCH_SIZE \div 4)
  /\ FieldChars \in Nat /\ CoinIdChars \in Nat

ASSUME AmountAssumption

Positions == 0 .. SCRATCH_SIZE - 1
Unit == TenTo[DecimalDigits]
Limbs == 0 .. CoinDigits \div DecimalDigits + 1     \* limb 0 is the fraction
Point == 10                                         \* the symbol '.'
Unformatted == <<>>

VARIABLES
  count,      \* bytes shifted in so far
  scratch,    \* scratch[], without nscratch - 1 its last index
  smin,       \* the first digit the loops look at
  shown,       \* what is written to btchip_context_D.tmp
  value       \* history: the bytes shifted in, as limbs

displayVars == <<count, scratch, smin, shown, value>>

-----------------------------------------------------------------------------
\* scratch[k] += ((scratch[k] >= 5) ? 3 : 0)
Corrected(d) == IF d >= 5 THEN d + 3 ELSE d

\* if (scratch[smin] >= 8) smin -= 1
Window(digits, low) == IF digits[low] >= 8 THEN low - 1 ELSE low

\* One turn of the inner loop: the digits of the window are corrected, the
\* window grows, and the digits of the window are doubled with their carries.
Shift(d, bit) ==
  LET corrected == [k \in Positions |->
                      IF k >= d.smin THEN Corrected(d.scratch[k]) ELSE d.scratch[k]]
      low == Window(corrected, d.smin)
      carry(k) == IF k = SCRATCH_SIZE - 1 THEN bit
                  ELSE IF corrected[k + 1] >= 8 THEN 1 ELSE 0
  IN  [smin |-> low,
       scratch |-> [k \in Positions |->
                      IF k >= low THEN ((corrected[k] * 2) % 16) + carry(k) ELSE corrected[k]]]

\* The bits of a byte, the highest first.
Bits(byte) == [j \in 1 .. ByteBits |-> (byte \div TwoTo[ByteBits - j]) % 2]

-----------------------------------------------------------------------------
\* The printed digits: coins without leading zeros but at least one digit, and
\* decimals as long as a digit that is not zero is still to come.

\* Mutant: the last decimal is never printed.
DecimalsCutShort ==
  LET nonzero == {j \in 0 .. DecimalDigits - 2 : scratch[CoinDigits + j] # 0}
  IN  [j \in 1 .. IF nonzero = {} THEN 0 ELSE Max(nonzero) + 1 |-> scratch[CoinDigits + j - 1]]

Decimals ==
  LET nonzero == {j \in 0 .. DecimalDigits - 1 : scratch[CoinDigits + j] # 0}
  IN  [j \in 1 .. IF nonzero = {} THEN 0 ELSE Max(nonzero) + 1 |-> scratch[CoinDigits + j - 1]]

Coins ==
  LET nonzero == {k \in 0 .. CoinDigits - 1 : scratch[k] # 0}
  IN  IF nonzero = {} THEN <<0>>
      ELSE [k \in 1 .. CoinDigits - Min(nonzero) |-> scratch[Min(nonzero) + k - 1]]

Displayable == IF Decimals = <<>> THEN Coins ELSE Coins \o <<Point>> \o Decimals

-----------------------------------------------------------------------------
\* The reference: limbs, doubled with their carries.
Doubled(limbs, bit) ==
  LET carry(i) == IF i = 0 THEN bit ELSE (2 * limbs[i - 1]) \div Unit
      \* a carry into a limb never makes it carry: 2 * limb is even
  IN  [i \in Limbs |-> ((2 * limbs[i]) % Unit) + carry(i)]

DigitOf(limb, r) == (limb \div TenTo[r]) % 10

\* The decimal digit of an amount at position k of the scratch.
DigitAt(limbs, k) ==
  LET fromRight == SCRATCH_SIZE - 1 - k
  IN  DigitOf(limbs[fromRight \div DecimalDigits], fromRight % DecimalDigits)

Digit(k) == DigitAt(value, k)

-----------------------------------------------------------------------------
DisplayInit ==
  /\ count = 0
  /\ scratch = [k \in Positions |-> 0]
  /\ smin = SCRATCH_SIZE - 2
  /\ shown = Unformatted
  /\ value = [i \in Limbs |-> 0]

ShiftByte(byte) ==
  /\ count < AmountBytes
  /\ LET d == FoldLeft(Shift, [scratch |-> scratch, smin |-> smin], Bits(byte))
     IN  scratch' = d.scratch /\ smin' = d.smin
  /\ count' = count + 1
  /\ value' = FoldLeft(Doubled, value, Bits(byte))
  /\ UNCHANGED shown

Display ==
  /\ count = AmountBytes
  /\ shown = Unformatted
  /\ shown' = Displayable
  /\ UNCHANGED <<count, scratch, smin, value>>

\* The next call starts from a scratch of zeros.
NextAmount ==
  /\ shown # Unformatted
  /\ count' = 0
  /\ scratch' = [k \in Positions |-> 0]
  /\ smin' = SCRATCH_SIZE - 2
  /\ shown' = Unformatted
  /\ value' = [i \in Limbs |-> 0]

DisplayNext == (\E byte \in BytesSeen : ShiftByte(byte)) \/ Display \/ NextAmount

DisplaySpec == DisplayInit /\ [][DisplayNext]_displayVars

-----------------------------------------------------------------------------
\* The text on the screen, read back, is the amount to the last atom, in the
\* one form a reader expects: no leading zeros, no trailing zeros, a point
\* only before decimals.
CoinsShown == SelectInSeq(shown \o <<Point>>, LAMBDA c : c = Point) - 1
DecimalsShown == Len(shown) - (IF CoinsShown = Len(shown) THEN 0 ELSE 1) - CoinsShown

DisplayExact ==
  shown # Unformatted =>
    /\ \A k \in 1 .. CoinDigits :
         Digit(k - 1) = IF k > CoinDigits - CoinsShown
                          THEN shown[k - CoinDigits + CoinsShown] ELSE 0
    /\ \A j \in 1 .. DecimalDigits :
         Digit(CoinDigits + j - 1) = IF j <= DecimalsShown THEN shown[CoinsShown + 1 + j] ELSE 0
    /\ CoinsShown > 1 => shown[1] # 0
    /\ DecimalsShown > 0 => shown[Len(shown)] # 0
    /\ CoinsShown < Len(shown) => DecimalsShown > 0

\* The characters of the field: the coin identifier, a space, the text and the
\* terminating zero (ui_shared.c:255).
FieldUsed == CoinIdChars + 1 + Len(shown) + 1

\* "full amount" (ui_shared.h:82): the field holds any amount.
AmountFits == shown # Unformatted => FieldUsed <= FieldChars
=============================================================================
