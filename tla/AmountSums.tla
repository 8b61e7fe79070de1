------------------------------ MODULE AmountSums ------------------------------
(***************************************************************************)
(* The sums behind the fees: amounts are big-endian arrays of bytes, added *)
(* and subtracted byte by byte with a carry or a borrow.  The inputs of a  *)
(* transaction are added up by the parser, which fails when they overflow; *)
(* the outputs by the review, which drops the carry; and the fees are the  *)
(* difference, unless it borrows.                                          *)
(***************************************************************************)
EXTENDS Integers

CONSTANTS
  Width,        \* bytes of an amount: 8
  ByteValues,     \* values of a byte: 256
  MaxInputs,    \* bound: amounts added to the inputs
  MaxOutputs    \* bound: amounts added to the outputs

ASSUME SumsAssumption == Width \in Nat \ {0} /\ ByteValues \in Nat \ {0, 1}
                           /\ MaxInputs \in Nat /\ MaxOutputs \in Nat

Bytes == 0 .. ByteValues - 1
Amounts == [1 .. Width -> Bytes]
Zero == [i \in 1 .. Width |-> 0]

\* The number that an array of bytes stands for.
ValueOf(bytes) ==
  LET value[k \in 0 .. Width] == IF k = 0 THEN 0 ELSE value[k - 1] * ByteValues + bytes[k]
  IN  value[Width]

\* One more than the largest amount (2^64 in the code).
AmountSpan == ValueOf([i \in 1 .. Width |-> ByteValues - 1]) + 1

NoFees == <<>>
Nothing == [count |-> 0, sum |-> 0]
Plus(h, amount) == [count |-> h.count + 1, sum |-> h.sum + ValueOf(amount)]

VARIABLES
  transactionAmount,  \* the inputs, as bytes
  totalOutputAmount,  \* the outputs, as bytes
  fees,               \* the fees shown, as bytes
  failed,             \* the parser gave up
  inputs,             \* history: how many inputs, and their sum
  outputs             \* history: how many outputs, and their sum

sumsVars == <<transactionAmount, totalOutputAmount, fees, failed, inputs, outputs>>

-----------------------------------------------------------------------------
\* The loops run over the bytes from the last one, the least significant.

\* Mutant: a carry into a full byte does not carry on.
SumByteStopsCarry(a, b, r, k) ==
  LET val == a[k] + b[k] + r.carry
  IN  [target |-> [r.target EXCEPT ![k] = val % ByteValues],
       carry |-> IF a[k] + b[k] >= ByteValues THEN 1 ELSE 0]

SumByte(a, b, r, k) ==
  LET val == a[k] + b[k] + r.carry
  IN  [target |-> [r.target EXCEPT ![k] = val % ByteValues],
       carry |-> IF val >= ByteValues THEN 1 ELSE 0]

\* transaction_amount_add_be
AddBe(a, b) ==
  LET sum[i \in 0 .. Width] ==
        IF i = 0 THEN [target |-> Zero, carry |-> 0]
        ELSE SumByte(a, b, sum[i - 1], Width + 1 - i)
  IN  sum[Width]

\* Mutant: a borrow from an equal byte is forgotten.
BorrowedLost(borrow, tmpA, tmpB) ==
  IF borrow = 0 THEN [a |-> tmpA, borrow |-> 0]
  ELSE IF tmpA < tmpB THEN [a |-> tmpA + ByteValues - 1, borrow |-> 1]
  ELSE [a |-> (tmpA - 1) % ByteValues, borrow |-> 0]

\* The byte of a once the borrow of the byte below is taken from it.
Borrowed(borrow, tmpA, tmpB) ==
  IF borrow = 0 THEN [a |-> tmpA, borrow |-> 0]
  ELSE IF tmpA <= tmpB THEN [a |-> tmpA + ByteValues - 1, borrow |-> 1]
  ELSE [a |-> tmpA - 1, borrow |-> 0]

DifferenceByte(a, b, r, k) ==
  LET t == Borrowed(r.borrow, a[k], b[k])
  IN  IF t.a < b[k]
        THEN [target |-> [r.target EXCEPT ![k] = t.a + ByteValues - b[k]], borrow |-> 1]
        ELSE [target |-> [r.target EXCEPT ![k] = (t.a - b[k]) % ByteValues], borrow |-> t.borrow]

\* transaction_amount_sub_be
SubBe(a, b) ==
  LET difference[i \in 0 .. Width] ==
        IF i = 0 THEN [target |-> Zero, borrow |-> 0]
        ELSE DifferenceByte(a, b, difference[i - 1], Width + 1 - i)
  IN  difference[Width]

-----------------------------------------------------------------------------
SumsInit ==
  /\ transactionAmount = Zero /\ totalOutputAmount = Zero
  /\ fees = NoFees
  /\ failed = FALSE
  /\ inputs = Nothing /\ outputs = Nothing

\* A trusted input: "Overflow" ends the transaction.
AddInput(amount) ==
  /\ ~failed /\ fees = NoFees
  /\ inputs.count < MaxInputs
  /\ LET sum == AddBe(transactionAmount, amount)
     IN  /\ transactionAmount' = sum.target
         /\ failed' = (sum.carry = 1)
  /\ inputs' = Plus(inputs, amount)
  /\ UNCHANGED <<totalOutputAmount, fees, outputs>>

\* An output under review: the carry is dropped.
AddOutput(amount) ==
  /\ ~failed /\ fees = NoFees
  /\ outputs.count < MaxOutputs
  /\ totalOutputAmount' = AddBe(totalOutputAmount, amount).target
  /\ outputs' = Plus(outputs, amount)
  /\ UNCHANGED <<transactionAmount, fees, failed, inputs>>

\* prepare_fees: "Fees not consistent" when the difference borrows.
PrepareFees ==
  /\ ~failed /\ fees = NoFees
  /\ LET difference == SubBe(transactionAmount, totalOutputAmount)
     IN  /\ failed' = (difference.borrow = 1)
         /\ fees' = IF difference.borrow = 1 THEN NoFees ELSE difference.target
  /\ UNCHANGED <<transactionAmount, totalOutputAmount, inputs, outputs>>

\* The next transaction starts from zero.
NextTransaction ==
  /\ failed \/ fees # NoFees
  /\ transactionAmount' = Zero /\ totalOutputAmount' = Zero
  /\ fees' = NoFees
  /\ failed' = FALSE
  /\ inputs' = Nothing /\ outputs' = Nothing

SumsNext ==
  \/ \E amount \in Amounts : AddInput(amount) \/ AddOutput(amount)
  \/ PrepareFees \/ NextTransaction

SumsSpec == SumsInit /\ [][SumsNext]_sumsVars

-----------------------------------------------------------------------------
\* The total of the inputs is their sum as numbers, as long as the parser has
\* not failed, and it fails on an overflow (btchip_transaction.c:318); the total
\* of the outputs is theirs up to the carry the review drops
\* (btchip_apdu_hash_input_finalize_full.c:66).
SumsExact ==
  /\ ~failed => ValueOf(transactionAmount) = inputs.sum
  /\ inputs.sum >= AmountSpan => failed
  /\ ValueOf(totalOutputAmount) = outputs.sum % AmountSpan

\* The fees shown and the total of the outputs add up to the inputs, and fees
\* are refused exactly when the outputs exceed the inputs: no borrow is lost
\* between two bytes (btchip_transaction.c:48, ui_shared.c:143).
FeesExact ==
  /\ fees # NoFees => ValueOf(fees) + ValueOf(totalOutputAmount) = inputs.sum
  /\ failed => \/ inputs.sum >= AmountSpan
               \/ ValueOf(totalOutputAmount) > inputs.sum
=============================================================================
