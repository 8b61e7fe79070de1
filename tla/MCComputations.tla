--------------------------- MODULE MCComputations ---------------------------
(***************************************************************************)
(* The computations behind a review, one kind of them in a behaviour: the  *)
(* buffering of BLAKE-256, the sums of amounts and their decimal text,     *)
(* base 58, and the text of a key path.  They share no state.              *)
(***************************************************************************)
EXTENDS HashBuffer, AmountDisplay, AmountSums, Base58, KeyPath

VARIABLE computing

Kinds == {"hash", "display", "sums", "base58", "path"}

allVars == <<computing, hashVars, displayVars, sumsVars, codeVars, pathVars>>

Init ==
  /\ computing \in Kinds
  /\ HashInit /\ DisplayInit /\ SumsInit /\ CodeInit /\ PathInit

\* A step of one kind leaves the others where they started.
Idle(kind, variables) == computing # kind => UNCHANGED variables

Next ==
  /\ UNCHANGED computing
  /\ Idle("hash", hashVars) /\ Idle("display", displayVars) /\ Idle("sums", sumsVars)
  /\ Idle("base58", codeVars) /\ Idle("path", pathVars)
  /\ \/ computing = "hash" /\ HashNext
     \/ computing = "display" /\ DisplayNext
     \/ computing = "sums" /\ SumsNext
     \/ computing = "base58" /\ CodeNext
     \/ computing = "path" /\ PathNext

Spec == Init /\ [][Next]_allVars

-----------------------------------------------------------------------------
\* Base 58.  Every string of up to three telling bytes, and the payloads of an
\* address: a version of two bytes, a hash of 20 bytes and a checksum of four,
\* where bytes at the edges of their range follow one another.
Edge == {0, 58, 255}
Payload(a, b, c, d) ==
  [i \in 1 .. 26 |-> IF i = 1 THEN a ELSE IF i = 2 THEN b ELSE IF i < 24 THEN c ELSE d]
CodeInputs ==
  BoundedSeq({0, 1, 57, 58, 128, 255}, 3)
    \cup {Payload(a, b, c, d) : a \in Edge, b \in {0, 255}, c \in {58, 255}, d \in Edge}

\* Primes: their product exceeds 256 ^ 26, and their products with 256 fit.
Primes ==
  {4194301, 4194287, 4194277, 4194271, 4194247, 4194217, 4194199, 4194191, 4194187, 4194181, 4194173}

-----------------------------------------------------------------------------
\* Key paths.
Hard(n) == [hardened |-> TRUE, number |-> n]
Soft(n) == [hardened |-> FALSE, number |-> n]

\* Paths of the shortest level and the longest one, as long as they may be.
LongPaths == BoundedSeq({Soft(7), Hard(2147483647)}, MAX_BIP32_PATH)

\* The paths around every limit of the guard, with and without their flags.
GuardPaths ==
  {<<purpose, coin, account, chain, index>> :
     purpose \in {Hard(44), Hard(49), Hard(84), Soft(44), Hard(45)},
     coin \in {Hard(42), Soft(42)},
     account \in {Hard(0), Hard(100), Hard(101), Soft(0)},
     chain \in {Soft(0), Soft(1), Soft(2), Hard(0), Hard(1)},
     index \in {Soft(0), Soft(50000), Soft(50001), Hard(0)}}

HostPaths == LongPaths \cup GuardPaths
=============================================================================
