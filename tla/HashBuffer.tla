------------------------------ MODULE HashBuffer ------------------------------
(***************************************************************************)
(* How blake256.c cuts a message that arrives in pieces into blocks, counts *)
(* it, and pads it.  The compression function is a function of the blocks   *)
(* and counters it is given, so a context is the list of those.             *)
(*                                                                          *)
(* The counter is two words: t0 modulo Wrap (2^32 bits in the code) and     *)
(* t1, its carry.  The code counts bits; everything it adds is a multiple   *)
(* of 8, so the model counts bytes.                                         *)
(***************************************************************************)
EXTENDS Integers, Sequences, SequencesExt

CONSTANTS
  BlockBytes,     \* 64
  LengthBytes,    \* 8: the bytes of the length that ends the padding
  Wrap,           \* the first word of the counter holds 0 .. Wrap - 1
  MaxPiece,       \* bound: bytes of a piece
  MaxMessage      \* bound: bytes of a message

HashAssumption ==
  /\ BlockBytes \in Nat /\ LengthBytes \in 2 .. BlockBytes - 2
  /\ Wrap \in Nat \ {0} /\ Wrap % BlockBytes = 0
  /\ MaxPiece \in Nat /\ MaxMessage \in Nat

ASSUME HashAssumption

Room == BlockBytes - LengthBytes - 1    \* 55: what fits with one byte of padding
FirstPad == 128                         \* 0x80, 0x01 and both in one
LastPad == 1
OnlyPad == 129

VARIABLES
  ctx,        \* the BLAKE256_CTX
  message,    \* history: what was absorbed since blake256_Init
  final       \* blake256_Final was called

hashVars == <<ctx, message, final>>

\* Bytes of a message that tell where they belong.
Byte(i) == 1000 + i
Piece(from, n) == [i \in 1 .. n |-> Byte(from + i)]

-----------------------------------------------------------------------------
\* blake256_compress: the counter does not enter when the block is padding only.
Compress(c, block) ==
  [c EXCEPT !.blocks = Append(@, [block |-> block,
                                  count |-> IF c.nullt THEN <<>> ELSE <<c.t0, c.t1>>])]

\* Mutant: the carry of the counter is lost.
CountBlockNoCarry(c) == [c EXCEPT !.t0 = (c.t0 + BlockBytes) % Wrap]

\* S->t[0] += 512; if (S->t[0] == 0) S->t[1]++;
CountBlock(c) ==
  LET t0 == (c.t0 + BlockBytes) % Wrap
  IN  [c EXCEPT !.t0 = t0, !.t1 = IF t0 = 0 THEN @ + 1 ELSE @]

\* memcpy(S->buf + at, in, ...)
Copied(buf, at, bytes) ==
  [i \in 1 .. BlockBytes |-> IF i \in at + 1 .. at + Len(bytes) THEN bytes[i - at] ELSE buf[i]]

WholeBlocks(c, in) ==
  FoldLeft(LAMBDA d, k : Compress(CountBlock(d), SubSeq(in, k * BlockBytes + 1, (k + 1) * BlockBytes)),
           c, [k \in 1 .. Len(in) \div BlockBytes |-> k - 1])

StoreRest(c, left, in) ==
  LET rest == SubSeq(in, BlockBytes * (Len(in) \div BlockBytes) + 1, Len(in))
  IN  IF rest = <<>> THEN [c EXCEPT !.buflen = 0]
      ELSE [c EXCEPT !.buf = Copied(c.buf, left, rest), !.buflen = left + Len(rest)]

FillsBlock(c, in) == c.buflen # 0 /\ Len(in) >= BlockBytes - c.buflen

\* blake256_Update.  A piece of no bytes forgets the bytes that wait.
Update(c, in) ==
  LET fill == BlockBytes - c.buflen
      filled == Copied(c.buf, c.buflen, SubSeq(in, 1, fill))
      rest == SubSeq(in, fill + 1, Len(in))
      d == Compress(CountBlock([c EXCEPT !.buf = filled]), filled)
  IN  IF FillsBlock(c, in)
        THEN StoreRest(WholeBlocks(d, rest), 0, rest)
        ELSE StoreRest(WholeBlocks(c, in), c.buflen, in)

\* S->t[0] -= n: the counter runs ahead of the padding that will be counted.
Uncount(c, n) == [c EXCEPT !.t0 = (@ - n) % Wrap]

Padding(n) == [i \in 1 .. n |-> IF i = 1 THEN FirstPad ELSE 0]
Zeros(n) == [i \in 1 .. n |-> 0]

\* msglen: the two words of the count, taken before the padding.
LengthWords(c) ==
  LET lo == (c.t0 + c.buflen) % Wrap
      hi == IF lo < c.buflen THEN c.t1 + 1 ELSE c.t1
  IN  Zeros(LengthBytes - 2) \o <<hi, lo>>

PadOne(c) == Update(Uncount(c, 1), <<OnlyPad>>)

PadSame(c) ==
  LET d == Update(Uncount([c EXCEPT !.nullt = @ \/ c.buflen = 0], Room - c.buflen),
                  Padding(Room - c.buflen))
  IN  Uncount(Update(d, <<LastPad>>), 1)

PadTwo(c) ==
  LET d == Update(Uncount(c, BlockBytes - c.buflen), Padding(BlockBytes - c.buflen))
      e == Update(Uncount(d, Room), Zeros(Room))
  IN  Uncount(Update([e EXCEPT !.nullt = TRUE], <<LastPad>>), 1)

\* blake256_Final
Finish(c) ==
  LET padded == IF c.buflen = Room THEN PadOne(c)
                ELSE IF c.buflen < Room THEN PadSame(c) ELSE PadTwo(c)
  IN  Update(Uncount(padded, LengthBytes), LengthWords(c))

\* blake256_Init leaves the buffer as it is.
Fresh(buf) ==
  [t0 |-> 0, t1 |-> 0, nullt |-> FALSE, buflen |-> 0, buf |-> buf, blocks |-> <<>>]

-----------------------------------------------------------------------------
HashInit ==
  /\ ctx = Fresh(Zeros(BlockBytes))
  /\ message = <<>>
  /\ final = FALSE

BeginHash ==
  /\ ctx' = Fresh(ctx.buf)
  /\ message' = <<>>
  /\ final' = FALSE

\* The dispatcher refuses a command without data, and the parser never
\* advances by nothing.
PieceSizes == 1 .. MaxPiece

UpdateHash(n) ==
  /\ ~final
  /\ Len(message) + n <= MaxMessage
  /\ ctx' = Update(ctx, Piece(Len(message), n))
  /\ message' = message \o Piece(Len(message), n)
  /\ UNCHANGED final

FinishHash ==
  /\ ~final
  /\ ctx' = Finish(ctx)
  /\ final' = TRUE
  /\ UNCHANGED message

HashNext == BeginHash \/ (\E n \in PieceSizes : UpdateHash(n)) \/ FinishHash

HashSpec == HashInit /\ [][HashNext]_hashVars

-----------------------------------------------------------------------------
\* The reference: the blocks of the padded message, each with its counter.

Padded(m) ==
  LET n == Len(m)
      zeros == (Room - n - 1) % BlockBytes
      pad == IF n % BlockBytes = Room THEN <<OnlyPad>>
             ELSE <<FirstPad>> \o Zeros(zeros) \o <<LastPad>>
  IN  m \o pad \o Zeros(LengthBytes - 2) \o <<n \div Wrap, n % Wrap>>

Counter(k, n) ==
  LET counted == IF k * BlockBytes <= n THEN k * BlockBytes ELSE n
  IN  IF (k - 1) * BlockBytes < n THEN <<counted % Wrap, counted \div Wrap>> ELSE <<>>

Blocks(m) ==
  [k \in 1 .. Len(Padded(m)) \div BlockBytes |->
     [block |-> SubSeq(Padded(m), (k - 1) * BlockBytes + 1, k * BlockBytes),
      count |-> Counter(k, Len(m))]]

\* The hash of a message depends on the message alone: blocks, padding and
\* counters are those of the definition of BLAKE-256, also where the message
\* ends next to the length, and where the first word of the counter wraps.
HashesMessage == final => ctx.blocks = Blocks(message)
=============================================================================
