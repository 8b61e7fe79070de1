------------------------------- MODULE KeyPath -------------------------------
(***************************************************************************)
(* The checks of a BIP 32 path that stand between a host and the user:     *)
(* bip44_derivation_guard, which decides whether a path deserves a warning *)
(* before a key is shown or an output hidden as change, and                *)
(* bip32_print_path, which writes the path on the screen.                  *)
(*                                                                         *)
(* A level is an unsigned word of 32 bits: its top bit, the hardening flag,*)
(* and the 31 bits below it.  The text is built level by level, as in the  *)
(* loop of the code.                                                       *)
(***************************************************************************)
EXTENDS Integers, Sequences, SequencesExt

CONSTANTS
  Paths,            \* the paths a host sends
  MAX_BIP32_PATH,   \* 10: levels of a path
  MaxOut            \* MAX_DERIV_PATH_ASCII_LENGTH = 122: the room for its text

Numbers == {n \in Nat : n <= 2147483647}
AllLevels == [hardened : BOOLEAN, number : Numbers]

ASSUME KeyPathAssumption ==
  /\ MAX_BIP32_PATH \in Nat /\ MaxOut \in Nat
  /\ MaxOut >= 1 + MAX_BIP32_PATH * (10 + 2) + 1
  /\ Paths \subseteq Seq(AllLevels)
  /\ \A p \in Paths : Len(p) <= MAX_BIP32_PATH

Prime == 10
Slash == 11
Space == 12

VARIABLES
  path,       \* the path of the command
  at,         \* levels printed so far
  out,        \* the text so far: digits, primes, slashes
  printing    \* "idle", "levels", "printed", or "overflow" when the printing threw

pathVars == <<path, at, out, printing>>

-----------------------------------------------------------------------------
\* bip44_derivation_guard.

MAX_BIP44_ACCOUNT_RECOMMENDED == 100
MAX_BIP44_ADDRESS_INDEX_RECOMMENDED == 50000

Is(level, n) == ~level.hardened /\ level.number = n
Exceeds(level, n) == level.hardened \/ level.number > n

\* Mutant: the flag is masked away instead.
Masked(level) == [level EXCEPT !.hardened = FALSE]

\* level ^ 0x80000000
Flipped(level) == [level EXCEPT !.hardened = ~@]

\* 1 when the user is warned of the path.
Unusual(p, isChange) ==
  \/ Len(p) # 5
  \/ \A purpose \in {44, 49, 84} : ~Is(Flipped(p[1]), purpose)
  \/ Exceeds(Flipped(p[3]), MAX_BIP44_ACCOUNT_RECOMMENDED)
  \/ ~Is(p[4], IF isChange THEN 1 ELSE 0)
  \/ Exceeds(p[5], MAX_BIP44_ADDRESS_INDEX_RECOMMENDED)

-----------------------------------------------------------------------------
\* bip32_print_path.

Tens == <<10, 100, 1000, 10000, 100000, 1000000, 10000000, 100000000, 1000000000>>
PowerOfTen(w) == IF w = 0 THEN 1 ELSE Tens[w]

\* "%u"
DecimalWidth(n) ==
  CHOOSE w \in 1 .. 10 : (w < 10 => n < PowerOfTen(w)) /\ (w > 1 => n >= PowerOfTen(w - 1))

Decimal(n) ==
  LET width == DecimalWidth(n)
  IN  [i \in 1 .. width |-> (n \div PowerOfTen(width - i)) % 10]

\* snprintf writes what there is room for.
Appended(text, digits) ==
  LET room == MaxOut - Len(text) - 1
  IN  text \o (IF Len(digits) <= room THEN digits ELSE SubSeq(digits, 1, room))

\* Mutant: the flag of a hardened level is not printed.
MarksForgotten(level) == <<Slash>>

Marks(level) == IF level.hardened THEN <<Prime, Slash>> ELSE <<Slash>>

NoRoom(text) == Len(text) >= MaxOut - 2

PathInit == path = <<>> /\ at = 0 /\ out = <<>> /\ printing = "idle"

PrintStart ==
  /\ printing = "idle"
  /\ path' \in Paths
  /\ out' = <<Space>> /\ printing' = "levels"
  /\ UNCHANGED at

PrintLevel ==
  /\ printing = "levels" /\ at < Len(path)
  /\ at' = at + 1
  /\ LET level == path[at + 1]
         text == Appended(out, Decimal(level.number))
     IN  IF NoRoom(text)
           THEN printing' = "overflow" /\ out' = text
           ELSE out' = text \o Marks(level) /\ UNCHANGED printing
  /\ UNCHANGED path

\* The last slash is removed.
PrintEnd ==
  /\ printing = "levels" /\ at = Len(path)
  /\ printing' = "printed"
  /\ out' = SubSeq(out, 1, Len(out) - 1)
  /\ UNCHANGED <<path, at>>

NextPath ==
  /\ printing \in {"printed", "overflow"}
  /\ path' = <<>> /\ at' = 0 /\ out' = <<>> /\ printing' = "idle"

PathNext == PrintStart \/ PrintLevel \/ PrintEnd \/ NextPath

PathSpec == PathInit /\ [][PathNext]_pathVars

-----------------------------------------------------------------------------
\* Properties.

NoLevel == [hardened |-> FALSE, number |-> 0]

ReadSymbol(r, c) ==
  CASE c = Space -> r
    [] c = Slash -> [levels |-> Append(r.levels, r.level), level |-> NoLevel]
    [] c = Prime -> [r EXCEPT !.level.hardened = TRUE]
    [] OTHER -> [r EXCEPT !.level.number = @ * 10 + c]

\* The levels a text tells, read from the left.
ReadBack(text) ==
  LET read[k \in 0 .. Len(text)] ==
        IF k = 0 THEN [levels |-> <<>>, level |-> NoLevel] ELSE ReadSymbol(read[k - 1], text[k])
  IN  read[Len(text)].levels

\* Every path the commands accept is shown, and the text tells the path: read
\* back it gives the levels and their flags.  The room is enough for the longest
\* one, to the character (btchip_filesystem_tx.h:35), so that the exception of
\* btchip_helpers.c:345 never reaches the screens, which do not catch it.
PathShown ==
  /\ printing # "overflow" /\ Len(out) < MaxOut
  /\ printing = "printed" /\ path # <<>> => ReadBack(Append(out, Slash)) = path

\* A path the user is not warned of has the shape of BIP 44: five levels,
\* purpose and account hardened, chain and index not, and small numbers.  The
\* flag is compared as a part of an unsigned word (btchip_helpers.c:300).
UsualIsBip44 ==
  \A isChange \in BOOLEAN :
    ~Unusual(path, isChange) =>
      /\ Len(path) = 5
      /\ path[1].hardened /\ path[3].hardened
      /\ ~path[4].hardened /\ ~path[5].hardened
      /\ path[3].number <= 100 /\ path[4].number <= 1 /\ path[5].number <= 50000
=============================================================================
