----------------------------- MODULE OutputBuffer -----------------------------
(***************************************************************************)
(* The bytes of the outputs under review: currentOutput, the parser that   *)
(* eats its way through it, and the screens.  SignTx follows the same      *)
(* commands over a whole session but only counts bytes; here the bytes are *)
(* kept, so that what the screens showed can be compared with what went    *)
(* into the hash.                                                          *)
(*                                                                         *)
(* Scope: one review, from the first block of HASH_INPUT_START to the      *)
(* user's last answer (the later passes of a session parse no outputs).    *)
(* Amounts are only compared with zero: whether the fees can be shown, and *)
(* whether the inputs allow a review on one screen, are free choices.  The *)
(* header of an output stands for its amount; its script version is zero   *)
(* (any other is refused, as an unknown script is).  Of currentOutput only *)
(* the bytes below currentOutputOffset are kept: no others are read.       *)
(***************************************************************************)
EXTENDS Integers, Sequences, SequencesExt

CONSTANTS
  Streams,             \* the serialized outputs a host may send
  HeaderBytes,         \* OUTPUT_HEADER_LENGTH: amount and script version
  BufferBytes,         \* MAX_OUTPUT_TO_CHECK
  Regular,             \* scripts the device shows an address for
  Changes              \* those that pay to an address a change path derives

Byte == 0..255

OutputBufferAssumption ==
  /\ Streams \subseteq Seq(Byte) /\ <<>> \notin Streams
  /\ HeaderBytes \in Nat \ {0} /\ BufferBytes \in Nat \ {0}
  /\ Changes \subseteq Regular /\ Regular \subseteq Seq(Byte) \ {<<>>}
  /\ \A script \in Regular : Len(script) < 253

ASSUME OutputBufferAssumption

MaxFullOutputs == 3
OP_RETURN == 106
NoAddress == <<>>       \* changeInitialized is false

VARIABLES
  transactionState,
  firstSigned,          \* no review passed yet
  stream,               \* the outputs of the transaction being sent
  sent,                 \* how many of their bytes the hashes absorbed
  currentOutput,        \* its first currentOutputOffset bytes
  parser,               \* the other fields of the output parser
  changeAddress,
  changeAccepted,
  multipleOutput,
  screen,
  reviewed,             \* history: the outputs shown and accepted, or hidden
  disorder              \* history: what the host did out of order since a FIRST block

buffer == <<currentOutput, parser>>
change == <<changeAddress, changeAccepted, multipleOutput>>
vars == <<transactionState, firstSigned, stream, sent, buffer, change, screen, reviewed, disorder>>

Parsers ==
  [ state : {"NUMBER_OUTPUTS", "OUTPUT", "FINALIZE_TX", "HANDLE_LEGACY"},
    remaining : Int, changeOutputFound : BOOLEAN, discardSize : Nat ]

TypeOK ==
  /\ transactionState \in {"NONE", "PARSING", "PRESIGN_READY", "SIGN_READY"}
  /\ stream \in Streams /\ sent \in 0..Len(stream)
  /\ currentOutput \in Seq(Byte) /\ Len(currentOutput) <= BufferBytes
  /\ parser \in Parsers
  /\ changeAddress \in Changes \cup {NoAddress}
  /\ {firstSigned, changeAccepted, multipleOutput} \subseteq BOOLEAN
  /\ screen \in {"none", "change_path", "single_output", "finalize", "full_output"}
  /\ reviewed \in Seq(Seq(Byte))
  /\ disorder \subseteq {"restart", "late_change"}

-----------------------------------------------------------------------------
\* The buffer while a command works on it, and its moves.
Memory ==
  [ bytes |-> currentOutput, reviewed |-> reviewed,
    state |-> parser.state, remaining |-> parser.remaining,
    changeOutputFound |-> parser.changeOutputFound, discardSize |-> parser.discardSize ]

Store(m) ==
  /\ currentOutput' = m.bytes
  /\ parser' = [state |-> m.state, remaining |-> m.remaining,
                changeOutputFound |-> m.changeOutputFound, discardSize |-> m.discardSize]
  /\ reviewed' = m.reviewed

\* Mutant: the move is one byte short.
DiscardMovesLess(m, n) == [m EXCEPT !.bytes = SubSeq(@, n, Len(@) - 1)]

Discard(m, n) == [m EXCEPT !.bytes = SubSeq(@, n + 1, Len(@))]

AddBlock(m, block) == [m EXCEPT !.bytes = @ \o block]

\* btchip_apdu_hash_input_finalize_full_reset
Reset(m) == [m EXCEPT !.bytes = <<>>, !.state = "NUMBER_OUTPUTS", !.changeOutputFound = FALSE]

-----------------------------------------------------------------------------
\* What lies in the buffer.  `at` is the place of the size byte of a script.

ScriptIs(m, at, script) ==
  /\ at + Len(script) <= Len(m.bytes)
  /\ SubSeq(m.bytes, at, at + Len(script)) = <<Len(script)>> \o script

IsRegular(m, at) == \E script \in Regular : ScriptIs(m, at, script)
IsOpReturn(m, at) == at < Len(m.bytes) /\ m.bytes[at + 1] = OP_RETURN
NullAmount(m, at) == \A i \in at - HeaderBytes..at - 1 : m.bytes[i] = 0
IsChange(m, at) == changeAddress # NoAddress /\ changeAccepted /\ ScriptIs(m, at, changeAddress)

\* Bytes of a number: one, or a marker and two or four.
NumberBytes(marker) == IF marker < 253 THEN 1 ELSE IF marker = 253 THEN 3 ELSE 5

NumberAt(m, at) ==
  LET b == m.bytes
      low == b[at + 1] + 256 * b[at + 2]
  IN  IF b[at] < 253 THEN b[at]
      ELSE IF b[at] = 253 THEN low
      ELSE low + 65536 * (b[at + 3] + 256 * b[at + 4])

\* The output at the head of the buffer: its length, 0 when bytes are missing.
ScriptAt == HeaderBytes + 1

HeadBytes(m) ==
  IF Len(m.bytes) < ScriptAt \/ Len(m.bytes) < HeaderBytes + NumberBytes(m.bytes[ScriptAt])
    THEN 0
    ELSE LET n == HeaderBytes + NumberBytes(m.bytes[ScriptAt]) + NumberAt(m, ScriptAt)
         IN  IF Len(m.bytes) < n THEN 0 ELSE n

Seen(m, n) == [m EXCEPT !.reviewed = Append(@, SubSeq(m.bytes, 1, n))]

-----------------------------------------------------------------------------
\* handle_output_state, one turn: the buffer after it and whether it waits
\* for more data, consumed something, found an output to show, or threw.
Outcome(name, m) == [name |-> name, m |-> m]

ReadNumber(m) ==
  IF Len(m.bytes) < 1 THEN Outcome("wait", m)
  ELSE IF m.bytes[1] = 255 THEN Outcome("throw", m)
  ELSE IF Len(m.bytes) < NumberBytes(m.bytes[1]) THEN Outcome("wait", m)
  ELSE Outcome("processed",
         Discard([m EXCEPT !.state = "OUTPUT", !.remaining = NumberAt(m, 1)],
                 NumberBytes(m.bytes[1])))

\* Mutant: the hidden output is counted twice.
HideCountedTwice(m, n) ==
  Discard([Seen(m, n) EXCEPT !.changeOutputFound = TRUE, !.remaining = @ - 2], n)

\* The change output is counted and dropped at once.
Hide(m, n) ==
  Discard([Seen(m, n) EXCEPT !.changeOutputFound = TRUE, !.remaining = @ - 1], n)

\* Mutant: the header is forgotten.
ShowWithoutHeader(m, n) == [m EXCEPT !.discardSize = n - HeaderBytes]

\* An output to show stays in the buffer until the answer.
Show(m, n) == [m EXCEPT !.discardSize = n]

ReadOutput(m) ==
  LET n == HeadBytes(m)
  IN  IF Len(m.bytes) >= ScriptAt /\ m.bytes[ScriptAt] > 253 THEN Outcome("throw", m)
      ELSE IF n = 0 THEN Outcome("wait", m)
      ELSE IF \/ ~IsRegular(m, ScriptAt) /\ ~(IsOpReturn(m, ScriptAt) /\ NullAmount(m, ScriptAt))
              \/ IsChange(m, ScriptAt) /\ m.changeOutputFound
        THEN Outcome("throw", m)
      ELSE IF IsChange(m, ScriptAt) THEN Outcome("processed", Hide(m, n))
      ELSE Outcome("display", Show(m, n))

HandleOutputState(m) ==
  LET cleared == [m EXCEPT !.discardSize = 0]
  IN  CASE m.state = "NUMBER_OUTPUTS" -> ReadNumber(cleared)
        [] m.state = "OUTPUT" -> ReadOutput(cleared)
        [] OTHER -> Outcome("throw", cleared)

\* The loop over it: after the number, the change output and one more turn it
\* has nothing left to process.
ParseOutputs(m) ==
  LET Again(r) == IF r.name = "processed" THEN HandleOutputState(r.m) ELSE r
  IN  Again(Again(HandleOutputState(m)))

\* prepare_full_output: where output i of a buffer that starts with the number
\* of outputs has the size of its script, and whether it ends in the buffer.
AfterScript(m, at) == IF at > Len(m.bytes) THEN at ELSE at + m.bytes[at] + ScriptAt

ScriptOf(m, i) ==
  LET first == 1 + ScriptAt
      second == AfterScript(m, first)
  IN  <<first, second, AfterScript(m, second)>>[i]

EndsInBuffer(m, at) == at <= Len(m.bytes) /\ at + m.bytes[at] <= Len(m.bytes)

FullOutputReviewable(m) ==
  /\ m.bytes # <<>> /\ m.bytes[1] <= MaxFullOutputs
  /\ LET outputs == 1..m.bytes[1]
         changes == {i \in outputs : IsChange(m, ScriptOf(m, i))}
     IN  /\ \A i \in outputs : /\ EndsInBuffer(m, ScriptOf(m, i))
                               /\ IsRegular(m, ScriptOf(m, i))
         /\ Cardinality(changes) = (IF changeAddress = NoAddress THEN 0 ELSE 1)
         /\ Cardinality(outputs \ changes) = 1

\* The one screen shows the payment; the change is hidden.
FullOutput(m) ==
  LET OutputOf(i) == LET at == ScriptOf(m, i)
                     IN  SubSeq(m.bytes, at - HeaderBytes, at + m.bytes[at])
  IN  [m EXCEPT !.state = "HANDLE_LEGACY", !.remaining = 0,
                !.reviewed = [i \in 1..m.bytes[1] |-> OutputOf(i)]]

-----------------------------------------------------------------------------
RamZeroed ==
  /\ transactionState' = "NONE"
  /\ firstSigned' = FALSE
  /\ currentOutput' = <<>>
  /\ parser' = [state |-> "NUMBER_OUTPUTS", remaining |-> 0,
                changeOutputFound |-> FALSE, discardSize |-> 0]
  /\ changeAddress' = NoAddress /\ changeAccepted' = FALSE /\ multipleOutput' = FALSE
  /\ screen' = "none"
  /\ sent' = 0 /\ reviewed' = <<>> /\ disorder' = {}

Init ==
  /\ transactionState = "NONE"
  /\ firstSigned = FALSE
  /\ stream \in Streams /\ sent = 0
  /\ currentOutput = <<>>
  /\ parser = [state |-> "NUMBER_OUTPUTS", remaining |-> 0,
               changeOutputFound |-> FALSE, discardSize |-> 0]
  /\ changeAddress = NoAddress /\ changeAccepted = FALSE /\ multipleOutput = FALSE
  /\ screen = "none"
  /\ reviewed = <<>> /\ disorder = {}

Listening == screen = "none"

\* The command fails: the transaction is dropped, the parser reset.
DiscardTransaction(m) == transactionState' = "NONE" /\ Store(Reset(m))

-----------------------------------------------------------------------------
\* HASH_INPUT_START.  The inputs parse, fail, or wait for more blocks.
InputsParse == transactionState' \in {"NONE", "PARSING", "PRESIGN_READY"}

StartFirst(new, s) ==
  /\ Listening
  /\ new \/ firstSigned
  /\ firstSigned' = TRUE
  /\ stream' = s /\ sent' = 0
  /\ Store([Reset(Memory) EXCEPT !.reviewed = <<>>])
  /\ IF new THEN changeAddress' = NoAddress /\ changeAccepted' = TRUE /\ multipleOutput' = FALSE
            ELSE UNCHANGED change
  /\ InputsParse
  /\ disorder' = {}
  /\ UNCHANGED screen

StartNext ==
  /\ Listening
  /\ transactionState = "PARSING"
  /\ InputsParse
  /\ UNCHANGED <<firstSigned, stream, sent, buffer, change, screen, reviewed, disorder>>

\* In state NONE the parser of the inputs begins a transaction, whatever the
\* block is called: "Reset transaction state", and not that of the outputs.
StartWithNext(s) ==
  /\ Listening
  /\ transactionState = "NONE" /\ firstSigned
  /\ stream' = s /\ sent' = 0
  /\ reviewed' = <<>>
  /\ disorder' = disorder \cup {"restart"}
  /\ InputsParse
  /\ UNCHANGED <<firstSigned, buffer, change, screen>>

-----------------------------------------------------------------------------
\* HASH_INPUT_FINALIZE_FULL.
FinalizeOutOfState ==
  /\ Listening
  /\ transactionState # "PRESIGN_READY"
  /\ DiscardTransaction(Memory)
  /\ UNCHANGED <<firstSigned, stream, sent, change, screen, disorder>>

\* CHANGEINFO.  The screen for an unusual path sends the parser back to the
\* number of outputs.
SetChangePath(address, unusual) ==
  /\ Listening
  /\ transactionState = "PRESIGN_READY"
  /\ changeAccepted
  /\ changeAddress' = address
  /\ changeAccepted' = ~unusual
  /\ IF unusual THEN screen' = "change_path" /\ Store([Memory EXCEPT !.state = "NUMBER_OUTPUTS"])
                ELSE UNCHANGED <<screen, buffer, reviewed>>
  /\ disorder' = IF sent = 0 THEN disorder ELSE disorder \cup {"late_change"}
  /\ UNCHANGED <<transactionState, firstSigned, stream, sent, multipleOutput>>

\* CHANGEINFO without a readable path, or when a path was refused.
ChangePathRefused ==
  /\ Listening
  /\ transactionState = "PRESIGN_READY"
  /\ DiscardTransaction(Memory)
  /\ UNCHANGED <<firstSigned, stream, sent, change, screen, disorder>>

\* Mutant: room for one byte that is not there.
RoomForOneMore(m, n) == Len(m.bytes) + n <= BufferBytes + 1

Room(m, n) == Len(m.bytes) + n <= BufferBytes

\* All outputs were seen: the last screen, or an error that leaves the parser
\* as it is when the fees cannot be shown.
Finalize(m) ==
  /\ Store([m EXCEPT !.state = "FINALIZE_TX"])
  /\ \/ screen' = "finalize" /\ UNCHANGED transactionState
     \/ transactionState' = "NONE" /\ UNCHANGED screen

ReviewOutputs(last, m) ==
  LET r == ParseOutputs(m)
  IN  \/ /\ last /\ ~multipleOutput /\ FullOutputReviewable(m)
         /\ Store(FullOutput(m))
         /\ screen' = "full_output"
         /\ UNCHANGED <<transactionState, multipleOutput>>
      \/ /\ r.name = "throw"
         /\ DiscardTransaction(r.m)
         /\ UNCHANGED <<screen, multipleOutput>>
      \/ /\ r.name = "display"
         /\ Store(r.m)
         /\ screen' = "single_output"
         /\ multipleOutput' = (multipleOutput \/ ~last)
         /\ UNCHANGED transactionState
      \/ /\ r.name = "wait" /\ r.m.remaining # 0
         /\ Store(r.m)
         /\ multipleOutput' = (multipleOutput \/ ~last)
         /\ UNCHANGED <<transactionState, screen>>
      \/ /\ r.name = "wait" /\ r.m.remaining = 0
         /\ Finalize(r.m)
         /\ multipleOutput' = (multipleOutput \/ ~last)

\* A block of n bytes.  The host sends the number of outputs in one block and
\* marks as LAST the block that ends the outputs (see SignTx for the others).
SendOutputs(n) ==
  LET block == SubSeq(stream, sent + 1, sent + n)
  IN  /\ Listening
      /\ transactionState = "PRESIGN_READY"
      /\ sent + n <= Len(stream)
      /\ sent + n >= NumberBytes(stream[1])
      /\ sent' = sent + n
      /\ IF Room(Memory, n)
           THEN ReviewOutputs(sent + n = Len(stream), AddBlock(Memory, block))
           ELSE DiscardTransaction(Memory) /\ UNCHANGED <<screen, multipleOutput>>
      /\ UNCHANGED <<firstSigned, stream, changeAddress, changeAccepted, disorder>>

-----------------------------------------------------------------------------
\* The user's answers.
AnswerChangePath(confirming) ==
  /\ screen = "change_path"
  /\ screen' = "none"
  /\ IF confirming
       THEN changeAccepted' = TRUE /\ UNCHANGED <<transactionState, changeAddress, multipleOutput, parser>>
       ELSE /\ changeAddress' = NoAddress /\ changeAccepted' = FALSE /\ multipleOutput' = FALSE
            /\ transactionState' = "NONE"
            /\ parser' = [parser EXCEPT !.state = "NUMBER_OUTPUTS"]
  /\ UNCHANGED <<firstSigned, stream, sent, currentOutput, reviewed, disorder>>

\* The output just accepted is counted, and dropped if more are to come.
Accepted == [Seen(Memory, parser.discardSize) EXCEPT !.remaining = @ - 1]

AcceptOutput ==
  LET r == IF Accepted.remaining = 0 THEN Outcome("wait", Accepted)
           ELSE ParseOutputs(Discard(Accepted, Accepted.discardSize))
  IN  /\ screen = "single_output"
      /\ \/ /\ r.name = "throw"           \* the application exits and is launched again
            /\ RamZeroed
         \/ /\ r.name = "display"
            /\ Store(r.m)
            /\ UNCHANGED <<transactionState, firstSigned, sent, change, screen, disorder>>
         \/ /\ r.name = "wait" /\ r.m.remaining # 0
            /\ Store(r.m)
            /\ screen' = "none"
            /\ UNCHANGED <<transactionState, firstSigned, sent, change, disorder>>
         \/ /\ r.name = "wait" /\ r.m.remaining = 0
            /\ \/ Store([r.m EXCEPT !.state = "FINALIZE_TX"])
                  /\ screen' = "finalize" /\ UNCHANGED transactionState
               \/ DiscardTransaction(r.m) /\ screen' = "none"
            /\ UNCHANGED <<firstSigned, sent, change, disorder>>
      /\ UNCHANGED stream

AcceptTransaction ==
  /\ screen \in {"finalize", "full_output"}
  /\ transactionState' = "SIGN_READY"
  /\ firstSigned' = FALSE
  /\ Store(Reset(Memory))
  /\ screen' = "none"
  /\ UNCHANGED <<stream, sent, change, disorder>>

RejectTransaction ==
  /\ screen \in {"single_output", "finalize", "full_output"}
  /\ DiscardTransaction(Memory)
  /\ screen' = "none"
  /\ UNCHANGED <<firstSigned, stream, sent, change, disorder>>

-----------------------------------------------------------------------------
\* HASH_SIGN, granted or refused, drops the transaction and leaves the parser
\* of the outputs as it is.
HashSign ==
  /\ Listening
  /\ transactionState' = "NONE"
  /\ UNCHANGED <<firstSigned, stream, sent, buffer, change, screen, reviewed, disorder>>

IoReset == RamZeroed /\ UNCHANGED stream

Next ==
  \/ \E s \in Streams : StartWithNext(s) \/ \E new \in BOOLEAN : StartFirst(new, s)
  \/ StartNext
  \/ FinalizeOutOfState \/ ChangePathRefused
  \/ \E address \in Changes, unusual \in BOOLEAN : SetChangePath(address, unusual)
  \/ \E n \in 1..BufferBytes + 1 : SendOutputs(n)
  \/ \E confirming \in BOOLEAN : AnswerChangePath(confirming)
  \/ AcceptOutput \/ AcceptTransaction \/ RejectTransaction
  \/ HashSign
  \/ IoReset

Spec == Init /\ [][Next]_vars

-----------------------------------------------------------------------------
\* Properties.

Hashed == SubSeq(stream, 1, sent)

\* The serializations of a sequence of outputs.
NumberForms(n) ==
  { f \in { <<n>>, <<253, n % 256, n \div 256>>,
            <<254, n % 256, (n \div 256) % 256, (n \div 65536) % 256, n \div 16777216>> } :
      f \in Seq(Byte) /\ (Len(f) = 1 => n < 253) }
Serializations(outputs) == {n \o FlattenSeq(outputs) : n \in NumberForms(Len(outputs))}

\* "This transaction can be verified by the user on screen" (btc.asc:127): when
\* the screen that ends a review comes up, the outputs shown one by one, the
\* hidden change among them, are to the byte what the hashes absorbed.  (Of a
\* transaction that no FIRST block began nothing is said: the output parser is
\* not reset for it.)
VerifiedOnScreen ==
  screen \in {"finalize", "full_output"} /\ "restart" \notin disorder =>
    Hashed \in Serializations(reviewed)

\* The same for a host that names the change path before the outputs: whatever
\* its blocks, and whatever was given up before, review and hash agree.
ReviewIsHashed == disorder = {} => VerifiedOnScreen

\* "Reset transaction state" (transaction_parse, btchip_transaction.c:137): while
\* outputs are awaited, the bytes waiting in currentOutput are the last ones
\* hashed for this transaction, none of an earlier one.
WaitingBytesHashed ==
  transactionState = "PRESIGN_READY" /\ firstSigned /\ "restart" \notin disorder =>
    IsSuffix(currentOutput, Hashed)

\* While an output is on a screen of its own it is whole at the head of the
\* buffer, and discardSize is its length: the answer drops this output and no
\* other byte, and its test of discardSize (line 494) never fails, in whatever
\* order a host sends its commands.
ShownOutputWaits ==
  screen = "single_output" => parser.discardSize = HeadBytes(Memory) /\ parser.discardSize # 0
=============================================================================
