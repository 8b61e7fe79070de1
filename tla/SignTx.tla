------------------------------- MODULE SignTx -------------------------------
(***************************************************************************)
(* The transaction-signing session of the Decred application: the commands *)
(* HASH_INPUT_START, HASH_INPUT_FINALIZE_FULL and HASH_SIGN, the screens   *)
(* they raise, the buttons that answer them, and the commands that share   *)
(* the same RAM (GET_TRUSTED_INPUT, SIGN_MESSAGE).                         *)
(*                                                                         *)
(* The application serves one command at a time.  While a screen waits for *)
(* its answer (IO_ASYNCH_REPLY) the device takes no command: the answer's  *)
(* callback sends the reply.  An IO reset or a power cycle may come at any *)
(* time and wipes btchip_context_D.                                        *)
(*                                                                         *)
(* Data.  A transaction is a record: its inputs (an amount, and whether it *)
(* comes as a trusted input), its outputs (a script class and an amount)   *)
(* and whether the scripts sent for its inputs end in OP_CHECKMULTISIG.    *)
(* The serialized outputs are a stream of units: CountUnits for their      *)
(* number, then OutputUnits per output, so that a block may end inside an  *)
(* output, and, when CountUnits = 2, inside the number.  A BLAKE-256       *)
(* context is the content it absorbed: a transaction, how many of its      *)
(* inputs and how many units of its outputs.                               *)
(*                                                                         *)
(* The host sends what it likes.  Where it departs from the order in which *)
(* a transaction is sent, the history `disorder` notes how, and what the   *)
(* parser makes of bytes that are not where it takes them to be is left    *)
(* open: see Readings.                                                     *)
(***************************************************************************)
EXTENDS Integers, Sequences, FiniteSets, Functions

CONSTANTS
  Txs,              \* the transactions a host may send
  Spelled,          \* those that bytes out of place may spell to the parser
  Paths,            \* BIP 32 paths a host may name as the change path
  UnusualPaths,     \* those bip44_derivation_guard asks the user about
  CountUnits,       \* units of the number of outputs
  BufferUnits,      \* MAX_OUTPUT_TO_CHECK: units currentOutput can hold
  AmountSpan,       \* amounts are sums modulo AmountSpan (2^64 in the code)
  None              \* no content, no path, no value

OutputUnits == 2        \* an output may be cut once, anywhere
MaxFullOutputs == 3     \* prepare_full_output reviews up to three outputs

Scripts == Paths \cup {"other", "nulldata", "unknown"}

SignTxAssumption ==
  /\ Spelled \subseteq Txs
  /\ CountUnits \in {1, 2}
  /\ BufferUnits \in Nat
  /\ AmountSpan \in Nat \ {0}
  /\ None \notin Paths
  /\ UnusualPaths \subseteq Paths
  /\ \A t \in Txs :
       /\ t.inputs \in Seq([amount : Nat, trusted : BOOLEAN])
       /\ t.outputs \in Seq([script : Scripts, amount : Nat])
       /\ t.multisig \in BOOLEAN
       /\ \A i \in DOMAIN t.outputs : t.outputs[i].amount < AmountSpan

ASSUME SignTxAssumption

Contents == [tx : Txs, inputs : Nat, outputs : Nat]

ASSUME NoneIsNoContent == None \notin Contents

-----------------------------------------------------------------------------
VARIABLES
  transactionState,   \* transactionContext.transactionState
  parseMode,          \* transactionParseMode
  firstSigned,        \* transactionContext.firstSigned: no review passed yet
  relaxed,            \* transactionContext.relaxed
  consumeP2SH,        \* transactionContext.consumeP2SH
  transactionAmount,  \* transactionContext.transactionAmount
  hashed,             \* content of transactionHashPrefix and ...Authorization
  parser,             \* the output parser, see Parsers below
  changeAddress,      \* tmpCtx.output.changeAddress, None when not initialized
  changeAccepted,     \* tmpCtx.output.changeAccepted
  multipleOutput,     \* tmpCtx.output.multipleOutput
  authorizationHash,  \* transactionSummary.authorizationHash
  screen,             \* the screen waiting for an answer
  up,                 \* the application runs
  confirmed,          \* history: outputs the user accepted in this pass
  disorder,           \* history: how the host departed from the order in this pass
  marked,             \* history: the last block of outputs reviewed was a LAST
  warned,             \* history: unusual paths the user accepted in this session
  approved,           \* history: the content whose review the user accepted in this session
  sealed,             \* history: that review was accepted after a LAST block
  signed              \* history: contents a signature was returned for

flags == <<firstSigned, relaxed, consumeP2SH, transactionAmount>>
change == <<changeAddress, changeAccepted, multipleOutput>>
pass == <<confirmed, disorder, marked>>
history == <<pass, warned, approved, sealed, signed>>
vars == <<transactionState, parseMode, flags, hashed, parser, change,
          authorizationHash, screen, up, history>>

Parsers ==
  [ outputParsingState : {"NONE", "NUMBER_OUTPUTS", "OUTPUT", "FINALIZE_TX", "HANDLE_LEGACY"},
    currentOutputOffset : Int,
    remainingOutputs : Int,
    totalOutputs : Nat,
    totalOutputAmount : Nat,
    changeOutputFound : BOOLEAN ]

Parser(state, offset, remaining, total, amount, found) ==
  [ outputParsingState |-> state, currentOutputOffset |-> offset,
    remainingOutputs |-> remaining, totalOutputs |-> total,
    totalOutputAmount |-> amount, changeOutputFound |-> found ]

Screens ==
  [ name : {"none", "change_path", "single_output", "full_output", "finalize"},
    output : Int,              \* the output it shows, when it shows one
    fees : Int \cup {None} ]   \* the fees it shows, None for "UNKNOWN" or when it shows none

NoScreen == [name |-> "none", output |-> 0, fees |-> None]
ChangePathScreen == [NoScreen EXCEPT !.name = "change_path"]

\* A pass in order begins with a first block, names the change path before the
\* outputs, sends their number whole, marks as LAST the block that ends the
\* outputs at the earliest, and ends with it.
Departures ==
  {"next",      \* the transaction was begun by a next block, without the reset of a first one
   "change",    \* CHANGEINFO with a path came after output data
   "number",    \* a block ended inside the number of outputs
   "early",     \* a LAST block did not end the outputs
   "beyond"}    \* a block brought bytes behind the outputs

\* PARSING stands for the states the transaction parser goes through between
\* NONE and PRESIGN_READY, or PARSED.
TypeOK ==
  /\ transactionState \in {"NONE", "PARSING", "PRESIGN_READY", "SIGN_READY"}
  /\ parseMode \in {"none", "TRUSTED_INPUT", "SIGNATURE"}
  /\ firstSigned \in BOOLEAN /\ relaxed \in BOOLEAN /\ consumeP2SH \in BOOLEAN
  /\ transactionAmount \in Nat
  /\ hashed \in Contents \cup {None}
  /\ parser \in Parsers
  /\ changeAddress \in Paths \cup {None}
  /\ changeAccepted \in BOOLEAN /\ multipleOutput \in BOOLEAN
  /\ authorizationHash \in Contents \cup {None}
  /\ screen \in Screens
  /\ up \in BOOLEAN
  /\ confirmed \subseteq Int
  /\ disorder \subseteq Departures
  /\ marked \in BOOLEAN /\ sealed \in BOOLEAN
  /\ warned \subseteq Paths
  /\ approved \in Contents \cup {None}
  /\ signed \subseteq Contents

-----------------------------------------------------------------------------
\* Amounts.

\* Mutant: the total is subtracted from.
AddAmountSubtracts(a, b) == a - b

\* transaction_amount_add_be with its carry dropped.
AddAmount(a, b) == (a + b) % AmountSpan

\* prepare_fees: fails when the outputs exceed the inputs, and gives up on
\* the figure when an input came without its trusted amount.
FeesConsistent(total) == relaxed \/ total <= transactionAmount
Fees(total) == IF relaxed THEN None ELSE transactionAmount - total

-----------------------------------------------------------------------------
\* The output parser.

StreamUnits(t) == CountUnits + OutputUnits * Len(t.outputs)

\* Bytes that are no output of the transaction parse as no known script.
Garbage == [script |-> "unknown", amount |-> 0]
OutputAt(t, i) == IF i \in DOMAIN t.outputs THEN t.outputs[i] ELSE Garbage

\* The output at the head of the buffer once `units` units were received.
HeadOutput(p, units) ==
  (units - p.currentOutputOffset - CountUnits) \div OutputUnits + 1

IsChange(o) ==
  /\ changeAddress # None
  /\ changeAccepted
  /\ o.script = changeAddress

Recognised(o) ==
  \/ o.script \in Paths \cup {"other"}
  \/ o.script = "nulldata" /\ o.amount = 0

\* check_output_displayable throws on an output the device cannot show.
Throws(p, o) ==
  \/ ~Recognised(o)
  \/ IsChange(o) /\ p.changeOutputFound

\* Mutants: a hidden output is counted twice, or not at all.
CountOutputTwice(p, o, dropped, hidden, found) ==
  Parser("OUTPUT", p.currentOutputOffset - dropped, p.remainingOutputs - 2 * hidden,
         p.totalOutputs, AddAmount(p.totalOutputAmount, o.amount), found)
CountOutputNever(p, o, dropped, hidden, found) ==
  Parser("OUTPUT", p.currentOutputOffset - dropped, p.remainingOutputs,
         p.totalOutputs, AddAmount(p.totalOutputAmount, o.amount), found)

\* check_output_displayable adds the output to the total, and an output that
\* is hidden is dropped at once.
CountOutput(p, o, dropped, hidden, found) ==
  Parser("OUTPUT", p.currentOutputOffset - dropped, p.remainingOutputs - hidden,
         p.totalOutputs, AddAmount(p.totalOutputAmount, o.amount), found)

\* handle_output_state, one turn: the parser after it, and whether it waits
\* for more data, consumed something, found an output to display, or threw.
ParseNumber(p, t) ==
  LET n == Len(t.outputs)
  IN  IF p.currentOutputOffset < CountUnits
        THEN [outcome |-> "wait",
              parser |-> Parser("NUMBER_OUTPUTS", p.currentOutputOffset, p.remainingOutputs, 0,
                                p.totalOutputAmount, p.changeOutputFound)]
        ELSE [outcome |-> "processed",
              parser |-> Parser("OUTPUT", p.currentOutputOffset - CountUnits, n, n,
                                p.totalOutputAmount, p.changeOutputFound)]

ParseOutput(p, t, units) ==
  LET o == OutputAt(t, HeadOutput(p, units))
  IN  IF p.currentOutputOffset < OutputUnits
        THEN [outcome |-> "wait", parser |-> p]
      ELSE IF Throws(p, o)
        THEN [outcome |-> "throw", parser |-> CountOutput(p, o, 0, 0, p.changeOutputFound)]
      ELSE IF IsChange(o)
        THEN [outcome |-> "processed", parser |-> CountOutput(p, o, OutputUnits, 1, TRUE)]
      ELSE [outcome |-> "display", parser |-> CountOutput(p, o, 0, 0, p.changeOutputFound)]

HandleOutputState(p, t, units) ==
  CASE p.outputParsingState = "NUMBER_OUTPUTS" -> ParseNumber(p, t)
    [] p.outputParsingState = "OUTPUT" -> ParseOutput(p, t, units)
    [] OTHER -> [outcome |-> "throw", parser |-> p]

\* while (handle_output_state() && !IO_ASYNCH_REPLY): at most one output is
\* hidden, so the number, the change and one more turn are all there can be.
ParseOutputs(p, t, units) ==
  LET Again(r) == IF r.outcome = "processed"
                    THEN HandleOutputState(r.parser, t, units) ELSE r
  IN  Again(Again(HandleOutputState(p, t, units)))

InState(p, state) ==
  Parser(state, p.currentOutputOffset, p.remainingOutputs, p.totalOutputs,
         p.totalOutputAmount, p.changeOutputFound)

\* Mutants: the reset forgets the buffered bytes, or the total.
ParserResetKeepsOffset(p) ==
  Parser("NUMBER_OUTPUTS", p.currentOutputOffset, p.remainingOutputs, p.totalOutputs, 0, FALSE)
ParserResetKeepsAmount(p) ==
  Parser("NUMBER_OUTPUTS", 0, p.remainingOutputs, p.totalOutputs, p.totalOutputAmount, FALSE)

\* btchip_apdu_hash_input_finalize_full_reset
ParserReset(p) ==
  Parser("NUMBER_OUTPUTS", 0, p.remainingOutputs, p.totalOutputs, 0, FALSE)

\* The bytes of the buffer are not those the parser takes them for: stale ones
\* lie before them, the parser began again in their middle, or the outputs are over.
Misread(d) == d \cap {"next", "change", "beyond"} # {}

\* As what the buffer is read after `units` units of the pass: the transaction
\* being hashed, at their place; what bytes out of place spell is any output of
\* any transaction in Spelled, or none.
Readings(p, units, d) ==
  IF Misread(d)
    THEN UNION {{[tx |-> t, units |-> p.currentOutputOffset + CountUnits + OutputUnits * (i - 1)] :
                   i \in 0..Len(t.outputs) + 1} : t \in Spelled}
    ELSE {[tx |-> hashed.tx, units |-> units]}

\* prepare_full_output takes the buffer for a whole transaction, also when the
\* number of its outputs was read and dropped before.
FullReadings(p, d) ==
  IF Misread(d) \/ p.outputParsingState # "NUMBER_OUTPUTS" THEN Spelled ELSE {hashed.tx}

\* The total prepare_full_output computes: it gives up above three outputs.
FullOutputAmount(t) ==
  AddAmount(AddAmount(OutputAt(t, 1).amount, OutputAt(t, 2).amount), OutputAt(t, 3).amount)

\* prepare_full_output(1): the whole transaction fits one screen, one
\* recipient and at most one change output, which must be there when a
\* change path was given.
FullOutputReviewable(p, t) ==
  LET changes == {i \in DOMAIN t.outputs : IsChange(t.outputs[i])}
  IN  /\ ~relaxed /\ ~consumeP2SH
      /\ CountUnits = 1         \* a number on several bytes is more than three
      /\ p.currentOutputOffset >= StreamUnits(t)
      /\ Len(t.outputs) <= MaxFullOutputs
      /\ \A i \in DOMAIN t.outputs : t.outputs[i].script \in Paths \cup {"other"}
      /\ Cardinality(changes) = (IF changeAddress = None THEN 0 ELSE 1)
      /\ Len(t.outputs) - Cardinality(changes) = 1
      /\ FullOutputAmount(t) <= transactionAmount

FullOutputParser(p) ==
  Parser("HANDLE_LEGACY", p.currentOutputOffset, 0, p.totalOutputs,
         p.totalOutputAmount, p.changeOutputFound)

\* The screens, with what they show.
SingleOutputScreen(p, units) ==
  [name |-> "single_output", output |-> HeadOutput(p, units), fees |-> None]
FinalizeScreen(total) ==
  [name |-> "finalize", output |-> 0, fees |-> Fees(total)]
FullOutputScreen(t) ==
  [name |-> "full_output",
   output |-> CHOOSE i \in DOMAIN t.outputs : ~IsChange(t.outputs[i]),
   fees |-> Fees(FullOutputAmount(t))]

-----------------------------------------------------------------------------
\* btchip_context_init: RAM is zeroed.
RamZeroed ==
  /\ transactionState' = "NONE"
  /\ parseMode' = "none"
  /\ firstSigned' = FALSE /\ relaxed' = FALSE /\ consumeP2SH' = FALSE
  /\ transactionAmount' = 0
  /\ hashed' = None
  /\ parser' = Parser("NUMBER_OUTPUTS", 0, 0, 0, 0, FALSE)
  /\ changeAddress' = None /\ changeAccepted' = FALSE /\ multipleOutput' = FALSE
  /\ authorizationHash' = None
  /\ screen' = NoScreen
  /\ confirmed' = {} /\ disorder' = {} /\ marked' = FALSE
  /\ warned' = {} /\ approved' = None /\ sealed' = FALSE

Init ==
  /\ transactionState = "NONE"
  /\ parseMode = "none"
  /\ firstSigned = FALSE /\ relaxed = FALSE /\ consumeP2SH = FALSE
  /\ transactionAmount = 0
  /\ hashed = None
  /\ parser = Parser("NUMBER_OUTPUTS", 0, 0, 0, 0, FALSE)
  /\ changeAddress = None /\ changeAccepted = FALSE /\ multipleOutput = FALSE
  /\ authorizationHash = None
  /\ screen = NoScreen
  /\ up = TRUE
  /\ confirmed = {} /\ disorder = {} /\ marked = FALSE
  /\ warned = {} /\ approved = None /\ sealed = FALSE
  /\ signed = {}

\* The device takes a command only when no screen waits for its answer.
Listening == up /\ screen = NoScreen

ScreenIs(name) == up /\ screen.name = name

-----------------------------------------------------------------------------
\* HASH_INPUT_START, first block.

\* What every first block does before anything else.
StartPrelude ==
  /\ parser' = ParserReset(parser)
  /\ parseMode' = "SIGNATURE"
  /\ confirmed' = {} /\ disorder' = {} /\ marked' = FALSE

\* Mutant: the change path of the previous session stays.
MasterResetKeepsChange ==
  /\ firstSigned' = TRUE
  /\ changeAccepted' = TRUE /\ multipleOutput' = FALSE
  /\ warned' = {} /\ approved' = None /\ sealed' = FALSE
  /\ UNCHANGED changeAddress

\* P2_NEW: "Master transaction reset".
MasterReset ==
  /\ firstSigned' = TRUE
  /\ changeAddress' = None /\ changeAccepted' = TRUE /\ multipleOutput' = FALSE
  /\ warned' = {} /\ approved' = None /\ sealed' = FALSE

\* P2_CONTINUE: the next input of the transaction already reviewed.
KeepSession == UNCHANGED <<firstSigned, change, warned, approved, sealed>>

\* transaction_parse in state NONE: the version and the number of inputs.
BeginTransaction(t) ==
  /\ transactionAmount' = 0
  /\ hashed' = [tx |-> t, inputs |-> 0, outputs |-> 0]
  /\ transactionState' = IF t.inputs = <<>> THEN "PRESIGN_READY" ELSE "PARSING"

\* The block carries the version and the number of inputs.
StartFirst(new, t) ==
  /\ Listening
  /\ StartPrelude
  /\ IF new THEN MasterReset /\ relaxed' = FALSE /\ consumeP2SH' = FALSE
            ELSE KeepSession /\ UNCHANGED <<relaxed, consumeP2SH>>
  /\ BeginTransaction(t)
  /\ UNCHANGED <<authorizationHash, screen, up, signed>>

\* The first block is refused: the PIN is locked or P2 is wrong (the session
\* is left as it was), or it is too short or malformed (after the reset).
StartFirstRefused(new) ==
  /\ Listening
  /\ StartPrelude
  /\ transactionState' = "NONE"
  /\ \/ KeepSession /\ UNCHANGED <<relaxed, consumeP2SH>>
     \/ new /\ MasterReset /\ relaxed' = FALSE /\ consumeP2SH' = FALSE
  /\ UNCHANGED <<transactionAmount, hashed, authorizationHash, screen, up, signed>>

\* HASH_INPUT_START, next block: one input with its script and sequence.
\* (Once the inputs are complete the block is not looked at.)
\* A sum of trusted amounts that overflows fails the parse.  An input sent
\* without its script leaves consumeP2SH alone.  What a failed parse leaves in
\* the hash contexts and, short of an overflow, in the amount is not modelled:
\* the block that begins the next transaction initializes them.
StartNext ==
  /\ Listening
  /\ parseMode = "SIGNATURE"
  /\ transactionState = "PARSING"
  /\ LET t == hashed.tx
         n == hashed.inputs + 1
         in == t.inputs[n]
     IN  /\ IF in.trusted /\ transactionAmount + in.amount >= AmountSpan
              THEN /\ transactionState' = "NONE"
                   /\ transactionAmount' = AddAmount(transactionAmount, in.amount)
                   /\ UNCHANGED <<hashed, relaxed, consumeP2SH>>
              ELSE /\ transactionState' = IF n = Len(t.inputs) THEN "PRESIGN_READY" ELSE "PARSING"
                   /\ hashed' = [hashed EXCEPT !.inputs = n]
                   /\ relaxed' = (relaxed \/ ~in.trusted)
                   /\ transactionAmount' = IF in.trusted THEN transactionAmount + in.amount
                                                         ELSE transactionAmount
                   /\ consumeP2SH' = t.multisig \/ consumeP2SH' = consumeP2SH
  /\ UNCHANGED <<parseMode, firstSigned, parser, change, authorizationHash, screen, up, history>>

\* In state NONE a next block begins a transaction, without the resets of a
\* first one: the output parser keeps what it was left with, the session its flags.
StartWithoutFirst(t) ==
  /\ Listening
  /\ parseMode = "SIGNATURE"
  /\ transactionState = "NONE"
  /\ BeginTransaction(t)
  /\ confirmed' = {} /\ disorder' = {"next"} /\ marked' = FALSE
  /\ UNCHANGED <<parseMode, firstSigned, relaxed, consumeP2SH, parser, change,
                 authorizationHash, screen, up, warned, approved, sealed, signed>>

\* A next block that does not parse, or that comes in the wrong mode.
StartNextRefused ==
  /\ Listening
  /\ \/ /\ parseMode = "SIGNATURE"
        /\ transactionState \in {"NONE", "PARSING"}
        /\ relaxed' \in {relaxed, TRUE}
        /\ consumeP2SH' \in BOOLEAN
        /\ UNCHANGED parseMode
     \/ /\ parseMode # "SIGNATURE"
        /\ parseMode' = "none"
        /\ UNCHANGED <<relaxed, consumeP2SH>>
  /\ transactionState' = "NONE"
  /\ UNCHANGED <<firstSigned, transactionAmount, hashed, parser, change,
                 authorizationHash, screen, up, history>>

-----------------------------------------------------------------------------
\* HASH_INPUT_FINALIZE_FULL.

\* Every error of the command: the transaction is dropped, the parser reset.
DiscardTransaction ==
  /\ transactionState' = "NONE"
  /\ parser' = ParserReset(parser)

FinalizeOutOfState ==
  /\ Listening
  /\ transactionState # "PRESIGN_READY"
  /\ DiscardTransaction
  /\ UNCHANGED <<parseMode, flags, hashed, change, authorizationHash, screen, up, history>>

\* CHANGEINFO, at any time before the review has passed.  An unusual path needs
\* the user's approval before the change output may be hidden, and its screen
\* sets the parser back to the number of outputs.
SetChangePath(path) ==
  /\ Listening
  /\ transactionState = "PRESIGN_READY"
  /\ firstSigned /\ changeAccepted
  /\ authorizationHash' = None
  /\ changeAddress' = path
  /\ IF path \in UnusualPaths
       THEN /\ changeAccepted' = FALSE
            /\ parser' = InState(parser, "NUMBER_OUTPUTS")
            /\ screen' = ChangePathScreen
       ELSE /\ changeAccepted' = TRUE
            /\ UNCHANGED <<parser, screen>>
  /\ disorder' = disorder \cup (IF hashed.outputs = 0 THEN {} ELSE {"change"})
  /\ UNCHANGED <<transactionState, parseMode, flags, hashed, multipleOutput, up,
                 confirmed, marked, warned, approved, sealed, signed>>

\* CHANGEINFO with no path, an unreadable one, or when a path was refused.
\* (Once the review has passed the command is a no-op.)
ChangePathRefused ==
  /\ Listening
  /\ transactionState = "PRESIGN_READY"
  /\ firstSigned
  /\ \/ /\ ~changeAccepted
        /\ DiscardTransaction
        /\ UNCHANGED authorizationHash
     \/ /\ changeAccepted
        /\ authorizationHash' = None
        /\ \/ UNCHANGED <<transactionState, parser>>
           \/ DiscardTransaction
  /\ UNCHANGED <<parseMode, flags, hashed, change, screen, up, history>>

\* A block of n units of outputs while the transaction awaits its review.
\* The block is absorbed by the hashes before anything is looked at.
Absorb(n) == [hashed EXCEPT !.outputs = @ + n]

Buffered(n) ==
  Parser(parser.outputParsingState, parser.currentOutputOffset + n, parser.remainingOutputs,
         parser.totalOutputs, parser.totalOutputAmount, parser.changeOutputFound)

\* Mutants: the hash is computed before the block is absorbed, or stored by
\* MORE instead of LAST.
EndBlockTooEarly(last, content) ==
  IF last THEN authorizationHash' = hashed /\ UNCHANGED multipleOutput
          ELSE multipleOutput' = TRUE /\ UNCHANGED authorizationHash
EndBlockOnMore(last, content) ==
  IF last THEN UNCHANGED <<authorizationHash, multipleOutput>>
          ELSE multipleOutput' = TRUE /\ authorizationHash' = content

\* LAST stores the hash the next inputs are held to, before the user answers.
EndBlock(last, content) ==
  IF last THEN authorizationHash' = content /\ UNCHANGED multipleOutput
          ELSE multipleOutput' = TRUE /\ UNCHANGED authorizationHash

\* The fees cannot be shown: the command fails, but the parser is not reset.
FinalizeOrFail(p) ==
  IF FeesConsistent(p.totalOutputAmount)
    THEN /\ screen' = FinalizeScreen(p.totalOutputAmount)
         /\ UNCHANGED transactionState
    ELSE /\ transactionState' = "NONE"
         /\ UNCHANGED screen

\* How a block that brings the pass to `units` units departs from the order.
BlockDepartures(last, units) ==
  {d \in {"number", "early", "beyond"} :
     \/ d = "number" /\ units < CountUnits
     \/ d = "early" /\ last /\ units < StreamUnits(hashed.tx)
     \/ d = "beyond" /\ units > StreamUnits(hashed.tx)}

\* The whole transaction on one screen, asked for by LAST alone.
ReviewFull(last, n, t) ==
  /\ last /\ ~multipleOutput
  /\ FullOutputReviewable(Buffered(n), t)
  /\ parser' = FullOutputParser(Buffered(n))
  /\ screen' = FullOutputScreen(t)
  /\ EndBlock(last, Absorb(n))
  /\ UNCHANGED transactionState

\* Output by output.  The parser may refuse whatever it misreads.
ReviewSingle(last, n, s) ==
  LET r == ParseOutputs(Buffered(n), s.tx, s.units)
  IN  \/ /\ r.outcome = "throw" \/ Misread(disorder')
         /\ DiscardTransaction
         /\ UNCHANGED <<authorizationHash, multipleOutput, screen>>
      \/ /\ r.outcome = "display"
         /\ parser' = r.parser
         /\ screen' = SingleOutputScreen(r.parser, s.units)
         /\ EndBlock(last, Absorb(n))
         /\ UNCHANGED transactionState
      \/ /\ r.outcome = "wait" /\ r.parser.remainingOutputs # 0
         /\ parser' = r.parser
         /\ EndBlock(last, Absorb(n))
         /\ UNCHANGED <<transactionState, screen>>
      \/ /\ r.outcome = "wait" /\ r.parser.remainingOutputs = 0
         /\ parser' = InState(r.parser, "FINALIZE_TX")
         /\ FinalizeOrFail(r.parser)
         /\ EndBlock(last, Absorb(n))

ReviewOutputs(last, n) ==
  LET p == Buffered(n)
  IN  \/ \E t \in FullReadings(p, disorder') : ReviewFull(last, n, t)
      \/ /\ \/ ~last \/ multipleOutput
            \/ \E t \in FullReadings(p, disorder') : ~FullOutputReviewable(p, t)
         /\ \E s \in Readings(p, hashed.outputs + n, disorder') : ReviewSingle(last, n, s)

\* Any block, MORE or LAST, wherever it ends: it is hashed before it is looked at.
FinalizeFirst(last, n) ==
  /\ Listening
  /\ transactionState = "PRESIGN_READY"
  /\ firstSigned
  /\ hashed' = Absorb(n)
  /\ disorder' = disorder \cup BlockDepartures(last, hashed.outputs + n)
  /\ marked' = last
  /\ IF parser.currentOutputOffset + n > BufferUnits
       THEN /\ DiscardTransaction
            /\ UNCHANGED <<authorizationHash, multipleOutput, screen>>
       ELSE ReviewOutputs(last, n)
  /\ UNCHANGED <<parseMode, flags, changeAddress, changeAccepted, up,
                 confirmed, warned, approved, sealed, signed>>

\* Mutant: the comparison is dropped.
MatchesAlways(content) == TRUE

\* The comparison with the authorization hash of the review.
MatchesReview(content) == content = authorizationHash

\* A block of outputs of a later input: hashed, not parsed.  LAST compares.
FinalizeNext(last, n) ==
  /\ Listening
  /\ transactionState = "PRESIGN_READY"
  /\ ~firstSigned
  /\ hashed' = Absorb(n)
  /\ IF last
       THEN /\ transactionState' = IF MatchesReview(Absorb(n)) THEN "SIGN_READY" ELSE "NONE"
            /\ parser' = ParserReset(parser)
            /\ UNCHANGED multipleOutput
       ELSE /\ multipleOutput' = TRUE
            /\ UNCHANGED <<transactionState, parser>>
  /\ UNCHANGED <<parseMode, flags, changeAddress, changeAccepted, authorizationHash,
                 screen, up, history>>

-----------------------------------------------------------------------------
\* The user's answers.

AcceptChangePath ==
  /\ ScreenIs("change_path")
  /\ changeAccepted' = TRUE
  /\ warned' = warned \cup {changeAddress}
  /\ screen' = NoScreen
  /\ UNCHANGED <<transactionState, parseMode, flags, hashed, parser, changeAddress,
                 multipleOutput, authorizationHash, up, pass, approved, sealed, signed>>

RejectChangePath ==
  /\ ScreenIs("change_path")
  /\ changeAddress' = None /\ changeAccepted' = FALSE /\ multipleOutput' = FALSE
  /\ transactionState' = "NONE"
  /\ parser' = InState(parser, "NUMBER_OUTPUTS")
  /\ screen' = NoScreen
  /\ UNCHANGED <<parseMode, flags, hashed, authorizationHash, up, history>>

\* Mutant: the accepted output is neither counted nor dropped.
AcceptedParserUnmoved(p, dropped) == p

\* The output just accepted is counted and, when more are to come, dropped.
AcceptedParser(p, dropped) ==
  Parser("OUTPUT", p.currentOutputOffset - dropped, p.remainingOutputs - 1,
         p.totalOutputs, p.totalOutputAmount, p.changeOutputFound)

\* No handler stands above the callback: an exception ends the application.
AppExits ==
  /\ up' = FALSE
  /\ screen' = NoScreen
  /\ UNCHANGED <<transactionState, parser>>

\* What follows an accepted output: the next one, the wait for more, or the end.
AfterAccept(r, units) ==
  \/ r.outcome = "throw" /\ AppExits
  \/ /\ r.outcome = "display"
     /\ parser' = r.parser
     /\ screen' = SingleOutputScreen(r.parser, units)
     /\ UNCHANGED <<transactionState, up>>
  \/ /\ r.outcome = "wait" /\ r.parser.remainingOutputs # 0
     /\ parser' = r.parser
     /\ screen' = NoScreen
     /\ UNCHANGED <<transactionState, up>>
  \/ /\ r.outcome = "wait" /\ r.parser.remainingOutputs = 0
     /\ IF FeesConsistent(r.parser.totalOutputAmount)
          THEN /\ parser' = InState(r.parser, "FINALIZE_TX")
               /\ screen' = FinalizeScreen(r.parser.totalOutputAmount)
               /\ UNCHANGED transactionState
          ELSE /\ DiscardTransaction
               /\ screen' = NoScreen
     /\ UNCHANGED up

\* btchip_bagl_user_action(1) on a single output.  The confirmed output is
\* dropped from the buffer only if more outputs are expected.
AcceptOutput ==
  /\ ScreenIs("single_output")
  /\ confirmed' = confirmed \cup {screen.output}
  /\ IF parser.remainingOutputs - 1 = 0
       THEN AfterAccept([outcome |-> "wait", parser |-> AcceptedParser(parser, 0)], hashed.outputs)
       ELSE LET p == AcceptedParser(parser, OutputUnits)
            IN  \E s \in Readings(p, hashed.outputs, disorder) :
                  \/ AfterAccept(ParseOutputs(p, s.tx, s.units), s.units)
                  \/ Misread(disorder) /\ AppExits
  /\ UNCHANGED <<parseMode, flags, hashed, change, authorizationHash, disorder, marked,
                 warned, approved, sealed, signed>>

\* btchip_bagl_user_action(1) on the last screen: the transaction may be signed.
AcceptTransaction ==
  /\ ScreenIs("finalize") \/ ScreenIs("full_output")
  /\ firstSigned' = FALSE
  /\ transactionState' = "SIGN_READY"
  /\ parser' = ParserReset(parser)
  /\ confirmed' = IF screen.name = "full_output" THEN confirmed \cup {screen.output} ELSE confirmed
  /\ approved' = hashed /\ sealed' = marked
  /\ screen' = NoScreen
  /\ UNCHANGED <<parseMode, relaxed, consumeP2SH, transactionAmount, hashed, change,
                 authorizationHash, up, disorder, marked, warned, signed>>

\* btchip_bagl_user_action(0)
RejectTransaction ==
  /\ ScreenIs("single_output") \/ ScreenIs("finalize") \/ ScreenIs("full_output")
  /\ DiscardTransaction
  /\ screen' = NoScreen
  /\ UNCHANGED <<parseMode, flags, hashed, change, authorizationHash, up, history>>

-----------------------------------------------------------------------------
\* HASH_SIGN: whatever happens, the transaction is dropped.
Sign ==
  /\ Listening
  /\ transactionState = "SIGN_READY"
  /\ transactionState' = "NONE"
  /\ signed' = signed \cup {hashed}
  /\ UNCHANGED <<parseMode, flags, hashed, parser, change, authorizationHash, screen, up,
                 pass, warned, approved, sealed>>

SignRefused ==
  /\ Listening
  /\ transactionState' = "NONE"
  /\ UNCHANGED <<parseMode, flags, hashed, parser, change, authorizationHash, screen, up, history>>

-----------------------------------------------------------------------------
\* The commands that share RAM with the session.

\* GET_TRUSTED_INPUT runs another transaction through the same parser.
TrustedInputFirst ==
  /\ Listening
  /\ parseMode' = "TRUSTED_INPUT"
  /\ transactionState' \in {"NONE", "PARSING"}
  /\ consumeP2SH' \in BOOLEAN
  /\ transactionAmount' = 0
  /\ hashed' = None
  /\ UNCHANGED <<firstSigned, relaxed, parser, change, authorizationHash, screen, up, history>>

TrustedInputNext ==
  /\ Listening
  /\ IF parseMode = "TRUSTED_INPUT"
       THEN /\ transactionState' \in {"NONE", "PARSING"}
            /\ consumeP2SH' \in BOOLEAN
            /\ UNCHANGED parseMode
       ELSE /\ transactionState' = "NONE"
            /\ parseMode' = "none"
            /\ UNCHANGED consumeP2SH
  /\ UNCHANGED <<firstSigned, relaxed, transactionAmount, hashed, parser, change, authorizationHash, screen, up, history>>

\* SIGN_MESSAGE wipes transactionSummary: its first block, each of its errors
\* and the answer to its screen.
SignMessage ==
  /\ Listening
  /\ authorizationHash' = None
  /\ UNCHANGED <<transactionState, parseMode, flags, hashed, parser, change, screen, up, history>>

-----------------------------------------------------------------------------
\* An IO reset, or a power cycle, at any moment.
IoReset == up /\ RamZeroed /\ UNCHANGED <<up, signed>>

\* The application is launched again after it exited.
Launch == ~up /\ up' = TRUE /\ RamZeroed /\ UNCHANGED signed

HashInputStart ==
  \/ \E new \in BOOLEAN : StartFirstRefused(new) \/ \E t \in Txs : StartFirst(new, t)
  \/ StartNext
  \/ \E t \in Txs : StartWithoutFirst(t)
  \/ StartNextRefused

HashInputFinalizeFull ==
  \/ FinalizeOutOfState
  \/ \E path \in Paths : SetChangePath(path)
  \/ ChangePathRefused
  \/ \E last \in BOOLEAN, n \in 1..BufferUnits + 1 : FinalizeFirst(last, n) \/ FinalizeNext(last, n)

HashSign == Sign \/ SignRefused

OtherCommands == TrustedInputFirst \/ TrustedInputNext \/ SignMessage

UserAnswers ==
  \/ AcceptChangePath \/ RejectChangePath
  \/ AcceptOutput \/ AcceptTransaction \/ RejectTransaction

Next ==
  \/ HashInputStart \/ HashInputFinalizeFull \/ HashSign \/ OtherCommands
  \/ UserAnswers
  \/ IoReset \/ Launch

Spec == Init /\ [][Next]_vars

\* The user answers a screen sooner or later; nothing is asked of the host.
FairSpec == Spec /\ WF_vars(UserAnswers)

-----------------------------------------------------------------------------
\* Properties.

WholeTx(t) == [tx |-> t, inputs |-> Len(t.inputs), outputs |-> StreamUnits(t)]

\* When HASH_SIGN would sign after an approval that a LAST block had sealed, the
\* hash contexts hold what the user approved, whatever the host sent since: no
\* later input of another transaction and nothing rejected or unreviewed gets
\* here (the authorization hash test of btchip_apdu_hash_input_finalize_full).
SignReadyApproved ==
  transactionState = "SIGN_READY" /\ sealed => hashed = approved

\* "Check that the input being signed is part of the same transaction, otherwise
\* abort" (btchip_apdu_hash_input_finalize_full.c:389): the same, of a host that
\* may end the outputs with a MORE block.
SignReadyReviewed == transactionState = "SIGN_READY" => hashed = approved

\* "an intermediary hash of the txId that will be checked for each successive
\* inputs to sign" (btchip_apdu_hash_input_finalize_full.c:362): from the screens
\* that follow a LAST block to the last of them, whatever happened before it,
\* the stored authorization hash is that of what is under review.
ReviewedHashStored ==
  screen.name \in {"single_output", "finalize", "full_output"} /\ marked =>
    authorizationHash = hashed

\* On the screen that ends a review in order every output of the transaction
\* was shown and accepted, or is shown now, except a single one that pays to the
\* change address; nothing of the transaction is still to come.
HiddenOutputs == {i \in DOMAIN hashed.tx.outputs : i \notin confirmed \cup {screen.output}}

ReviewCovered ==
  screen.name \in {"finalize", "full_output"} /\ disorder = {} =>
    /\ hashed = WholeTx(hashed.tx)
    /\ \A i \in HiddenOutputs : IsChange(hashed.tx.outputs[i])
    /\ Cardinality(HiddenOutputs) <= 1

\* The fees on the screen that ends a review in order are the inputs less all the
\* outputs, hidden change included, whatever the blocks the outputs came in;
\* a figure is never shown when the amount of an input is not trusted.
ExactFees(t) ==
  SumFunction([i \in DOMAIN t.inputs |-> t.inputs[i].amount])
    - SumFunction([i \in DOMAIN t.outputs |-> t.outputs[i].amount])

FeesAddUp ==
  screen.name \in {"finalize", "full_output"} /\ screen.fees # None /\ disorder = {} =>
    /\ \A i \in DOMAIN hashed.tx.inputs : hashed.tx.inputs[i].trusted
    /\ screen.fees = ExactFees(hashed.tx)
    /\ screen.fees >= 0

\* "Error : Fees not consistent" (prepare_fees, ui_shared.c:151): a review
\* whose outputs exceed its inputs, as numbers without a width, ends in an
\* error and never on a screen that gives fees.
OutputsCovered ==
  screen.name \in {"finalize", "full_output"} /\ screen.fees # None /\ disorder = {} =>
    ExactFees(hashed.tx) >= 0

\* The number a single-output screen gives (totalOutputs - remainingOutputs + 1)
\* is the place in the transaction of the output it shows, so that the count
\* of remaining outputs and the bytes left in the buffer never drift apart in a
\* pass in order.
OutputNumbering ==
  screen.name = "single_output" /\ disorder = {} =>
    /\ screen.output = parser.totalOutputs - parser.remainingOutputs + 1
    /\ screen.output \in DOMAIN hashed.tx.outputs
    /\ screen.output \notin confirmed

\* An output may be hidden as change to an unusual path only after the user
\* accepted that very path in this session.
UnusualChangeWarned ==
  changeAccepted /\ changeAddress \in UnusualPaths => changeAddress \in warned

\* The bytes waiting in currentOutput were received for the transaction being
\* hashed: nothing of an abandoned transaction is left to be parsed, unless the
\* transaction was begun by a next block, which resets nothing.
BufferIsFresh ==
  transactionState = "PRESIGN_READY" /\ "next" \notin disorder =>
    parser.currentOutputOffset <= hashed.outputs

\* The signing contract: of everything the device could sign, only what the user
\* approved last and what the authorization hash was offered for before.
Offered == IF authorizationHash = None THEN {} ELSE {authorizationHash}

Authorized ==
  (IF firstSigned THEN {} ELSE Offered)
    \cup (IF transactionState = "SIGN_READY" THEN {hashed} ELSE {})

Contract == INSTANCE SigningContract
              WITH Content <- Contents, offered <- Offered, authorized <- Authorized

SigningContractHolds == Contract!Spec

\* Every review ends: a chain of screens leads back to a device that takes
\* commands (or to an exit), whatever the outputs are.
ReviewEnds == screen # NoScreen ~> screen = NoScreen
=============================================================================
