---------------------------- MODULE SignTxProofs ----------------------------
(***************************************************************************)
(* Proofs about SignTx, for every set of transactions and paths, every     *)
(* buffer size, every amount and every host: its types, the buffer, the    *)
(* authorization and its contract, and what the review of a transaction in *)
(* order guarantees: the screens cover the outputs and the fees are right. *)
(* Then the calls of the host library (SigningHost), which keep the order. *)
(***************************************************************************)
EXTENDS SigningHost, Induction, SequenceTheorems

-----------------------------------------------------------------------------
\* Type correctness.  It is not inductive alone: the transaction being hashed
\* exists only in some states of the parser.

\* While the inputs of a transaction to sign are parsed, one is still missing.
InputsPending ==
  parseMode = "SIGNATURE" /\ transactionState = "PARSING" =>
    /\ hashed \in Contents
    /\ hashed.inputs < Len(hashed.tx.inputs)
    /\ hashed.outputs = 0

\* Past the inputs, the hash holds all of them.
InputsHashed ==
  transactionState \in {"PRESIGN_READY", "SIGN_READY"} =>
    /\ hashed \in Contents
    /\ hashed.inputs = Len(hashed.tx.inputs)

\* A screen is up only during the review of a transaction.
ScreenInReview ==
  screen # NoScreen =>
    /\ transactionState = "PRESIGN_READY"
    /\ firstSigned
    /\ screen.name = "change_path" => changeAddress \in Paths

TypeInv == TypeOK /\ InputsPending /\ InputsHashed /\ ScreenInReview

\* A transaction of Txs, part by part.
LEMMA TxTypes ==
  ASSUME NEW t \in Txs
  PROVE  /\ t.inputs \in Seq([amount : Nat, trusted : BOOLEAN])
         /\ t.outputs \in Seq([script : Scripts, amount : Nat])
         /\ t.multisig \in BOOLEAN
         /\ Len(t.inputs) \in Nat /\ Len(t.outputs) \in Nat
         /\ StreamUnits(t) \in Nat
         /\ CountUnits \in {1, 2} /\ AmountSpan \in Nat \ {0}
  <1>1. /\ t.inputs \in Seq([amount : Nat, trusted : BOOLEAN])
        /\ t.outputs \in Seq([script : Scripts, amount : Nat])
        /\ t.multisig \in BOOLEAN
        /\ CountUnits \in {1, 2} /\ AmountSpan \in Nat \ {0}
    BY SignTxAssumption DEF SignTxAssumption
  <1>2. Len(t.inputs) \in Nat /\ Len(t.outputs) \in Nat
    BY <1>1
  <1>3. StreamUnits(t) \in Nat
    BY <1>1, <1>2 DEF StreamUnits, OutputUnits
  <1>4. QED
    BY <1>1, <1>2, <1>3

\* Amounts never leave the naturals.
LEMMA AddAmountType ==
  ASSUME NEW a \in Nat, NEW b \in Nat
  PROVE  AddAmount(a, b) \in Nat
  BY SignTxAssumption DEF SignTxAssumption, AddAmount

\* An element of a sequence is of the sequence's type.
LEMMA ElementType ==
  ASSUME NEW S, NEW s \in Seq(S), NEW i \in DOMAIN s
  PROVE  s[i] \in S
  OBVIOUS

\* Any place of the output stream reads as an output, garbage beyond the end.
LEMMA OutputAtType ==
  ASSUME NEW t \in Txs, NEW i \in Int
  PROVE  /\ OutputAt(t, i) \in [script : Scripts, amount : Nat]
         /\ OutputAt(t, i).amount \in Nat
  <1>1. CASE i \in DOMAIN t.outputs
    <2>1. t.outputs \in Seq([script : Scripts, amount : Nat])
      BY TxTypes
    <2>2. t.outputs[i] \in [script : Scripts, amount : Nat]
      BY <1>1, <2>1, ElementType
    <2>3. QED
      BY <1>1, <2>2 DEF OutputAt
  <1>2. CASE i \notin DOMAIN t.outputs
    BY <1>2 DEF OutputAt, Garbage, Scripts
  <1>3. QED
    BY <1>1, <1>2

\* The total of the one-screen review is an amount.
LEMMA FullOutputAmountType ==
  ASSUME NEW t \in Txs
  PROVE  FullOutputAmount(t) \in Nat
  <1>1. /\ OutputAt(t, 1).amount \in Nat
        /\ OutputAt(t, 2).amount \in Nat
        /\ OutputAt(t, 3).amount \in Nat
    <2>1. 1 \in Int /\ 2 \in Int /\ 3 \in Int
      OBVIOUS
    <2>2. QED
      BY <2>1, OutputAtType
  <1>2. AddAmount(OutputAt(t, 1).amount, OutputAt(t, 2).amount) \in Nat
    BY <1>1, AddAmountType
  <1>3. AddAmount(AddAmount(OutputAt(t, 1).amount, OutputAt(t, 2).amount),
                  OutputAt(t, 3).amount) \in Nat
    BY <1>1, <1>2, AddAmountType
  <1>4. QED
    BY <1>3 DEF FullOutputAmount

ParsingStates == {"NONE", "NUMBER_OUTPUTS", "OUTPUT", "FINALIZE_TX", "HANDLE_LEGACY"}

\* A parser built from typed parts is a parser.
LEMMA ParserType ==
  ASSUME NEW state \in ParsingStates, NEW position \in Int, NEW remaining \in Int,
         NEW total \in Nat, NEW amount \in Nat, NEW found \in BOOLEAN
  PROVE  Parser(state, position, remaining, total, amount, found) \in Parsers
  BY DEF ParsingStates, Parser, Parsers

\* The parts of a parser.
LEMMA ParserFields ==
  ASSUME NEW p \in Parsers
  PROVE  /\ p.outputParsingState \in ParsingStates
         /\ p.currentOutputOffset \in Int /\ p.remainingOutputs \in Int
         /\ p.totalOutputs \in Nat /\ p.totalOutputAmount \in Nat
         /\ p.changeOutputFound \in BOOLEAN
  BY DEF ParsingStates, Parsers

\* The number of the output at the head of the buffer is an integer.
LEMMA HeadOutputType ==
  ASSUME NEW p \in Parsers, NEW units \in Int
  PROVE  HeadOutput(p, units) \in Int
  BY SignTxAssumption DEF SignTxAssumption, HeadOutput, Parsers, OutputUnits

\* One turn of handle_output_state keeps the parser well typed.
Outcomes == {"wait", "processed", "display", "throw"}

\* One turn of handle_output_state leaves a parser.
LEMMA HandleOutputStateType ==
  ASSUME NEW p \in Parsers, NEW t \in Txs, NEW units \in Int
  PROVE  /\ HandleOutputState(p, t, units).parser \in Parsers
         /\ HandleOutputState(p, t, units).outcome \in Outcomes
  <1>0. "NUMBER_OUTPUTS" \in ParsingStates /\ "OUTPUT" \in ParsingStates
    BY DEF ParsingStates
  <1>1. /\ ParseNumber(p, t).parser \in Parsers
        /\ ParseNumber(p, t).outcome \in Outcomes
    <2>1. Len(t.outputs) \in Nat /\ CountUnits \in Int /\ 0 \in Nat /\ Len(t.outputs) \in Int
      BY TxTypes
    <2>2. p.currentOutputOffset - CountUnits \in Int
      BY <2>1, ParserFields
    <2>3. Parser("NUMBER_OUTPUTS", p.currentOutputOffset, p.remainingOutputs, 0,
                 p.totalOutputAmount, p.changeOutputFound) \in Parsers
      BY <1>0, <2>1, ParserFields, ParserType
    <2>4. Parser("OUTPUT", p.currentOutputOffset - CountUnits, Len(t.outputs), Len(t.outputs),
                 p.totalOutputAmount, p.changeOutputFound) \in Parsers
      BY <1>0, <2>1, <2>2, ParserFields, ParserType
    <2>5. QED
      BY <2>3, <2>4 DEF ParseNumber, Outcomes
  <1>2. /\ ParseOutput(p, t, units).parser \in Parsers
        /\ ParseOutput(p, t, units).outcome \in Outcomes
    <2> DEFINE o == OutputAt(t, HeadOutput(p, units))
    <2>1. HeadOutput(p, units) \in Int
      BY HeadOutputType
    <2>2. o.amount \in Nat
      BY <2>1, OutputAtType
    <2>3. AddAmount(p.totalOutputAmount, o.amount) \in Nat
      BY <2>2, ParserFields, AddAmountType
    <2>4. p.currentOutputOffset - 0 \in Int /\ p.remainingOutputs - 0 \in Int
          /\ p.currentOutputOffset - OutputUnits \in Int /\ p.remainingOutputs - 1 \in Int
      BY ParserFields DEF OutputUnits
    <2> HIDE DEF o
    <2>5. CountOutput(p, o, 0, 0, p.changeOutputFound) \in Parsers
      BY <1>0, <2>3, <2>4, ParserFields, ParserType DEF CountOutput
    <2>6. CountOutput(p, o, OutputUnits, 1, TRUE) \in Parsers
      BY <1>0, <2>3, <2>4, ParserFields, ParserType DEF CountOutput
    <2>7. QED
      BY <2>5, <2>6 DEF ParseOutput, Outcomes, o
  <1>3. QED
    BY <1>1, <1>2 DEF HandleOutputState, Outcomes

\* The loop around handle_output_state leaves a parser.
LEMMA ParseOutputsType ==
  ASSUME NEW p \in Parsers, NEW t \in Txs, NEW units \in Int
  PROVE  /\ ParseOutputs(p, t, units).parser \in Parsers
         /\ ParseOutputs(p, t, units).outcome \in Outcomes
  <1> DEFINE Again(r) == IF r.outcome = "processed"
                           THEN HandleOutputState(r.parser, t, units) ELSE r
             r1 == HandleOutputState(p, t, units)
             r2 == Again(r1)
             r3 == Again(r2)
  <1>1. r1.parser \in Parsers /\ r1.outcome \in Outcomes
    BY HandleOutputStateType
  <1> HIDE DEF r1
  <1>2. r2.parser \in Parsers /\ r2.outcome \in Outcomes
    BY <1>1, HandleOutputStateType
  <1> HIDE DEF r2
  <1>3. r3.parser \in Parsers /\ r3.outcome \in Outcomes
    BY <1>2, HandleOutputStateType
  <1>4. ParseOutputs(p, t, units) = r3
    BY DEF ParseOutputs, r1, r2
  <1>5. QED
    BY <1>3, <1>4

\* The reset leaves a parser.
LEMMA ParserResetType ==
  ASSUME NEW p \in Parsers
  PROVE  ParserReset(p) \in Parsers
  <1>1. "NUMBER_OUTPUTS" \in ParsingStates /\ 0 \in Nat /\ 0 \in Int
    BY DEF ParsingStates
  <1>2. QED
    BY <1>1, ParserFields, ParserType DEF ParserReset

\* A parser moved to another state is a parser.
LEMMA InStateType ==
  ASSUME NEW p \in Parsers, NEW state \in ParsingStates
  PROVE  InState(p, state) \in Parsers
  BY ParserFields, ParserType DEF InState

\* A transaction reviewed on one screen has its recipient.
LEMMA FullOutputScreenType ==
  ASSUME NEW p \in Parsers, NEW t \in Txs, TypeOK, FullOutputReviewable(p, t)
  PROVE  FullOutputScreen(t) \in Screens
  <1> DEFINE changes == {i \in DOMAIN t.outputs : IsChange(t.outputs[i])}
  <1>1. Len(t.outputs) - Cardinality(changes) = 1
    BY DEF FullOutputReviewable
  <1>2. DOMAIN t.outputs = 1..Len(t.outputs) /\ Len(t.outputs) \in Nat
    BY TxTypes
  <1>3. Cardinality(1..Len(t.outputs)) = Len(t.outputs)
    BY <1>2, FS_Interval
  <1>4. \E i \in DOMAIN t.outputs : ~IsChange(t.outputs[i])
    <2>1. SUFFICES ASSUME \A i \in DOMAIN t.outputs : IsChange(t.outputs[i])
                   PROVE FALSE
      OBVIOUS
    <2>2. changes = 1..Len(t.outputs)
      BY <2>1, <1>2
    <2> HIDE DEF changes
    <2>3. Cardinality(changes) = Len(t.outputs)
      BY <2>2, <1>3
    <2>4. QED
      BY <2>3, <1>1, <1>2
  <1>5. (CHOOSE i \in DOMAIN t.outputs : ~IsChange(t.outputs[i])) \in Int
    BY <1>4, <1>2
  <1>6. Fees(FullOutputAmount(t)) \in Int \cup {None}
    BY FullOutputAmountType DEF Fees, TypeOK
  <1>7. QED
    BY <1>5, <1>6 DEF FullOutputScreen, Screens

\* The screens the parser raises are screens.
LEMMA ScreenTypes ==
  ASSUME NEW p \in Parsers, NEW units \in Int, TypeOK
  PROVE  /\ SingleOutputScreen(p, units) \in Screens
         /\ SingleOutputScreen(p, units) # NoScreen
         /\ SingleOutputScreen(p, units).name = "single_output"
         /\ FinalizeScreen(p.totalOutputAmount) \in Screens
         /\ FinalizeScreen(p.totalOutputAmount) # NoScreen
         /\ FinalizeScreen(p.totalOutputAmount).name = "finalize"
         /\ NoScreen \in Screens
         /\ NoScreen.name = "none"
         /\ ChangePathScreen \in Screens
         /\ ChangePathScreen.name = "change_path"
  BY HeadOutputType
  DEF SingleOutputScreen, FinalizeScreen, Fees, NoScreen, ChangePathScreen,
      Screens, Parsers, TypeOK

-----------------------------------------------------------------------------
\* The type invariant holds at the start and after a reset.
LEMMA TypeInit ==
  ASSUME Init
  PROVE  TypeInv
  <1>1. "NUMBER_OUTPUTS" \in ParsingStates /\ 0 \in Nat /\ 0 \in Int
    BY DEF ParsingStates
  <1>2. Parser("NUMBER_OUTPUTS", 0, 0, 0, 0, FALSE) \in Parsers
    BY <1>1, ParserType
  <1>3. NoScreen \in Screens
    BY DEF NoScreen, Screens
  <1>4. QED
    BY <1>2, <1>3 DEF Init, TypeInv, TypeOK, InputsPending, InputsHashed, ScreenInReview

\* Zeroed RAM is well typed.
LEMMA TypeZeroed ==
  ASSUME TypeInv, RamZeroed, up' \in BOOLEAN, signed' = signed
  PROVE  TypeInv'
  <1>1. "NUMBER_OUTPUTS" \in ParsingStates /\ 0 \in Nat /\ 0 \in Int
    BY DEF ParsingStates
  <1>2. Parser("NUMBER_OUTPUTS", 0, 0, 0, 0, FALSE) \in Parsers
    BY <1>1, ParserType
  <1>3. NoScreen \in Screens
    BY DEF NoScreen, Screens
  <1>4. QED
    BY <1>2, <1>3
    DEF RamZeroed, TypeInv, TypeOK, InputsPending, InputsHashed, ScreenInReview

\* HASH_INPUT_START.
LEMMA TypeStartFirst ==
  ASSUME TypeInv, NEW new \in BOOLEAN, NEW t \in Txs, StartFirst(new, t)
  PROVE  TypeInv'
  <1>1. parser' \in Parsers
    BY ParserResetType DEF TypeInv, TypeOK, StartFirst, StartPrelude
  <1>2. hashed' \in Contents /\ hashed'.tx = t /\ hashed'.inputs = 0 /\ hashed'.outputs = 0
    BY DEF StartFirst, BeginTransaction, Contents
  <1>3. StreamUnits(t) \in Nat /\ StreamUnits(t) >= 0
        /\ Len(t.inputs) \in Nat
        /\ (t.inputs = <<>> <=> Len(t.inputs) = 0)
    BY TxTypes
  <1>4. /\ changeAddress' \in Paths \cup {None} /\ changeAccepted' \in BOOLEAN
        /\ multipleOutput' \in BOOLEAN /\ firstSigned' \in BOOLEAN /\ warned' \subseteq Paths
        /\ relaxed' \in BOOLEAN /\ consumeP2SH' \in BOOLEAN
        /\ approved' \in Contents \cup {None} /\ sealed' \in BOOLEAN
    BY DEF TypeInv, TypeOK, StartFirst, MasterReset, KeepSession, change
  <1>5. /\ screen = NoScreen /\ screen' = screen /\ parseMode' = "SIGNATURE"
        /\ confirmed' = {} /\ disorder' = {} /\ marked' = FALSE /\ transactionAmount' = 0
        /\ transactionState' = (IF t.inputs = <<>> THEN "PRESIGN_READY" ELSE "PARSING")
        /\ authorizationHash' = authorizationHash /\ up' = up
        /\ signed' = signed
    BY DEF StartFirst, StartPrelude, BeginTransaction, Listening
  <1>6. TypeOK'
    BY <1>1, <1>2, <1>4, <1>5 DEF TypeInv, TypeOK
  <1>7. QED
    BY <1>2, <1>3, <1>5, <1>6 DEF TypeInv, InputsPending, InputsHashed, ScreenInReview

\* A refused first block keeps the types.
LEMMA TypeStartFirstRefused ==
  ASSUME TypeInv, NEW new \in BOOLEAN, StartFirstRefused(new)
  PROVE  TypeInv'
  <1>1. parser' \in Parsers
    BY ParserResetType DEF TypeInv, TypeOK, StartFirstRefused, StartPrelude
  <1>2. /\ changeAddress' \in Paths \cup {None} /\ changeAccepted' \in BOOLEAN
        /\ multipleOutput' \in BOOLEAN /\ firstSigned' \in BOOLEAN /\ warned' \subseteq Paths
        /\ relaxed' \in BOOLEAN /\ consumeP2SH' \in BOOLEAN
        /\ approved' \in Contents \cup {None} /\ sealed' \in BOOLEAN
    BY DEF TypeInv, TypeOK, StartFirstRefused, MasterReset, KeepSession, change
  <1>3. QED
    BY <1>1, <1>2
    DEF TypeInv, TypeOK, InputsPending, InputsHashed, ScreenInReview,
        StartFirstRefused, StartPrelude, Listening

\* An input keeps the types: the amount stays a natural, the count of inputs in range.
LEMMA TypeStartNext ==
  ASSUME TypeInv, StartNext
  PROVE  TypeInv'
  <1> DEFINE t == hashed.tx
             n == hashed.inputs + 1
             in == t.inputs[n]
  <1>1. hashed \in Contents /\ hashed.inputs < Len(t.inputs) /\ hashed.outputs = 0
    BY DEF StartNext, TypeInv, InputsPending
  <1>2. t \in Txs /\ hashed.inputs \in Nat
    BY <1>1 DEF Contents
  <1>3. /\ t.inputs \in Seq([amount : Nat, trusted : BOOLEAN]) /\ Len(t.inputs) \in Nat
        /\ StreamUnits(t) \in Nat /\ t.multisig \in BOOLEAN
    BY <1>2, TxTypes
  <1>4. n \in DOMAIN t.inputs /\ n \in Nat /\ n <= Len(t.inputs)
    BY <1>1, <1>2, <1>3
  <1>5. in \in [amount : Nat, trusted : BOOLEAN]
    BY <1>3, <1>4, ElementType
  <1> HIDE DEF in
  <1>6. in.amount \in Nat /\ in.trusted \in BOOLEAN
    BY <1>5
  <1>7. [hashed EXCEPT !.inputs = n] \in Contents
        /\ [hashed EXCEPT !.inputs = n].inputs = n
        /\ [hashed EXCEPT !.inputs = n].tx = t
        /\ [hashed EXCEPT !.inputs = n].outputs = 0
    BY <1>1, <1>4 DEF Contents
  <1>8. /\ screen = NoScreen /\ screen' = screen
        /\ UNCHANGED <<parseMode, firstSigned, parser, change, authorizationHash, up, history>>
    BY DEF StartNext, Listening
  <1>9. \/ /\ transactionState' = "NONE"
           /\ transactionAmount' = AddAmount(transactionAmount, in.amount)
           /\ UNCHANGED <<hashed, relaxed, consumeP2SH>>
        \/ /\ transactionState' = IF n = Len(t.inputs) THEN "PRESIGN_READY" ELSE "PARSING"
           /\ hashed' = [hashed EXCEPT !.inputs = n]
           /\ relaxed' = (relaxed \/ ~in.trusted)
           /\ transactionAmount' = IF in.trusted THEN transactionAmount + in.amount
                                                 ELSE transactionAmount
           /\ consumeP2SH' = t.multisig \/ consumeP2SH' = consumeP2SH
    BY DEF StartNext, in
  <1> HIDE DEF n, t
  <1>a. relaxed \in BOOLEAN /\ consumeP2SH \in BOOLEAN /\ transactionAmount \in Nat
    BY DEF TypeInv, TypeOK
  <1>b. relaxed' \in BOOLEAN
    BY <1>9, <1>a, ZenonT(30)
  <1>c. consumeP2SH' \in BOOLEAN
    BY <1>9, <1>a, <1>3
  <1>d. transactionAmount' \in Nat
    <2>a. AddAmount(transactionAmount, in.amount) \in Nat
      BY <1>a, <1>6, AddAmountType
    <2>b. transactionAmount + in.amount \in Nat
      BY <1>a, <1>6
    <2>1. /\ transactionAmount + in.amount \in Nat
          /\ AddAmount(transactionAmount, in.amount) \in Nat
      BY <2>a, <2>b
    <2>2. QED
      BY <1>9, <1>a, <2>1, ZenonT(30)
  <1>10. CASE transactionState' = "NONE"
    <2>1. hashed' \in Contents
      BY <1>1, <1>7, <1>9
    <2>2. TypeOK'
      BY <2>1, <1>b, <1>c, <1>d, <1>8, <1>10 DEF TypeInv, TypeOK, change, history, pass
    <2>3. QED
      BY <2>2, <1>8, <1>10
      DEF TypeInv, InputsPending, InputsHashed, ScreenInReview
  <1>11. CASE transactionState' # "NONE"
    <2>1. /\ transactionState' = IF n = Len(t.inputs) THEN "PRESIGN_READY" ELSE "PARSING"
          /\ hashed' = [hashed EXCEPT !.inputs = n]
      BY <1>9, <1>11
    <2>3. hashed' \in Contents /\ hashed'.inputs = n /\ hashed'.tx = t /\ hashed'.outputs = 0
      BY <2>1, <1>7
    <2>4. TypeOK'
      BY <2>1, <2>3, <1>b, <1>c, <1>d, <1>8 DEF TypeInv, TypeOK, change, history, pass
    <2>5. QED
      BY <2>1, <2>3, <2>4, <1>3, <1>4, <1>8
      DEF TypeInv, InputsPending, InputsHashed, ScreenInReview
  <1>12. QED
    BY <1>10, <1>11

\* A transaction begun by a next block keeps the types.
LEMMA TypeStartWithoutFirst ==
  ASSUME TypeInv, NEW t \in Txs, StartWithoutFirst(t)
  PROVE  TypeInv'
  <1>1. hashed' \in Contents /\ hashed'.tx = t /\ hashed'.inputs = 0 /\ hashed'.outputs = 0
    BY DEF StartWithoutFirst, BeginTransaction, Contents
  <1>2. /\ StreamUnits(t) \in Nat /\ Len(t.inputs) \in Nat
        /\ (t.inputs = <<>> <=> Len(t.inputs) = 0)
    BY TxTypes
  <1>3. /\ screen = NoScreen /\ screen' = screen
        /\ confirmed' = {} /\ disorder' = {"next"} /\ marked' = FALSE /\ transactionAmount' = 0
        /\ transactionState' = (IF t.inputs = <<>> THEN "PRESIGN_READY" ELSE "PARSING")
    BY DEF StartWithoutFirst, BeginTransaction, Listening
  <1>4. TypeOK'
    BY <1>1, <1>3 DEF StartWithoutFirst, TypeInv, TypeOK, change, Departures
  <1>5. QED
    BY <1>1, <1>2, <1>3, <1>4 DEF TypeInv, InputsPending, InputsHashed, ScreenInReview

\* A refused next block keeps the types.
LEMMA TypeStartNextRefused ==
  ASSUME TypeInv, StartNextRefused
  PROVE  TypeInv'
  <1>1. /\ relaxed' \in BOOLEAN /\ consumeP2SH' \in BOOLEAN
        /\ parseMode' \in {"none", "SIGNATURE"}
    BY DEF StartNextRefused, TypeInv, TypeOK
  <1>2. /\ transactionState' = "NONE" /\ screen = NoScreen /\ screen' = screen
        /\ UNCHANGED <<firstSigned, transactionAmount, hashed, parser, change,
                       authorizationHash, up, history>>
    BY DEF StartNextRefused, Listening
  <1>3. TypeOK'
    BY <1>1, <1>2 DEF TypeInv, TypeOK, change, history, pass
  <1>4. QED
    BY <1>2, <1>3 DEF TypeInv, InputsPending, InputsHashed, ScreenInReview

\* HASH_INPUT_FINALIZE_FULL, short of the review of a block.
LEMMA TypeFinalizeOutOfState ==
  ASSUME TypeInv, FinalizeOutOfState
  PROVE  TypeInv'
  BY ParserResetType
  DEF FinalizeOutOfState, DiscardTransaction, TypeInv, TypeOK, InputsPending, InputsHashed,
      ScreenInReview, Listening, flags, change, history, pass

\* A change path keeps the types.
LEMMA TypeSetChangePath ==
  ASSUME TypeInv, NEW path \in Paths, SetChangePath(path)
  PROVE  TypeInv'
  <1>1. parser' \in Parsers
    BY InStateType DEF SetChangePath, TypeInv, TypeOK, ParsingStates
  <1>2. /\ ChangePathScreen \in Screens /\ NoScreen \in Screens
        /\ ChangePathScreen.name = "change_path"
    BY DEF ChangePathScreen, NoScreen, Screens
  <1>3. screen = NoScreen
    BY DEF SetChangePath, Listening
  <1>4. TypeOK'
    BY <1>1, <1>2, <1>3 DEF SetChangePath, TypeInv, TypeOK, flags, Departures
  <1>5. InputsPending' /\ InputsHashed'
    BY DEF SetChangePath, TypeInv, InputsPending, InputsHashed
  <1>6. ScreenInReview'
    BY <1>2, <1>3 DEF SetChangePath, ScreenInReview, flags
  <1>7. QED
    BY <1>4, <1>5, <1>6 DEF TypeInv

\* A refused change path keeps the types.
LEMMA TypeChangePathRefused ==
  ASSUME TypeInv, ChangePathRefused
  PROVE  TypeInv'
  BY ParserResetType
  DEF ChangePathRefused, DiscardTransaction, TypeInv, TypeOK, InputsPending, InputsHashed,
      ScreenInReview, Listening, flags, change, history, pass

\* A block of a later input keeps the types.
LEMMA TypeFinalizeNext ==
  ASSUME TypeInv, NEW last \in BOOLEAN, NEW n \in 1..BufferUnits + 1, FinalizeNext(last, n)
  PROVE  TypeInv'
  <1>1. n \in Nat
    OBVIOUS
  <1>2. hashed \in Contents
    BY DEF FinalizeNext, TypeInv, InputsHashed
  <1>3. /\ Absorb(n) \in Contents /\ Absorb(n).tx = hashed.tx
        /\ Absorb(n).inputs = hashed.inputs /\ Absorb(n).outputs = hashed.outputs + n
    BY <1>1, <1>2 DEF Absorb, Contents
  <1>4. /\ hashed' = Absorb(n)
        /\ transactionState = "PRESIGN_READY" /\ screen = NoScreen
        /\ transactionState' \in {"SIGN_READY", "NONE", "PRESIGN_READY"}
        /\ parser' \in {ParserReset(parser), parser}
        /\ multipleOutput' \in BOOLEAN
        /\ UNCHANGED <<parseMode, flags, changeAddress, changeAccepted, authorizationHash,
                       screen, up, history>>
    BY DEF FinalizeNext, Listening, TypeInv, TypeOK
  <1>5. parser' \in Parsers
    BY <1>4, ParserResetType DEF TypeInv, TypeOK
  <1>6. TypeOK'
    BY <1>3, <1>4, <1>5 DEF TypeInv, TypeOK, flags, history, pass
  <1>7. InputsHashed'
    BY <1>3, <1>4, <1>2 DEF TypeInv, InputsHashed
  <1>8. QED
    BY <1>4, <1>6, <1>7 DEF TypeInv, InputsPending, ScreenInReview

\* The review of a block of outputs.
LEMMA BufferedType ==
  ASSUME TypeInv, NEW n \in Nat
  PROVE  Buffered(n) \in Parsers
  <1>1. parser \in Parsers
    BY DEF TypeInv, TypeOK
  <1>2. parser.currentOutputOffset + n \in Int
    BY <1>1, ParserFields
  <1>3. QED
    BY <1>1, <1>2, ParserFields, ParserType DEF Buffered

\* What the buffer may be read as is a transaction of Txs, at some place of it.
LEMMA ReadingTypes ==
  ASSUME NEW p \in Parsers, NEW units \in Int, NEW d, hashed \in Contents
  PROVE  /\ \A s \in Readings(p, units, d) : s.tx \in Txs /\ s.units \in Int
         /\ \A t \in FullReadings(p, d) : t \in Txs
  <1>1. hashed.tx \in Txs /\ Spelled \subseteq Txs
    BY SignTxAssumption DEF SignTxAssumption, Contents
  <1>2. ASSUME NEW s \in Readings(p, units, d), Misread(d)
        PROVE  s.tx \in Txs /\ s.units \in Int
    <2>1. PICK t \in Spelled :
            s \in {[tx |-> t, units |-> p.currentOutputOffset + CountUnits + OutputUnits * (i - 1)] :
                     i \in 0..Len(t.outputs) + 1}
      BY <1>2 DEF Readings
    <2>2. PICK i \in 0..Len(t.outputs) + 1 :
            s = [tx |-> t, units |-> p.currentOutputOffset + CountUnits + OutputUnits * (i - 1)]
      BY <2>1
    <2>3. CountUnits \in Int /\ i \in Int /\ p.currentOutputOffset \in Int
      BY SignTxAssumption, ParserFields, <1>1, TxTypes DEF SignTxAssumption
    <2>4. p.currentOutputOffset + CountUnits + OutputUnits * (i - 1) \in Int
      BY <2>3 DEF OutputUnits
    <2>5. QED
      BY <1>1, <2>2, <2>4
  <1>3. \A s \in Readings(p, units, d) : ~Misread(d) => s.tx \in Txs /\ s.units \in Int
    BY <1>1 DEF Readings
  <1>4. QED
    BY <1>1, <1>2, <1>3 DEF FullReadings

\* One screen for all keeps the types.
LEMMA TypeReviewFull ==
  ASSUME TypeInv, hashed \in Contents, transactionState = "PRESIGN_READY",
         NEW last \in BOOLEAN, NEW n \in Nat, NEW t \in Txs, ReviewFull(last, n, t)
  PROVE  /\ parser' \in Parsers /\ screen' \in Screens /\ transactionState' = "PRESIGN_READY"
         /\ authorizationHash' \in {authorizationHash, Absorb(n)}
         /\ multipleOutput' \in {multipleOutput, TRUE}
         /\ screen'.name # "change_path"
  <1>1. TypeOK /\ Buffered(n) \in Parsers
    BY BufferedType DEF TypeInv
  <1>2. FullOutputScreen(t) \in Screens /\ FullOutputScreen(t).name = "full_output"
    BY <1>1, FullOutputScreenType DEF ReviewFull, FullOutputScreen
  <1>3. FullOutputParser(Buffered(n)) \in Parsers
    <2>1. "HANDLE_LEGACY" \in ParsingStates /\ 0 \in Int
      BY DEF ParsingStates
    <2>2. QED
      BY <2>1, <1>1, ParserFields, ParserType DEF FullOutputParser
  <1>4. QED
    BY <1>2, <1>3 DEF ReviewFull, EndBlock

\* Output by output, whatever the buffer is read as.
LEMMA TypeReviewSingle ==
  ASSUME TypeInv, hashed \in Contents, transactionState = "PRESIGN_READY", screen = NoScreen,
         NEW last \in BOOLEAN, NEW n \in Nat, NEW s, s.tx \in Txs, s.units \in Int,
         ReviewSingle(last, n, s)
  PROVE  /\ parser' \in Parsers /\ screen' \in Screens
         /\ transactionState' \in {"PRESIGN_READY", "NONE"}
         /\ authorizationHash' \in {authorizationHash, Absorb(n)}
         /\ multipleOutput' \in {multipleOutput, TRUE}
         /\ screen' # NoScreen => /\ transactionState' = "PRESIGN_READY"
                                  /\ screen'.name # "change_path"
  <1> DEFINE r == ParseOutputs(Buffered(n), s.tx, s.units)
  <1>1. TypeOK /\ parser \in Parsers /\ Buffered(n) \in Parsers
    BY BufferedType DEF TypeInv, TypeOK
  <1>2. r.parser \in Parsers
    BY <1>1, ParseOutputsType
  <1>3. ParserReset(parser) \in Parsers
    BY <1>1, ParserResetType
  <1>4. CASE DiscardTransaction /\ UNCHANGED <<authorizationHash, multipleOutput, screen>>
    BY <1>4, <1>1, <1>3 DEF DiscardTransaction, TypeOK
  <1>5. CASE /\ parser' = r.parser
             /\ screen' = SingleOutputScreen(r.parser, s.units)
             /\ EndBlock(last, Absorb(n))
             /\ UNCHANGED transactionState
    <2>1. /\ SingleOutputScreen(r.parser, s.units) \in Screens
          /\ SingleOutputScreen(r.parser, s.units).name = "single_output"
      BY <1>1, <1>2, ScreenTypes
    <2>2. QED
      BY <1>5, <2>1, <1>2 DEF EndBlock
  <1>6. CASE /\ parser' = r.parser
             /\ EndBlock(last, Absorb(n))
             /\ UNCHANGED <<transactionState, screen>>
    BY <1>6, <1>1, <1>2 DEF EndBlock, TypeOK
  <1>7. CASE /\ parser' = InState(r.parser, "FINALIZE_TX")
             /\ FinalizeOrFail(r.parser)
             /\ EndBlock(last, Absorb(n))
    <2>1. InState(r.parser, "FINALIZE_TX") \in Parsers
      BY <1>2, InStateType DEF ParsingStates
    <2>2. FinalizeScreen(r.parser.totalOutputAmount) \in Screens
          /\ FinalizeScreen(r.parser.totalOutputAmount).name = "finalize"
      <3>1. 0 \in Int
        OBVIOUS
      <3>2. QED
        BY <1>1, <1>2, <3>1, ScreenTypes
    <2>3. QED
      BY <1>7, <2>1, <2>2, <1>1 DEF FinalizeOrFail, EndBlock, TypeOK
  <1>8. QED
    BY <1>4, <1>5, <1>6, <1>7 DEF ReviewSingle

\* A block under review keeps the types, whatever the parser makes of it.
LEMMA TypeFinalizeFirst ==
  ASSUME TypeInv, NEW last \in BOOLEAN, NEW n \in 1..BufferUnits + 1, FinalizeFirst(last, n)
  PROVE  TypeInv'
  <1>1. n \in Nat
    OBVIOUS
  <1>2. hashed \in Contents /\ hashed.outputs + n \in Nat
    BY <1>1 DEF FinalizeFirst, TypeInv, InputsHashed, Contents
  <1>3. /\ Absorb(n) \in Contents /\ Absorb(n).tx = hashed.tx
        /\ Absorb(n).inputs = hashed.inputs
    BY <1>1, <1>2 DEF Absorb, Contents
  <1>4. /\ hashed' = Absorb(n)
        /\ transactionState = "PRESIGN_READY" /\ screen = NoScreen /\ firstSigned
        /\ marked' \in BOOLEAN
        /\ disorder' = disorder \cup BlockDepartures(last, hashed.outputs + n)
        /\ UNCHANGED <<parseMode, flags, changeAddress, changeAccepted, up,
                       confirmed, warned, approved, sealed, signed>>
    BY DEF FinalizeFirst, Listening
  <1>5. TypeOK /\ parser \in Parsers /\ Buffered(n) \in Parsers
    BY <1>1, BufferedType DEF TypeInv, TypeOK
  <1>6. disorder' \subseteq Departures
    BY <1>4, <1>5 DEF TypeOK, BlockDepartures, Departures
  <1>7. /\ parser' \in Parsers /\ screen' \in Screens
        /\ transactionState' \in {"PRESIGN_READY", "NONE"}
        /\ authorizationHash' \in {authorizationHash, Absorb(n)}
        /\ multipleOutput' \in {multipleOutput, TRUE}
        /\ screen' # NoScreen => /\ transactionState' = "PRESIGN_READY"
                                 /\ screen'.name # "change_path"
    <2>1. CASE parser.currentOutputOffset + n > BufferUnits
      <3>1. ParserReset(parser) \in Parsers
        BY <1>5, ParserResetType
      <3>2. QED
        BY <2>1, <3>1, <1>4, <1>5 DEF FinalizeFirst, DiscardTransaction, TypeOK
    <2>2. CASE ~(parser.currentOutputOffset + n > BufferUnits)
      <3>1. ReviewOutputs(last, n)
        BY <2>2 DEF FinalizeFirst
      <3>2. CASE \E t \in FullReadings(Buffered(n), disorder') : ReviewFull(last, n, t)
        <4>1. PICK t \in FullReadings(Buffered(n), disorder') : ReviewFull(last, n, t)
          BY <3>2
        <4>2. t \in Txs
          <5>1. 0 \in Int
            OBVIOUS
          <5>2. QED
            BY <1>2, <1>5, <5>1, ReadingTypes
        <4>3. QED
          BY <1>1, <1>2, <1>4, <4>1, <4>2, TypeReviewFull
      <3>3. CASE \E s \in Readings(Buffered(n), hashed.outputs + n, disorder') :
                   ReviewSingle(last, n, s)
        <4>1. PICK s \in Readings(Buffered(n), hashed.outputs + n, disorder') :
                ReviewSingle(last, n, s)
          BY <3>3
        <4>2. s.tx \in Txs /\ s.units \in Int
          BY <1>2, <1>5, ReadingTypes
        <4>3. QED
          BY <1>1, <1>2, <1>4, <4>1, <4>2, TypeReviewSingle
      <3>4. QED
        BY <3>1, <3>2, <3>3 DEF ReviewOutputs
    <2>3. QED
      BY <2>1, <2>2
  <1>8. TypeOK'
    <2>1. /\ authorizationHash' \in Contents \cup {None} /\ multipleOutput' \in BOOLEAN
          /\ transactionState' \in {"NONE", "PARSING", "PRESIGN_READY", "SIGN_READY"}
          /\ hashed' \in Contents \cup {None}
      BY <1>3, <1>4, <1>5, <1>7 DEF TypeOK
    <2>2. QED
      BY <2>1, <1>4, <1>5, <1>6, <1>7 DEF TypeOK, flags
  <1>9. InputsHashed'
    BY <1>2, <1>3, <1>4, <1>7 DEF TypeInv, InputsHashed
  <1>10. QED
    BY <1>4, <1>7, <1>8, <1>9 DEF TypeInv, InputsPending, ScreenInReview, flags

\* What is known while a screen is up.
LEMMA ReviewFacts ==
  ASSUME TypeInv, NEW name \in {"change_path", "single_output", "full_output", "finalize"},
         ScreenIs(name)
  PROVE  /\ screen # NoScreen /\ screen \in Screens /\ screen.output \in Int
         /\ transactionState = "PRESIGN_READY" /\ firstSigned
         /\ hashed \in Contents /\ hashed.tx \in Txs /\ hashed.outputs \in Nat
         /\ hashed.inputs = Len(hashed.tx.inputs)
         /\ NoScreen \in Screens
  <1>1. screen # NoScreen
    BY DEF ScreenIs, NoScreen
  <1>2. screen \in Screens /\ screen.output \in Int
    BY DEF TypeInv, TypeOK, Screens
  <1>3. transactionState = "PRESIGN_READY" /\ firstSigned
    BY <1>1 DEF TypeInv, ScreenInReview
  <1>4. /\ hashed \in Contents /\ hashed.inputs = Len(hashed.tx.inputs)
    BY <1>3 DEF TypeInv, InputsHashed
  <1>5. hashed.tx \in Txs /\ hashed.outputs \in Nat
    BY <1>4 DEF Contents
  <1>6. NoScreen \in Screens
    BY DEF NoScreen, Screens
  <1>7. QED
    BY <1>1, <1>2, <1>3, <1>4, <1>5, <1>6

\* The user's answers.
LEMMA TypeAcceptChangePath ==
  ASSUME TypeInv, AcceptChangePath
  PROVE  TypeInv'
  <1>1. /\ screen # NoScreen /\ changeAddress \in Paths /\ NoScreen \in Screens
        /\ transactionState = "PRESIGN_READY"
    BY ReviewFacts DEF AcceptChangePath, TypeInv, ScreenInReview, ScreenIs
  <1>2. TypeOK'
    BY <1>1 DEF AcceptChangePath, TypeInv, TypeOK, flags, pass
  <1>3. QED
    BY <1>1, <1>2
    DEF AcceptChangePath, TypeInv, InputsPending, InputsHashed, ScreenInReview, flags

\* Refusing the change path keeps the types.
LEMMA TypeRejectChangePath ==
  ASSUME TypeInv, RejectChangePath
  PROVE  TypeInv'
  <1>1. parser' \in Parsers
    BY InStateType DEF RejectChangePath, TypeInv, TypeOK, ParsingStates
  <1>2. NoScreen \in Screens
    BY DEF NoScreen, Screens
  <1>3. /\ transactionState' = "NONE" /\ screen' = NoScreen
        /\ changeAddress' = None /\ changeAccepted' = FALSE /\ multipleOutput' = FALSE
        /\ UNCHANGED <<parseMode, firstSigned, relaxed, consumeP2SH, transactionAmount, hashed,
                       authorizationHash, up, confirmed, disorder, marked, warned, approved,
                       sealed, signed>>
    BY DEF RejectChangePath, flags, history, pass
  <1>4. TypeOK
    BY DEF TypeInv
  <1>5. TypeOK'
    BY <1>1, <1>2, <1>3, <1>4, ZenonT(20) DEF TypeOK
  <1>6. QED
    BY <1>3, <1>5 DEF TypeInv, InputsPending, InputsHashed, ScreenInReview

\* What follows an accepted output is well typed, whatever was read.
LEMMA TypeAfterAccept ==
  ASSUME TypeInv, transactionState = "PRESIGN_READY",
         NEW r, r.parser \in Parsers, NEW units \in Int, AfterAccept(r, units)
  PROVE  /\ parser' \in Parsers /\ screen' \in Screens
         /\ transactionState' \in {"PRESIGN_READY", "NONE"} /\ up' \in BOOLEAN
         /\ screen' # NoScreen => /\ transactionState' = "PRESIGN_READY"
                                  /\ screen'.name # "change_path"
  <1>1. TypeOK /\ parser \in Parsers /\ NoScreen \in Screens
    BY DEF TypeInv, TypeOK, NoScreen, Screens
  <1>2. CASE AppExits
    BY <1>1, <1>2 DEF AppExits
  <1>3. CASE /\ parser' = r.parser
             /\ screen' = SingleOutputScreen(r.parser, units)
             /\ UNCHANGED <<transactionState, up>>
    <2>1. /\ SingleOutputScreen(r.parser, units) \in Screens
          /\ SingleOutputScreen(r.parser, units).name = "single_output"
      BY <1>1, ScreenTypes
    <2>2. QED
      BY <1>3, <2>1, <1>1 DEF TypeOK
  <1>4. CASE /\ parser' = r.parser
             /\ screen' = NoScreen
             /\ UNCHANGED <<transactionState, up>>
    BY <1>1, <1>4 DEF TypeOK
  <1>5. CASE /\ parser' = InState(r.parser, "FINALIZE_TX")
             /\ screen' = FinalizeScreen(r.parser.totalOutputAmount)
             /\ UNCHANGED <<transactionState, up>>
    <2>1. InState(r.parser, "FINALIZE_TX") \in Parsers
      BY InStateType DEF ParsingStates
    <2>2. /\ FinalizeScreen(r.parser.totalOutputAmount) \in Screens
          /\ FinalizeScreen(r.parser.totalOutputAmount).name = "finalize"
      BY <1>1, ScreenTypes
    <2>3. QED
      BY <1>5, <2>1, <2>2, <1>1 DEF TypeOK
  <1>6. CASE DiscardTransaction /\ screen' = NoScreen /\ UNCHANGED up
    BY <1>1, <1>6, ParserResetType DEF DiscardTransaction, TypeOK
  <1>7. QED
    BY <1>2, <1>3, <1>4, <1>5, <1>6 DEF AfterAccept

\* Accepting an output keeps the types.
LEMMA TypeAcceptOutput ==
  ASSUME TypeInv, AcceptOutput
  PROVE  TypeInv'
  <1>1. ScreenIs("single_output")
    BY DEF AcceptOutput
  <1>2. /\ screen # NoScreen /\ screen.output \in Int
        /\ transactionState = "PRESIGN_READY" /\ firstSigned
        /\ hashed \in Contents /\ hashed.tx \in Txs /\ hashed.outputs \in Int
        /\ NoScreen \in Screens
    BY <1>1, ReviewFacts
  <1>3. TypeOK /\ parser \in Parsers
    BY DEF TypeInv, TypeOK
  <1>4. AcceptedParser(parser, 0) \in Parsers /\ AcceptedParser(parser, OutputUnits) \in Parsers
    <2>1. /\ parser.currentOutputOffset - 0 \in Int
          /\ parser.currentOutputOffset - OutputUnits \in Int
          /\ parser.remainingOutputs - 1 \in Int
          /\ "OUTPUT" \in ParsingStates
      BY <1>3, ParserFields DEF OutputUnits, ParsingStates
    <2>2. QED
      BY <2>1, <1>3, ParserFields, ParserType DEF AcceptedParser
  <1>5. /\ parser' \in Parsers /\ screen' \in Screens
        /\ transactionState' \in {"PRESIGN_READY", "NONE"} /\ up' \in BOOLEAN
        /\ screen' # NoScreen => /\ transactionState' = "PRESIGN_READY"
                                 /\ screen'.name # "change_path"
    <2>1. CASE AfterAccept([outcome |-> "wait", parser |-> AcceptedParser(parser, 0)], hashed.outputs)
      BY <1>2, <1>4, <2>1, TypeAfterAccept
    <2>2. CASE AppExits
      BY <1>2, <1>3, <2>2 DEF AppExits
    <2>3. ASSUME NEW s \in Readings(AcceptedParser(parser, OutputUnits), hashed.outputs, disorder),
                 AfterAccept(ParseOutputs(AcceptedParser(parser, OutputUnits), s.tx, s.units), s.units)
          PROVE  /\ parser' \in Parsers /\ screen' \in Screens
                 /\ transactionState' \in {"PRESIGN_READY", "NONE"} /\ up' \in BOOLEAN
                 /\ screen' # NoScreen => /\ transactionState' = "PRESIGN_READY"
                                          /\ screen'.name # "change_path"
      <3>1. s.tx \in Txs /\ s.units \in Int
        BY <1>2, <1>4, <2>3, ReadingTypes
      <3>2. ParseOutputs(AcceptedParser(parser, OutputUnits), s.tx, s.units).parser \in Parsers
        BY <3>1, <1>4, ParseOutputsType
      <3>3. QED
        BY <3>1, <3>2, <1>2, <2>3, TypeAfterAccept
    <2>4. QED
      BY <2>1, <2>2, <2>3 DEF AcceptOutput
  <1>6. /\ confirmed' \subseteq Int
        /\ UNCHANGED <<parseMode, flags, hashed, change, authorizationHash, disorder, marked,
                       warned, approved, sealed, signed>>
    BY <1>2, <1>3 DEF AcceptOutput, TypeOK
  <1>7. TypeOK'
    BY <1>3, <1>5, <1>6 DEF TypeOK, flags, change
  <1>8. QED
    BY <1>2, <1>5, <1>6, <1>7
    DEF TypeInv, InputsPending, InputsHashed, ScreenInReview, flags

\* Accepting the transaction keeps the types.
LEMMA TypeAcceptTransaction ==
  ASSUME TypeInv, AcceptTransaction
  PROVE  TypeInv'
  <1>1. PICK name \in {"full_output", "finalize"} : ScreenIs(name)
    BY DEF AcceptTransaction
  <1>2. /\ screen # NoScreen /\ screen.output \in Int /\ hashed \in Contents
        /\ hashed.inputs = Len(hashed.tx.inputs)
        /\ NoScreen \in Screens
    BY <1>1, ReviewFacts
  <1>3. parser' \in Parsers
    BY ParserResetType DEF AcceptTransaction, TypeInv, TypeOK
  <1>4. confirmed' \subseteq Int
    BY <1>2 DEF AcceptTransaction, TypeInv, TypeOK
  <1>5. TypeOK'
    BY <1>2, <1>3, <1>4 DEF AcceptTransaction, TypeInv, TypeOK, change
  <1>6. QED
    BY <1>2, <1>5 DEF AcceptTransaction, TypeInv, InputsPending, InputsHashed, ScreenInReview

\* Rejecting the transaction keeps the types.
LEMMA TypeRejectTransaction ==
  ASSUME TypeInv, RejectTransaction
  PROVE  TypeInv'
  <1>1. parser' \in Parsers
    BY ParserResetType DEF RejectTransaction, DiscardTransaction, TypeInv, TypeOK
  <1>2. NoScreen \in Screens
    BY DEF NoScreen, Screens
  <1>3. QED
    BY <1>1, <1>2
    DEF RejectTransaction, DiscardTransaction, TypeInv, TypeOK, InputsPending, InputsHashed,
        ScreenInReview, flags, change, history, pass

\* HASH_SIGN and the commands that share RAM.
LEMMA TypeHashSign ==
  ASSUME TypeInv, HashSign
  PROVE  TypeInv'
  <1>1. CASE Sign
    BY <1>1
    DEF Sign, TypeInv, TypeOK, InputsPending, InputsHashed, ScreenInReview, Listening,
        flags, change, pass
  <1>2. CASE SignRefused
    BY <1>2
    DEF SignRefused, TypeInv, TypeOK, InputsPending, InputsHashed, ScreenInReview, Listening,
        flags, change, history, pass
  <1>3. QED
    BY <1>1, <1>2 DEF HashSign

\* The commands that share RAM keep the types.
LEMMA TypeOtherCommands ==
  ASSUME TypeInv, OtherCommands
  PROVE  TypeInv'
  <1>1. CASE TrustedInputFirst
    BY <1>1
    DEF TrustedInputFirst, TypeInv, TypeOK, InputsPending, InputsHashed, ScreenInReview,
        Listening, change, history, pass
  <1>2. CASE TrustedInputNext
    BY <1>2
    DEF TrustedInputNext, TypeInv, TypeOK, InputsPending, InputsHashed, ScreenInReview,
        Listening, change, history, pass
  <1>3. CASE SignMessage
    BY <1>3
    DEF SignMessage, TypeInv, TypeOK, InputsPending, InputsHashed, ScreenInReview,
        Listening, flags, change, history, pass
  <1>4. QED
    BY <1>1, <1>2, <1>3 DEF OtherCommands

\* A stuttering step keeps the types.
LEMMA TypeStutter ==
  ASSUME TypeInv, UNCHANGED vars
  PROVE  TypeInv'
  BY DEF vars, flags, change, history, pass, TypeInv, TypeOK, InputsPending, InputsHashed, ScreenInReview

\* Every step keeps the types.
LEMMA TypeStep ==
  ASSUME TypeInv, [Next]_vars
  PROVE  TypeInv'
  <1>1. CASE HashInputStart
    BY <1>1, TypeStartFirst, TypeStartFirstRefused, TypeStartNext, TypeStartWithoutFirst,
       TypeStartNextRefused
    DEF HashInputStart
  <1>2. CASE HashInputFinalizeFull
    BY <1>2, TypeFinalizeOutOfState, TypeSetChangePath, TypeChangePathRefused,
       TypeFinalizeFirst, TypeFinalizeNext
    DEF HashInputFinalizeFull
  <1>3. CASE HashSign
    BY <1>3, TypeHashSign
  <1>4. CASE OtherCommands
    BY <1>4, TypeOtherCommands
  <1>5. CASE UserAnswers
    BY <1>5, TypeAcceptChangePath, TypeRejectChangePath, TypeAcceptOutput,
       TypeAcceptTransaction, TypeRejectTransaction
    DEF UserAnswers
  <1>6. CASE IoReset
    <2>1. up' \in BOOLEAN /\ signed' = signed
      BY <1>6 DEF IoReset, TypeInv, TypeOK
    <2>2. QED
      BY <1>6, <2>1, TypeZeroed DEF IoReset
  <1>7. CASE Launch
    BY <1>7, TypeZeroed DEF Launch
  <1>8. CASE UNCHANGED vars
    BY <1>8, TypeStutter
  <1>9. QED
    BY <1>1, <1>2, <1>3, <1>4, <1>5, <1>6, <1>7, <1>8 DEF Next

\* The types and the ranges the parser relies on (btchip_context_D between two
\* commands) hold in every reachable state, for every host.
THEOREM TypeInvariance == Spec => []TypeInv
  <1>1. Init => TypeInv
    BY TypeInit
  <1>2. TypeInv /\ [Next]_vars => TypeInv'
    BY TypeStep
  <1>3. QED
    BY <1>1, <1>2, PTL DEF Spec

\* Every variable of the signing session keeps its type, for all transactions,
\* buffer sizes and hosts.
THEOREM TypeCorrect == Spec => []TypeOK
  <1>1. TypeInv => TypeOK
    BY DEF TypeInv
  <1>2. QED
    BY <1>1, TypeInvariance, PTL

-----------------------------------------------------------------------------
\* The change path: every step that names one either resets it, refuses it or
\* asks for it.
LEMMA WarningStep ==
  ASSUME UnusualChangeWarned, [Next]_vars
  PROVE  UnusualChangeWarned'
  <1> USE DEF UnusualChangeWarned
  <1>0. None \notin UnusualPaths
    BY SignTxAssumption DEF SignTxAssumption
  <1>1. CASE UNCHANGED <<change, warned>>
    BY <1>1 DEF change
  <1>2. CASE RamZeroed
    BY <1>2 DEF RamZeroed
  <1>3. CASE \E new \in BOOLEAN : StartFirstRefused(new) \/ \E t \in Txs : StartFirst(new, t)
    <2>1. UNCHANGED <<change, warned>> \/ changeAddress' = None
      BY <1>3 DEF StartFirstRefused, StartFirst, MasterReset, KeepSession
    <2>2. QED
      BY <2>1, <1>0, <1>1
  <1>4. CASE \E path \in Paths : SetChangePath(path)
    BY <1>4 DEF SetChangePath, history, pass
  <1>5. CASE AcceptChangePath
    BY <1>5 DEF AcceptChangePath
  <1>6. CASE RejectChangePath
    BY <1>6 DEF RejectChangePath
  <1>7. CASE UNCHANGED <<changeAddress, changeAccepted, warned>>
    BY <1>7
  <1>8. QED
    <2>1. CASE \E last \in BOOLEAN, n \in 1..BufferUnits + 1 :
                 FinalizeFirst(last, n) \/ FinalizeNext(last, n)
      BY <2>1, <1>7 DEF FinalizeFirst, FinalizeNext, history, pass
    <2>2. CASE AcceptOutput \/ AcceptTransaction \/ RejectTransaction
      BY <2>2, <1>1 DEF AcceptOutput, AcceptTransaction, RejectTransaction, history, pass
    <2>3. CASE \/ StartNext \/ StartNextRefused \/ FinalizeOutOfState \/ ChangePathRefused
               \/ \E t \in Txs : StartWithoutFirst(t)
      BY <2>3, <1>1
      DEF StartNext, StartWithoutFirst, StartNextRefused, FinalizeOutOfState, ChangePathRefused, history, pass
    <2>4. CASE HashSign \/ OtherCommands
      BY <2>4, <1>1
      DEF HashSign, Sign, SignRefused, OtherCommands, TrustedInputFirst, TrustedInputNext,
          SignMessage, history, pass
    <2>5. CASE UNCHANGED vars
      BY <2>5, <1>1 DEF vars, history, pass
    <2>6. QED
      BY <1>2, <1>3, <1>4, <1>5, <1>6, <2>1, <2>2, <2>3, <2>4, <2>5
      DEF Next, HashInputStart, HashInputFinalizeFull, UserAnswers, IoReset, Launch

\* An output is hidden as change to an unusual path only if the user accepted
\* that very path in this session, whatever the host does.
THEOREM UnusualChangeIsWarned == Spec => []UnusualChangeWarned
  <1>1. Init => UnusualChangeWarned
    BY SignTxAssumption DEF SignTxAssumption, Init, UnusualChangeWarned
  <1>2. UnusualChangeWarned /\ [Next]_vars => UnusualChangeWarned'
    BY WarningStep
  <1>3. QED
    BY <1>1, <1>2, PTL DEF Spec

-----------------------------------------------------------------------------
\* The buffer of the output parser.  BufferIsFresh speaks of the states that
\* take outputs; it is inductive with what leads to them: a parser that was
\* reset before the inputs stays empty through them.  What the parser makes of
\* the bytes does not matter: it only ever consumes.
FreshInv ==
  /\ BufferIsFresh
  /\ parseMode = "SIGNATURE" /\ transactionState = "PARSING" /\ "next" \notin disorder =>
       parser.currentOutputOffset <= 0

\* A turn of handle_output_state only ever consumes from the buffer.
LEMMA TurnConsumes ==
  ASSUME NEW p \in Parsers, NEW t \in Txs, NEW units \in Int
  PROVE  HandleOutputState(p, t, units).parser.currentOutputOffset <= p.currentOutputOffset
  <1> DEFINE o == OutputAt(t, HeadOutput(p, units))
  <1>0. p.currentOutputOffset \in Int /\ CountUnits \in {1, 2}
    BY ParserFields, TxTypes
  <1>1. ParseNumber(p, t).parser.currentOutputOffset <= p.currentOutputOffset
    BY <1>0 DEF ParseNumber, Parser
  <1>2. ParseOutput(p, t, units).parser.currentOutputOffset <= p.currentOutputOffset
    <2>1. ParseOutput(p, t, units).parser
            \in {p, CountOutput(p, o, 0, 0, p.changeOutputFound),
                 CountOutput(p, o, OutputUnits, 1, TRUE)}
      BY DEF ParseOutput
    <2>2. /\ CountOutput(p, o, 0, 0, p.changeOutputFound).currentOutputOffset
               = p.currentOutputOffset - 0
          /\ CountOutput(p, o, OutputUnits, 1, TRUE).currentOutputOffset
               = p.currentOutputOffset - OutputUnits
      BY DEF CountOutput, Parser
    <2>3. ParseOutput(p, t, units).parser.currentOutputOffset
            \in {p.currentOutputOffset, p.currentOutputOffset - 0,
                 p.currentOutputOffset - OutputUnits}
      BY <2>1, <2>2
    <2>4. QED
      BY <1>0, <2>3 DEF OutputUnits
  <1>3. QED
    BY <1>0, <1>1, <1>2 DEF HandleOutputState

\* So does the loop around it.
LEMMA LoopConsumes ==
  ASSUME NEW p \in Parsers, NEW t \in Txs, NEW units \in Int
  PROVE  ParseOutputs(p, t, units).parser.currentOutputOffset <= p.currentOutputOffset
  <1> DEFINE Again(r) == IF r.outcome = "processed"
                           THEN HandleOutputState(r.parser, t, units) ELSE r
             r1 == HandleOutputState(p, t, units)
             r2 == Again(r1)
             r3 == Again(r2)
  <1>0. p.currentOutputOffset \in Int
    BY ParserFields
  <1>1. /\ r1.parser \in Parsers /\ r1.parser.currentOutputOffset \in Int
        /\ r1.parser.currentOutputOffset <= p.currentOutputOffset
    BY TurnConsumes, HandleOutputStateType, ParserFields
  <1> HIDE DEF r1
  <1>2. /\ r2.parser \in Parsers /\ r2.parser.currentOutputOffset \in Int
        /\ r2.parser.currentOutputOffset <= r1.parser.currentOutputOffset
    BY <1>1, TurnConsumes, HandleOutputStateType, ParserFields
  <1> HIDE DEF r2
  <1>3. /\ r3.parser.currentOutputOffset \in Int
        /\ r3.parser.currentOutputOffset <= r2.parser.currentOutputOffset
    BY <1>2, TurnConsumes, HandleOutputStateType, ParserFields
  <1>4. ParseOutputs(p, t, units) = r3
    BY DEF ParseOutputs, r1, r2
  <1> HIDE DEF r3
  <1>5. QED
    BY <1>0, <1>1, <1>2, <1>3, <1>4

\* What the review of a block leaves in the buffer.
BufferConsumed(held) ==
  \/ transactionState' = "NONE"
  \/ /\ transactionState' = transactionState
     /\ parser'.currentOutputOffset <= held

\* Whatever a block is read as, no more is left than the buffer held with it.
LEMMA ReviewSingleConsumes ==
  ASSUME TypeInv, NEW last \in BOOLEAN, NEW n \in Nat, NEW s, s.tx \in Txs, s.units \in Int,
         ReviewSingle(last, n, s)
  PROVE  BufferConsumed(parser.currentOutputOffset + n)
  <1> DEFINE r == ParseOutputs(Buffered(n), s.tx, s.units)
  <1>1. Buffered(n) \in Parsers
        /\ Buffered(n).currentOutputOffset = parser.currentOutputOffset + n
    BY BufferedType DEF Buffered, Parser
  <1>2. r.parser.currentOutputOffset <= parser.currentOutputOffset + n
    BY <1>1, LoopConsumes
  <1> HIDE DEF r
  <1>3. InState(r.parser, "FINALIZE_TX").currentOutputOffset = r.parser.currentOutputOffset
    BY DEF InState, Parser
  <1>4. \/ transactionState' = "NONE"
        \/ /\ transactionState' = transactionState
           /\ parser' = r.parser \/ parser' = InState(r.parser, "FINALIZE_TX")
    BY DEF ReviewSingle, DiscardTransaction, FinalizeOrFail, r
  <1>5. QED
    BY <1>2, <1>3, <1>4 DEF BufferConsumed

\* A block adds to the buffer what it adds to the hash, and the parser consumes.
LEMMA FreshFinalizeFirst ==
  ASSUME TypeInv, FreshInv, NEW last \in BOOLEAN, NEW n \in 1..BufferUnits + 1,
         FinalizeFirst(last, n)
  PROVE  FreshInv'
  <1>1. n \in Nat /\ hashed \in Contents /\ hashed.tx \in Txs /\ hashed.outputs \in Nat
        /\ parser \in Parsers /\ parser.currentOutputOffset \in Int
        /\ transactionState = "PRESIGN_READY"
    BY ParserFields DEF FinalizeFirst, TypeInv, TypeOK, InputsHashed, Contents
  <1>2. /\ hashed' = Absorb(n) /\ Absorb(n).outputs = hashed.outputs + n
        /\ disorder \subseteq disorder'
    BY <1>1 DEF FinalizeFirst, Absorb, Contents
  <1>3. Buffered(n) \in Parsers
        /\ Buffered(n).currentOutputOffset = parser.currentOutputOffset + n
    BY <1>1, BufferedType DEF Buffered, Parser
  <1>4. BufferConsumed(parser.currentOutputOffset + n)
    <2>1. CASE DiscardTransaction
      BY <2>1 DEF DiscardTransaction, BufferConsumed
    <2>2. ASSUME NEW t, ReviewFull(last, n, t)
          PROVE  BufferConsumed(parser.currentOutputOffset + n)
      <3>1. FullOutputParser(Buffered(n)).currentOutputOffset = parser.currentOutputOffset + n
        BY <1>3 DEF FullOutputParser, Parser
      <3>2. QED
        BY <1>1, <2>2, <3>1 DEF ReviewFull, BufferConsumed
    <2>3. ASSUME NEW s \in Readings(Buffered(n), hashed.outputs + n, disorder'),
                 ReviewSingle(last, n, s)
          PROVE  BufferConsumed(parser.currentOutputOffset + n)
      <3>1. hashed.outputs + n \in Int
        BY <1>1
      <3>2. s.tx \in Txs /\ s.units \in Int
        BY <1>1, <1>3, <2>3, <3>1, ReadingTypes
      <3>3. QED
        BY <1>1, <2>3, <3>2, ReviewSingleConsumes
    <2>4. QED
      BY <2>1, <2>2, <2>3 DEF FinalizeFirst, ReviewOutputs
  <1>5. "next" \notin disorder => parser.currentOutputOffset <= hashed.outputs
    BY <1>1 DEF FreshInv, BufferIsFresh
  <1>6. parser'.currentOutputOffset \in Int
    BY TypeFinalizeFirst, ParserFields DEF TypeInv, TypeOK
  <1>7. QED
    BY <1>1, <1>2, <1>4, <1>5, <1>6 DEF FreshInv, BufferIsFresh, BufferConsumed

\* An accepted output leaves the buffer; what follows it is parsed.
LEMMA FreshAcceptOutput ==
  ASSUME TypeInv, FreshInv, AcceptOutput
  PROVE  FreshInv'
  <1>1. /\ transactionState = "PRESIGN_READY" /\ hashed \in Contents /\ hashed.tx \in Txs
        /\ hashed.outputs \in Int
        /\ hashed' = hashed /\ disorder' = disorder
        /\ parser \in Parsers /\ parser.currentOutputOffset \in Int
    BY ReviewFacts, ParserFields DEF AcceptOutput, TypeInv, TypeOK
  <1>2. /\ AcceptedParser(parser, 0).currentOutputOffset = parser.currentOutputOffset - 0
        /\ AcceptedParser(parser, OutputUnits).currentOutputOffset = parser.currentOutputOffset - 2
    BY DEF AcceptedParser, Parser, OutputUnits
  <1>3. AcceptedParser(parser, OutputUnits) \in Parsers
    <2>1. /\ parser.currentOutputOffset - OutputUnits \in Int
          /\ parser.remainingOutputs - 1 \in Int /\ "OUTPUT" \in ParsingStates
      BY <1>1, ParserFields DEF OutputUnits, ParsingStates
    <2>2. QED
      BY <2>1, <1>1, ParserFields, ParserType DEF AcceptedParser
  <1>4. ASSUME NEW r, NEW units, AfterAccept(r, units), r.parser.currentOutputOffset \in Int,
               r.parser.currentOutputOffset <= parser.currentOutputOffset
        PROVE  BufferConsumed(parser.currentOutputOffset)
    <2>1. InState(r.parser, "FINALIZE_TX").currentOutputOffset = r.parser.currentOutputOffset
      BY DEF InState, Parser
    <2>2. \/ transactionState' = "NONE"
          \/ /\ transactionState' = transactionState
             /\ parser' = parser \/ parser' = r.parser \/ parser' = InState(r.parser, "FINALIZE_TX")
      BY <1>4 DEF AfterAccept, AppExits, DiscardTransaction
    <2>3. QED
      BY <1>1, <1>4, <2>1, <2>2 DEF BufferConsumed
  <1>5. BufferConsumed(parser.currentOutputOffset)
    <2>1. CASE AfterAccept([outcome |-> "wait", parser |-> AcceptedParser(parser, 0)], hashed.outputs)
      BY <1>1, <1>2, <1>4, <2>1
    <2>2. CASE AppExits
      BY <1>1, <2>2 DEF AppExits, BufferConsumed
    <2>3. ASSUME NEW s \in Readings(AcceptedParser(parser, OutputUnits), hashed.outputs, disorder),
                 AfterAccept(ParseOutputs(AcceptedParser(parser, OutputUnits), s.tx, s.units), s.units)
          PROVE  BufferConsumed(parser.currentOutputOffset)
      <3> DEFINE r == ParseOutputs(AcceptedParser(parser, OutputUnits), s.tx, s.units)
      <3>1. s.tx \in Txs /\ s.units \in Int
        BY <1>1, <1>3, <2>3, ReadingTypes
      <3>2. /\ r.parser.currentOutputOffset \in Int
            /\ r.parser.currentOutputOffset <= parser.currentOutputOffset - 2
        BY <1>2, <1>3, <3>1, LoopConsumes, ParseOutputsType, ParserFields
      <3> HIDE DEF r
      <3>3. r.parser.currentOutputOffset <= parser.currentOutputOffset
        BY <1>1, <3>2
      <3>4. AfterAccept(r, s.units)
        BY <2>3 DEF r
      <3>5. QED
        BY <1>4, <3>2, <3>3, <3>4
    <2>4. QED
      BY <2>1, <2>2, <2>3 DEF AcceptOutput
  <1>6. parser'.currentOutputOffset \in Int
    BY TypeAcceptOutput, ParserFields DEF TypeInv, TypeOK
  <1>7. QED
    BY <1>1, <1>5, <1>6 DEF FreshInv, BufferIsFresh, BufferConsumed

\* Every step keeps the buffer fresh.
LEMMA FreshStep ==
  ASSUME TypeInv, FreshInv, [Next]_vars
  PROVE  FreshInv'
  <1> USE DEF FreshInv, BufferIsFresh
  <1>0. /\ parser \in Parsers /\ parser.currentOutputOffset \in Int
        /\ transactionState = "PRESIGN_READY" => hashed.outputs \in Nat
    BY ParserFields DEF TypeInv, TypeOK, InputsHashed, Contents
  <1>1. CASE transactionState' \in {"NONE", "SIGN_READY"}
    BY <1>1
  <1>2. CASE UNCHANGED <<transactionState, parseMode, hashed, parser, disorder>>
    BY <1>2
  <1>3. CASE \E new \in BOOLEAN, t \in Txs : StartFirst(new, t)
    BY <1>3 DEF StartFirst, BeginTransaction, StartPrelude, ParserReset, Parser
  <1>4. CASE StartNext
    <2>1. /\ parser' = parser /\ disorder' = disorder
          /\ "next" \notin disorder => parser.currentOutputOffset <= 0
          /\ transactionState' \in {"NONE", "PARSING", "PRESIGN_READY"}
      BY <1>4 DEF StartNext, history, pass
    <2>2. transactionState' = "PRESIGN_READY" => hashed'.outputs \in Nat
      BY TypeStep DEF TypeInv, InputsHashed, Contents
    <2>3. QED
      BY <2>1, <2>2, <1>0
  <1>5. CASE \E path \in Paths : SetChangePath(path)
    BY <1>5 DEF SetChangePath, InState, Parser, flags
  <1>6. CASE \E last \in BOOLEAN, n \in 1..BufferUnits + 1 : FinalizeFirst(last, n)
    BY <1>6, FreshFinalizeFirst
  <1>7. CASE \E last \in BOOLEAN, n \in 1..BufferUnits + 1 : FinalizeNext(last, n)
    <2>1. PICK last \in BOOLEAN, n \in 1..BufferUnits + 1 : FinalizeNext(last, n)
      BY <1>7
    <2>2. hashed \in Contents /\ hashed' = [hashed EXCEPT !.outputs = @ + n]
      BY <2>1 DEF FinalizeNext, Absorb, TypeInv, InputsHashed
    <2>3. hashed'.outputs = hashed.outputs + n
      BY <2>2 DEF Contents
    <2>4. transactionState' \in {"NONE", "SIGN_READY"} \/ UNCHANGED <<transactionState, parser>>
      BY <2>1 DEF FinalizeNext
    <2>a. disorder' = disorder
      BY <2>1 DEF FinalizeNext, history, pass
    <2>5. transactionState = "PRESIGN_READY"
      BY <2>1 DEF FinalizeNext
    <2>6. QED
      BY <2>3, <2>4, <2>5, <2>a, <1>0, <1>1
  <1>8. CASE ChangePathRefused
    BY <1>8 DEF ChangePathRefused, DiscardTransaction, flags, history, pass
  <1>9. CASE AcceptOutput
    BY <1>9, FreshAcceptOutput
  <1>10. CASE TrustedInputFirst \/ TrustedInputNext
    BY <1>10 DEF TrustedInputFirst, TrustedInputNext, history, pass
  <1>11. CASE UNCHANGED vars \/ SignMessage \/ AcceptChangePath
    BY <1>11, <1>2 DEF vars, SignMessage, AcceptChangePath, history, pass
  <1>12. CASE \/ StartNextRefused \/ FinalizeOutOfState \/ HashSign \/ RejectChangePath
              \/ AcceptTransaction \/ RejectTransaction \/ RamZeroed
              \/ \E new \in BOOLEAN : StartFirstRefused(new)
    BY <1>12, <1>1
    DEF StartNextRefused, FinalizeOutOfState, HashSign, Sign, SignRefused, RejectChangePath,
        AcceptTransaction, RejectTransaction, RamZeroed, StartFirstRefused, DiscardTransaction
  <1>13. CASE \E t \in Txs : StartWithoutFirst(t)
    BY <1>13 DEF StartWithoutFirst
  <1>14. QED
    BY <1>3, <1>4, <1>5, <1>6, <1>7, <1>8, <1>9, <1>10, <1>11, <1>12, <1>13
    DEF Next, HashInputStart, HashInputFinalizeFull, OtherCommands, UserAnswers, IoReset, Launch

\* Whatever the host sends and however it leaves a transaction, the parser never
\* holds bytes that were not absorbed by the hash of the transaction at hand
\* (btchip_apdu_hash_input_finalize_full_reset is called wherever it must be), unless
\* a next block began the transaction (btchip_transaction.c takes it in state NONE),
\* which calls no reset.
THEOREM BufferStaysFresh == Spec => []BufferIsFresh
  <1>1. Init => FreshInv
    BY DEF Init, FreshInv, BufferIsFresh
  <1>2. TypeInv /\ FreshInv /\ [Next]_vars => FreshInv'
    BY FreshStep
  <1>3. FreshInv => BufferIsFresh
    BY DEF FreshInv
  <1>4. QED
    BY <1>1, <1>2, <1>3, TypeInvariance, PTL DEF Spec

-----------------------------------------------------------------------------
\* The inductive invariant.  What the parser holds is known of a pass in order;
\* what is stored and approved is known whatever the host does.

\* Outputs the parser is done with.
Seen(p) == p.totalOutputs - p.remainingOutputs

\* The parser before the first block of outputs.
FreshParser(p) ==
  /\ p.outputParsingState = "NUMBER_OUTPUTS"
  /\ p.currentOutputOffset = 0
  /\ ~p.changeOutputFound

\* The parser inside the outputs: the units it has dropped are exactly the
\* number of outputs and the outputs it is done with.
Synced(p, t, units) ==
  /\ p.outputParsingState = "OUTPUT"
  /\ p.totalOutputs = Len(t.outputs)
  /\ p.currentOutputOffset >= 0
  /\ 0 <= p.remainingOutputs /\ p.remainingOutputs <= p.totalOutputs
  /\ units - p.currentOutputOffset = CountUnits + 2 * Seen(p)

\* The outputs it is done with were shown, but for at most one, the change.
Covered(p, t, shown) ==
  /\ shown \subseteq 1..Seen(p)
  /\ \A i \in (1..Seen(p)) \ shown : p.changeOutputFound /\ IsChange(OutputAt(t, i))
  /\ \A i, j \in (1..Seen(p)) \ shown : i = j

\* The parser waits for the rest of an output, or has a whole one to show.
Waiting(p) == p.currentOutputOffset < 2 /\ p.remainingOutputs > 0
Showing(p) == p.currentOutputOffset >= 2 /\ p.remainingOutputs > 0

FinalNames == {"finalize", "full_output"}

\* A transaction reviewed to the end.
Reviewed(h, shown) ==
  /\ h = WholeTx(h.tx)
  /\ \A i \in DOMAIN h.tx.outputs \ shown : IsChange(h.tx.outputs[i])
  /\ \A i, j \in DOMAIN h.tx.outputs \ shown : i = j

\* While outputs are missing, blocks came that were not the last.
ReviewInv ==
  firstSigned /\ up /\ disorder = {} =>
    /\ transactionState = "PARSING" /\ parseMode = "SIGNATURE" =>
         FreshParser(parser) /\ confirmed = {}
    /\ transactionState = "PRESIGN_READY" =>
         /\ hashed.outputs <= StreamUnits(hashed.tx)
         /\ hashed.outputs # 0 /\ hashed.outputs < StreamUnits(hashed.tx) => multipleOutput
         /\ hashed.outputs = 0 => /\ FreshParser(parser) /\ confirmed = {}
                                  /\ screen.name \in {"none", "change_path"}
         /\ hashed.outputs # 0 /\ screen.name \notin FinalNames =>
              /\ Synced(parser, hashed.tx, hashed.outputs)
              /\ Covered(parser, hashed.tx, confirmed)
              /\ IF screen = NoScreen THEN Waiting(parser)
                 ELSE /\ screen.name = "single_output"
                      /\ Showing(parser)
                      /\ screen.output = Seen(parser) + 1
         /\ screen.name \in FinalNames =>
              Reviewed(hashed, confirmed \cup {screen.output})

\* The stored authorization hash.
AuthorizationInv ==
  /\ ~up => screen = NoScreen
  /\ ReviewedHashStored
  /\ ~firstSigned /\ sealed /\ authorizationHash # None => authorizationHash = approved
  /\ transactionState = "SIGN_READY" =>
       /\ ~firstSigned
       /\ sealed => hashed = approved

SigningInv == TypeInv /\ ReviewInv /\ AuthorizationInv

-----------------------------------------------------------------------------
\* One turn of handle_output_state inside the outputs.
LEMMA SyncedUnits ==
  ASSUME NEW p \in Parsers, NEW t \in Txs, NEW units \in Nat,
         Synced(p, t, units), units <= StreamUnits(t)
  PROVE  /\ Seen(p) \in Nat /\ Len(t.outputs) \in Nat
         /\ StreamUnits(t) = CountUnits + 2 * Len(t.outputs)
         /\ p.currentOutputOffset >= 2 => p.remainingOutputs > 0
         /\ HeadOutput(p, units) = Seen(p) + 1
         /\ p.remainingOutputs = 0 =>
              units = StreamUnits(t) /\ Seen(p) = Len(t.outputs)
  <1>1. /\ p.currentOutputOffset \in Int /\ p.remainingOutputs \in Int
        /\ p.totalOutputs \in Nat /\ Len(t.outputs) \in Nat
        /\ CountUnits \in Nat
    BY ParserFields, TxTypes
  <1>2. StreamUnits(t) = CountUnits + 2 * Len(t.outputs)
    BY <1>1 DEF StreamUnits, OutputUnits
  <1>3. HeadOutput(p, units) = (2 * Seen(p)) \div 2 + 1
    <2>1. units - p.currentOutputOffset - CountUnits = 2 * Seen(p)
      BY <1>1 DEF Synced, Seen
    <2>2. QED
      BY <2>1 DEF HeadOutput, OutputUnits
  <1>4. Seen(p) \in Nat
    BY <1>1 DEF Synced, Seen
  <1>5. (2 * Seen(p)) \div 2 = Seen(p)
    BY <1>4
  <1>6. /\ units - p.currentOutputOffset = CountUnits + 2 * (Len(t.outputs) - p.remainingOutputs)
        /\ p.currentOutputOffset >= 0 /\ units <= CountUnits + 2 * Len(t.outputs)
        /\ p.remainingOutputs >= 0
        /\ Seen(p) = Len(t.outputs) - p.remainingOutputs
    BY <1>2 DEF Synced, Seen
  <1>7. p.currentOutputOffset >= 2 => p.remainingOutputs > 0
    BY <1>1, <1>6
  <1>8. p.remainingOutputs = 0 => units = CountUnits + 2 * Len(t.outputs) /\ Seen(p) = Len(t.outputs)
    BY <1>1, <1>6
  <1>9. QED
    BY <1>1, <1>2, <1>3, <1>4, <1>5, <1>7, <1>8

\* What a turn leaves behind.
TurnResult(r, t, units, shown) ==
  /\ r.parser \in Parsers
  /\ r.outcome # "throw" => /\ Synced(r.parser, t, units)
                            /\ Covered(r.parser, t, shown)
  /\ r.outcome = "wait" => r.parser.currentOutputOffset < 2
  /\ r.outcome = "display" => Showing(r.parser)
  /\ r.outcome = "processed" => r.parser.changeOutputFound

\* One turn of handle_output_state keeps the count of outputs and the bytes of
\* the buffer in step, and hides at most the change.
LEMMA TurnSynced ==
  ASSUME NEW p \in Parsers, NEW t \in Txs, NEW units \in Nat, NEW shown,
         Synced(p, t, units), Covered(p, t, shown), units <= StreamUnits(t)
  PROVE  /\ TurnResult(HandleOutputState(p, t, units), t, units, shown)
         /\ p.changeOutputFound => HandleOutputState(p, t, units).outcome # "processed"
  <1> DEFINE o == OutputAt(t, HeadOutput(p, units))
             r == HandleOutputState(p, t, units)
  <1>1. r = ParseOutput(p, t, units)
    BY DEF HandleOutputState, Synced
  <1>2. r.parser \in Parsers
    BY HandleOutputStateType
  <1>3. /\ p.currentOutputOffset \in Int /\ p.remainingOutputs \in Int
        /\ p.totalOutputs \in Nat /\ p.changeOutputFound \in BOOLEAN
        /\ Seen(p) \in Nat
        /\ HeadOutput(p, units) = Seen(p) + 1
        /\ p.currentOutputOffset >= 2 => p.remainingOutputs > 0
        /\ CountUnits \in Nat
    BY ParserFields, SyncedUnits, TxTypes
  <1>4. CASE p.currentOutputOffset < 2
    <2>1. r = [outcome |-> "wait", parser |-> p]
      BY <1>1, <1>4 DEF ParseOutput, OutputUnits
    <2>2. QED
      BY <2>1, <1>2, <1>4 DEF TurnResult
  <1>5. CASE ~(p.currentOutputOffset < 2) /\ Throws(p, o)
    <2>1. r.outcome = "throw"
      BY <1>1, <1>5 DEF ParseOutput, OutputUnits
    <2>2. QED
      BY <2>1, <1>2 DEF TurnResult
  <1>6. CASE ~(p.currentOutputOffset < 2) /\ ~Throws(p, o) /\ IsChange(o)
    <2> DEFINE q == CountOutput(p, o, 2, 1, TRUE)
    <2>1. r = [outcome |-> "processed", parser |-> q]
      BY <1>1, <1>6 DEF ParseOutput, OutputUnits
    <2>2. ~p.changeOutputFound
      BY <1>6 DEF Throws
    <2>a. p.currentOutputOffset >= 2 /\ p.remainingOutputs > 0
      BY <1>3, <1>6
    <2>3. /\ q.outputParsingState = "OUTPUT"
          /\ q.currentOutputOffset = p.currentOutputOffset - 2
          /\ q.remainingOutputs = p.remainingOutputs - 1
          /\ q.totalOutputs = p.totalOutputs
          /\ q.changeOutputFound = TRUE
      BY DEF CountOutput, Parser
    <2> HIDE DEF q
    <2>4. Seen(q) = Seen(p) + 1
      BY <2>3, <1>3 DEF Seen
    <2>5. Synced(q, t, units)
      <3>1. units - q.currentOutputOffset = CountUnits + 2 * Seen(q)
        <4>1. units - p.currentOutputOffset = CountUnits + 2 * Seen(p)
          BY DEF Synced
        <4>2. q.currentOutputOffset = p.currentOutputOffset - 2
          BY <2>3
        <4>3. QED
          BY <4>1, <4>2, <2>4, <1>3
      <3>2. q.remainingOutputs >= 0 /\ q.remainingOutputs <= q.totalOutputs
        BY <2>3, <2>a, <1>3 DEF Synced
      <3>3. QED
        BY <2>3, <2>a, <1>3, <3>1, <3>2 DEF Synced
    <2>6. Covered(q, t, shown)
      <3>1. shown \subseteq 1..Seen(p) /\ (1..Seen(p)) \ shown = {}
        BY <2>2 DEF Covered
      <3>2. (1..Seen(q)) \ shown = {Seen(p) + 1}
        BY <3>1, <2>4, <1>3
      <3>3. shown \subseteq 1..Seen(q)
        BY <3>1, <2>4, <1>3
      <3>4. IsChange(OutputAt(t, Seen(p) + 1))
        BY <1>3, <1>6
      <3>5. QED
        BY <3>2, <3>3, <3>4, <2>3 DEF Covered
    <2>7. r.parser = q /\ r.outcome = "processed"
      BY <2>1
    <2>8. QED
      BY <2>2, <2>3, <2>5, <2>6, <2>7, <1>2 DEF TurnResult
  <1>7. CASE ~(p.currentOutputOffset < 2) /\ ~Throws(p, o) /\ ~IsChange(o)
    <2> DEFINE q == CountOutput(p, o, 0, 0, p.changeOutputFound)
    <2>1. r = [outcome |-> "display", parser |-> q]
      BY <1>1, <1>7 DEF ParseOutput, OutputUnits
    <2>2. /\ q.outputParsingState = "OUTPUT"
          /\ q.currentOutputOffset = p.currentOutputOffset
          /\ q.remainingOutputs = p.remainingOutputs
          /\ q.totalOutputs = p.totalOutputs
          /\ q.changeOutputFound = p.changeOutputFound
      BY <1>3 DEF CountOutput, Parser
    <2> HIDE DEF q
    <2>3. Seen(q) = Seen(p)
      BY <2>2 DEF Seen
    <2>4. Synced(q, t, units)
      BY <2>2, <2>3 DEF Synced
    <2>5. Covered(q, t, shown)
      BY <2>2, <2>3 DEF Covered
    <2>6. Showing(q)
      BY <2>2, <1>3, <1>7 DEF Showing
    <2>7. QED
      BY <2>1, <2>4, <2>5, <2>6, <1>2 DEF TurnResult
  <1>8. QED
    BY <1>4, <1>5, <1>6, <1>7

\* The loop stops after a turn that waits, shows or throws.
LoopResult(r, t, units, shown) ==
  TurnResult(r, t, units, shown) /\ r.outcome \in {"wait", "display", "throw"}

\* So does the loop, which ends waiting, displaying or throwing.
LEMMA LoopSynced ==
  ASSUME NEW p \in Parsers, NEW t \in Txs, NEW units \in Nat, NEW shown,
         Synced(p, t, units), Covered(p, t, shown), units <= StreamUnits(t)
  PROVE  LoopResult(ParseOutputs(p, t, units), t, units, shown)
  <1> DEFINE Again(r) == IF r.outcome = "processed"
                           THEN HandleOutputState(r.parser, t, units) ELSE r
             r1 == HandleOutputState(p, t, units)
             r2 == Again(r1)
  <1>1. TurnResult(r1, t, units, shown) /\ r1.outcome \in Outcomes
    BY TurnSynced, HandleOutputStateType
  <1> HIDE DEF r1
  <1>2. LoopResult(r2, t, units, shown)
    <2>1. CASE r1.outcome = "processed"
      <3>1. /\ r1.parser \in Parsers /\ Synced(r1.parser, t, units)
            /\ Covered(r1.parser, t, shown) /\ r1.parser.changeOutputFound
        BY <1>1, <2>1 DEF TurnResult
      <3>2. /\ TurnResult(HandleOutputState(r1.parser, t, units), t, units, shown)
            /\ HandleOutputState(r1.parser, t, units).outcome # "processed"
        BY <3>1, TurnSynced
      <3>3. HandleOutputState(r1.parser, t, units).outcome \in Outcomes
        BY <3>1, HandleOutputStateType
      <3>4. QED
        BY <3>2, <3>3, <2>1 DEF LoopResult, Outcomes
    <2>2. CASE r1.outcome # "processed"
      BY <1>1, <2>2 DEF LoopResult, Outcomes
    <2>3. QED
      BY <2>1, <2>2
  <1> HIDE DEF r2
  <1>3. ParseOutputs(p, t, units) = Again(r2)
    BY DEF ParseOutputs, r1, r2
  <1>4. Again(r2) = r2
    BY <1>2 DEF LoopResult
  <1>5. QED
    BY <1>2, <1>3, <1>4

\* The first block: the number of outputs, then outputs.
LEMMA LoopFresh ==
  ASSUME NEW p \in Parsers, NEW t \in Txs, NEW units \in Nat,
         p.outputParsingState = "NUMBER_OUTPUTS", ~p.changeOutputFound,
         p.currentOutputOffset = units, units >= CountUnits, units <= StreamUnits(t)
  PROVE  LoopResult(ParseOutputs(p, t, units), t, units, {})
  <1> DEFINE Again(r) == IF r.outcome = "processed"
                           THEN HandleOutputState(r.parser, t, units) ELSE r
             r1 == HandleOutputState(p, t, units)
             r2 == Again(r1)
             n == Len(t.outputs)
             q == Parser("OUTPUT", units - CountUnits, n, n, p.totalOutputAmount, p.changeOutputFound)
  <1>0. n \in Nat /\ CountUnits \in Nat
    BY TxTypes
  <1>1. r1 = [outcome |-> "processed", parser |-> q]
    BY <1>0 DEF HandleOutputState, ParseNumber
  <1>2. q \in Parsers
    BY <1>1, HandleOutputStateType
  <1>3. /\ q.outputParsingState = "OUTPUT" /\ q.currentOutputOffset = units - CountUnits
        /\ q.remainingOutputs = n /\ q.totalOutputs = n /\ ~q.changeOutputFound
    BY DEF Parser
  <1> HIDE DEF q
  <1>4. Seen(q) = 0
    BY <1>0, <1>3 DEF Seen
  <1>5. Synced(q, t, units) /\ Covered(q, t, {})
    BY <1>0, <1>3, <1>4 DEF Synced, Covered
  <1>6. r2 = HandleOutputState(q, t, units)
    BY <1>1
  <1>7. LoopResult(Again(r2), t, units, {})
    <2>1. TurnResult(r2, t, units, {}) /\ r2.outcome \in Outcomes
      BY <1>2, <1>5, <1>6, TurnSynced, HandleOutputStateType
    <2> HIDE DEF r2
    <2>2. CASE r2.outcome = "processed"
      <3>1. /\ r2.parser \in Parsers /\ Synced(r2.parser, t, units)
            /\ Covered(r2.parser, t, {}) /\ r2.parser.changeOutputFound
        BY <2>1, <2>2 DEF TurnResult
      <3>2. /\ TurnResult(HandleOutputState(r2.parser, t, units), t, units, {})
            /\ HandleOutputState(r2.parser, t, units).outcome # "processed"
        BY <3>1, TurnSynced
      <3>3. HandleOutputState(r2.parser, t, units).outcome \in Outcomes
        BY <3>1, HandleOutputStateType
      <3>4. QED
        BY <3>2, <3>3, <2>2 DEF LoopResult, Outcomes
    <2>3. CASE r2.outcome # "processed"
      BY <2>1, <2>3 DEF LoopResult, Outcomes
    <2>4. QED
      BY <2>2, <2>3
  <1>8. ParseOutputs(p, t, units) = Again(r2)
    BY DEF ParseOutputs
  <1>9. QED
    BY <1>7, <1>8

\* When no output remains, all of them were received, and all were shown but
\* for the change.
LEMMA NothingRemains ==
  ASSUME NEW p \in Parsers, NEW h \in Contents, NEW shown,
         h.inputs = Len(h.tx.inputs), h.outputs <= StreamUnits(h.tx),
         Synced(p, h.tx, h.outputs), Covered(p, h.tx, shown), p.remainingOutputs = 0
  PROVE  Reviewed(h, shown)
  <1>1. h.tx \in Txs /\ h.outputs \in Nat
    BY DEF Contents
  <1>2. h.outputs = StreamUnits(h.tx) /\ Seen(p) = Len(h.tx.outputs)
    BY <1>1, SyncedUnits
  <1>3. h = WholeTx(h.tx)
    BY <1>2 DEF Contents, WholeTx
  <1>4. DOMAIN h.tx.outputs = 1..Seen(p)
    <2>1. h.tx.outputs \in Seq([script : Scripts, amount : Nat])
      BY <1>1, TxTypes
    <2>2. QED
      BY <2>1, <1>2
  <1>5. \A i \in DOMAIN h.tx.outputs : OutputAt(h.tx, i) = h.tx.outputs[i]
    BY DEF OutputAt
  <1>6. QED
    BY <1>3, <1>4, <1>5 DEF Reviewed, Covered

-----------------------------------------------------------------------------
\* What is stored and approved, step by step: a screen follows a block, and a
\* LAST block stores what it shows.

\* The screens of the outputs come with the hash a LAST block stores.
LEMMA StoredFinalizeFirst ==
  ASSUME TypeInv, AuthorizationInv, NEW last \in BOOLEAN, NEW n \in 1..BufferUnits + 1,
         FinalizeFirst(last, n)
  PROVE  AuthorizationInv'
  <1>1. /\ screen = NoScreen /\ up /\ up' /\ firstSigned' /\ hashed' = Absorb(n) /\ marked' = last
        /\ NoScreen.name = "none"
    BY DEF FinalizeFirst, Listening, flags, NoScreen
  <1>2. /\ transactionState' # "SIGN_READY"
        /\ screen' = screen \/ EndBlock(last, Absorb(n))
    <2>1. CASE DiscardTransaction /\ UNCHANGED screen
      BY <2>1 DEF DiscardTransaction
    <2>2. ASSUME NEW t, ReviewFull(last, n, t)
          PROVE  transactionState' = transactionState /\ EndBlock(last, Absorb(n))
      BY <2>2 DEF ReviewFull
    <2>3. ASSUME NEW r, ReviewSingle(last, n, r)
          PROVE  /\ transactionState' \in {transactionState, "NONE"}
                 /\ screen' = screen \/ EndBlock(last, Absorb(n))
      BY <2>3 DEF ReviewSingle, DiscardTransaction, FinalizeOrFail
    <2>4. transactionState = "PRESIGN_READY"
      BY DEF FinalizeFirst
    <2>5. QED
      BY <2>1, <2>2, <2>3, <2>4 DEF FinalizeFirst, ReviewOutputs
  <1>3. screen'.name \in {"single_output", "finalize", "full_output"} /\ marked' =>
          authorizationHash' = hashed'
    BY <1>1, <1>2 DEF EndBlock
  <1>4. QED
    BY <1>1, <1>2, <1>3 DEF AuthorizationInv, ReviewedHashStored

\* An accepted output changes nothing of what is stored.
LEMMA StoredAcceptOutput ==
  ASSUME TypeInv, AuthorizationInv, AcceptOutput
  PROVE  AuthorizationInv'
  <1>1. /\ screen.name = "single_output" /\ up
        /\ UNCHANGED <<firstSigned, hashed, authorizationHash, marked, approved, sealed>>
    BY DEF AcceptOutput, ScreenIs, flags
  <1>2. transactionState = "PRESIGN_READY"
    BY ReviewFacts DEF AcceptOutput
  <1>3. /\ transactionState' \in {transactionState, "NONE"}
        /\ ~up' => screen' = NoScreen
    <2>1. ASSUME NEW r, NEW units, AfterAccept(r, units)
          PROVE  /\ transactionState' \in {transactionState, "NONE"}
                 /\ ~up' => screen' = NoScreen
      BY <1>1, <2>1 DEF AfterAccept, AppExits, DiscardTransaction
    <2>2. QED
      BY <2>1 DEF AcceptOutput, AppExits
  <1>4. QED
    BY <1>1, <1>2, <1>3 DEF AuthorizationInv, ReviewedHashStored

\* A later input is ready only if it is what a LAST block stored.
LEMMA StoredFinalizeNext ==
  ASSUME AuthorizationInv, TypeInv', NEW last \in BOOLEAN, NEW n \in 1..BufferUnits + 1,
         FinalizeNext(last, n)
  PROVE  AuthorizationInv'
  <1>1. /\ screen = NoScreen /\ screen' = NoScreen /\ ~firstSigned /\ ~firstSigned'
        /\ NoScreen.name = "none"
        /\ UNCHANGED <<authorizationHash, approved, sealed, up>>
        /\ transactionState' = "SIGN_READY" => hashed' = authorizationHash
    BY DEF FinalizeNext, MatchesReview, Listening, flags, history, pass, NoScreen
  <1>2. transactionState' = "SIGN_READY" => hashed' \in Contents
    BY DEF TypeInv, InputsHashed
  <1>3. QED
    BY <1>1, <1>2, NoneIsNoContent DEF AuthorizationInv, ReviewedHashStored

\* What is stored, approved and ready stays in step, whatever the host does.
LEMMA AuthorizationStep ==
  ASSUME TypeInv, AuthorizationInv, TypeInv', [Next]_vars
  PROVE  AuthorizationInv'
  <1>0. NoScreen.name = "none" /\ ChangePathScreen.name = "change_path"
    BY DEF NoScreen, ChangePathScreen
  <1>1. CASE /\ transactionState' # "SIGN_READY" /\ screen' = NoScreen
             /\ authorizationHash' \in {authorizationHash, None}
             /\ firstSigned' \/ UNCHANGED <<firstSigned, approved, sealed>>
    BY <1>0, <1>1 DEF AuthorizationInv, ReviewedHashStored
  <1>2. CASE HashInputStart
    <2>1. /\ transactionState' # "SIGN_READY" /\ screen' = NoScreen
          /\ authorizationHash' = authorizationHash
          /\ firstSigned' \/ UNCHANGED <<firstSigned, approved, sealed>>
      BY <1>2
      DEF HashInputStart, StartFirst, BeginTransaction, StartFirstRefused, StartNext,
          StartWithoutFirst, StartNextRefused, MasterReset, KeepSession, Listening, flags,
          history, pass
    <2>2. QED
      BY <1>1, <2>1
  <1>3. CASE \E path \in Paths : SetChangePath(path)
    BY <1>0, <1>3 DEF SetChangePath, Listening, flags, AuthorizationInv, ReviewedHashStored
  <1>4. CASE FinalizeOutOfState \/ ChangePathRefused
    BY <1>0, <1>4
    DEF FinalizeOutOfState, ChangePathRefused, DiscardTransaction, Listening, flags, history, pass,
        AuthorizationInv, ReviewedHashStored
  <1>5. CASE \E last \in BOOLEAN, n \in 1..BufferUnits + 1 :
               FinalizeFirst(last, n) \/ FinalizeNext(last, n)
    BY <1>5, StoredFinalizeFirst, StoredFinalizeNext
  <1>6. CASE HashSign \/ RejectChangePath \/ RejectTransaction
    BY <1>1, <1>6
    DEF HashSign, Sign, SignRefused, RejectChangePath, RejectTransaction, DiscardTransaction,
        Listening, flags, history, pass
  <1>7. CASE TrustedInputFirst \/ TrustedInputNext
    BY <1>1, <1>7 DEF TrustedInputFirst, TrustedInputNext, Listening, history, pass
  <1>8. CASE SignMessage
    BY <1>0, <1>8
    DEF SignMessage, Listening, flags, history, pass, AuthorizationInv, ReviewedHashStored
  <1>9. CASE AcceptChangePath
    <2>1. transactionState = "PRESIGN_READY"
      BY <1>9, ReviewFacts DEF AcceptChangePath
    <2>2. QED
      BY <1>1, <1>9, <2>1 DEF AcceptChangePath, ScreenIs, flags
  <1>10. CASE AcceptOutput
    BY <1>10, StoredAcceptOutput
  <1>11. CASE AcceptTransaction
    BY <1>0, <1>11 DEF AcceptTransaction, ScreenIs, AuthorizationInv, ReviewedHashStored
  <1>12. CASE IoReset \/ Launch
    BY <1>0, <1>12 DEF IoReset, Launch, RamZeroed, AuthorizationInv, ReviewedHashStored
  <1>13. CASE UNCHANGED vars
    BY <1>13 DEF vars, flags, history, pass, AuthorizationInv, ReviewedHashStored
  <1>14. QED
    BY <1>2, <1>3, <1>4, <1>5, <1>6, <1>7, <1>8, <1>9, <1>10, <1>11, <1>12, <1>13
    DEF Next, HashInputFinalizeFull, OtherCommands, UserAnswers

\* The stored hash, the approval and what is ready to be signed stay in step
\* (btchip_apdu_hash_input_finalize_full.c:389-399), for every host.
THEOREM AuthorizationInvariance == Spec => []AuthorizationInv
  <1>1. Init => AuthorizationInv
    BY DEF Init, AuthorizationInv, ReviewedHashStored, NoScreen
  <1>2. TypeInv /\ TypeInv' /\ AuthorizationInv /\ [Next]_vars => AuthorizationInv'
    BY AuthorizationStep
  <1>3. QED
    BY <1>1, <1>2, TypeInvariance, PTL DEF Spec

\* "an intermediary hash of the txId that will be checked for each successive
\* inputs to sign" (btchip_apdu_hash_input_finalize_full.c:362): after a LAST block,
\* the stored hash is that of what the user looks at, for every host.
THEOREM ReviewedHashIsStored == Spec => []ReviewedHashStored
  BY AuthorizationInvariance, PTL DEF AuthorizationInv

\* Once a review that a LAST block had sealed is accepted, HASH_SIGN only ever
\* finds what was approved, for every host and whatever it sent or had rejected
\* before.  (Without the LAST block it may find more: SignReadyReviewed.)
THEOREM OnlyApprovedIsReady == Spec => []SignReadyApproved
  <1>1. AuthorizationInv => SignReadyApproved
    BY DEF AuthorizationInv, SignReadyApproved
  <1>2. QED
    BY <1>1, AuthorizationInvariance, PTL

-----------------------------------------------------------------------------
\* The review, step by step.  The steps that touch nothing of it leave it alone.

\* The review is what it was if all it speaks of is.
LEMMA ReviewUnchanged ==
  ASSUME ReviewInv,
         UNCHANGED <<transactionState, parseMode, firstSigned, hashed, parser, changeAddress,
                     changeAccepted, multipleOutput, screen, up, confirmed, disorder>>
  PROVE  ReviewInv'
  BY DEF ReviewInv, Covered, Reviewed, IsChange

\* Where no transaction is under review there is nothing to keep.
LEMMA NothingReviewed ==
  ASSUME \/ ~firstSigned' \/ ~up' \/ disorder' # {}
         \/ transactionState' \in {"NONE", "SIGN_READY"}
         \/ transactionState' = "PARSING" /\ parseMode' # "SIGNATURE"
  PROVE  ReviewInv'
  BY DEF ReviewInv

\* The reset leaves a fresh parser.
LEMMA FreshReset ==
  ASSUME NEW p
  PROVE  FreshParser(ParserReset(p))
  BY DEF FreshParser, ParserReset, Parser

\* With no unit of outputs received, a fresh parser is all there is to know.
LEMMA NothingReceived ==
  ASSUME TypeInv', hashed'.outputs = 0, FreshParser(parser'), confirmed' = {},
         screen' = NoScreen \/ screen'.name = "change_path"
  PROVE  ReviewInv'
  <1>1. NoScreen.name = "none"
    BY DEF NoScreen
  <1>2. transactionState' = "PRESIGN_READY" => hashed'.outputs <= StreamUnits(hashed'.tx)
    <2>1. SUFFICES ASSUME transactionState' = "PRESIGN_READY"
                   PROVE  0 <= StreamUnits(hashed'.tx)
      OBVIOUS
    <2>2. hashed'.tx \in Txs
      BY <2>1 DEF TypeInv, InputsHashed, Contents
    <2>3. StreamUnits(hashed'.tx) \in Nat
      BY <2>2, TxTypes
    <2>4. QED
      BY <2>3
  <1>3. FreshParser(parser)'
    BY DEF FreshParser
  <1>4. QED
    BY <1>1, <1>2, <1>3 DEF ReviewInv, FinalNames, StreamUnits

\* A new pass starts with a fresh parser and nothing confirmed.
LEMMA SigningStartFirst ==
  ASSUME TypeInv', NEW new \in BOOLEAN, NEW t \in Txs, StartFirst(new, t)
  PROVE  ReviewInv'
  <1>1. /\ parser' = ParserReset(parser) /\ confirmed' = {}
        /\ hashed'.outputs = 0 /\ screen' = NoScreen
    BY DEF StartFirst, BeginTransaction, StartPrelude, Listening
  <1>2. QED
    BY <1>1, FreshReset, NothingReceived

\* An input leaves the output parser alone.
LEMMA SigningStartNext ==
  ASSUME SigningInv, TypeInv', StartNext
  PROVE  ReviewInv'
  <1>1. /\ screen = NoScreen /\ parseMode = "SIGNATURE" /\ transactionState = "PARSING" /\ up
        /\ UNCHANGED <<screen, up, parseMode, firstSigned, parser, confirmed, disorder>>
    BY DEF StartNext, Listening, history, pass
  <1>2. hashed \in Contents /\ hashed.outputs = 0
    BY <1>1 DEF SigningInv, TypeInv, InputsPending
  <1>3. hashed'.outputs = 0
    <2>1. hashed' = hashed \/ hashed' = [hashed EXCEPT !.inputs = hashed.inputs + 1]
      BY DEF StartNext
    <2>2. QED
      BY <1>2, <2>1 DEF Contents
  <1>4. CASE firstSigned /\ disorder = {}
    <2>1. FreshParser(parser) /\ confirmed = {}
      BY <1>1, <1>4 DEF SigningInv, ReviewInv
    <2>2. QED
      BY <1>1, <1>3, <2>1, NothingReceived
  <1>5. CASE ~(firstSigned /\ disorder = {})
    BY <1>1, <1>5, NothingReviewed
  <1>6. QED
    BY <1>4, <1>5

\* The change path, named in order: no output was received yet.
LEMMA SigningSetChangePath ==
  ASSUME SigningInv, TypeInv', NEW path \in Paths, SetChangePath(path)
  PROVE  ReviewInv'
  <1>1. /\ transactionState = "PRESIGN_READY" /\ firstSigned /\ up /\ screen = NoScreen
        /\ screen' \in {NoScreen, ChangePathScreen}
        /\ parser' \in {parser, InState(parser, "NUMBER_OUTPUTS")}
        /\ UNCHANGED <<hashed, confirmed>>
        /\ disorder' = disorder \cup (IF hashed.outputs = 0 THEN {} ELSE {"change"})
    BY DEF SetChangePath, Listening, flags
  <1>2. CASE disorder' = {}
    <2>1. hashed.outputs = 0 /\ disorder = {}
      BY <1>1, <1>2
    <2>2. FreshParser(parser) /\ confirmed = {}
      BY <1>1, <2>1 DEF SigningInv, ReviewInv
    <2>3. FreshParser(parser')
      BY <1>1, <2>2 DEF FreshParser, InState, Parser
    <2>4. screen' = NoScreen \/ screen'.name = "change_path"
      BY <1>1 DEF ChangePathScreen, NoScreen
    <2>5. QED
      BY <1>1, <2>1, <2>2, <2>3, <2>4, NothingReceived
  <1>3. CASE disorder' # {}
    BY <1>3, NothingReviewed
  <1>4. QED
    BY <1>2, <1>3

\* A refused change path drops the transaction or changes nothing of the review.
LEMMA SigningChangePathRefused ==
  ASSUME SigningInv, ChangePathRefused
  PROVE  ReviewInv'
  <1>1. \/ transactionState' = "NONE"
        \/ UNCHANGED <<transactionState, parseMode, firstSigned, hashed, parser, changeAddress,
                       changeAccepted, multipleOutput, screen, up, confirmed, disorder>>
    BY DEF ChangePathRefused, DiscardTransaction, flags, change, history, pass
  <1>2. QED
    BY <1>1, NothingReviewed, ReviewUnchanged DEF SigningInv

\* An accepted change path keeps the invariant: no output was parsed yet.
LEMMA SigningAcceptChangePath ==
  ASSUME SigningInv, TypeInv', AcceptChangePath
  PROVE  ReviewInv'
  <1>1. /\ screen # NoScreen /\ screen.name = "change_path" /\ up
        /\ screen' = NoScreen /\ NoScreen.name = "none"
        /\ UNCHANGED <<firstSigned, hashed, parser, confirmed, disorder>>
    BY DEF AcceptChangePath, ScreenIs, NoScreen, flags, pass
  <1>2. transactionState = "PRESIGN_READY" /\ firstSigned
    BY <1>1 DEF SigningInv, TypeInv, ScreenInReview
  <1>3. CASE disorder = {}
    <2>1. hashed.outputs = 0
      BY <1>1, <1>2, <1>3 DEF SigningInv, ReviewInv, FinalNames
    <2>2. FreshParser(parser) /\ confirmed = {}
      BY <1>1, <1>2, <1>3, <2>1 DEF SigningInv, ReviewInv
    <2>3. QED
      BY <1>1, <2>1, <2>2, NothingReceived
  <1>4. CASE disorder # {}
    BY <1>1, <1>4, NothingReviewed
  <1>5. QED
    BY <1>3, <1>4

\* The change path is what it was, so what was shown still covers what it did.
LEMMA CoveredAfter ==
  ASSUME changeAddress' = changeAddress, changeAccepted' = changeAccepted
  PROVE  /\ Covered(parser', hashed'.tx, confirmed') => Covered(parser, hashed.tx, confirmed)'
         /\ Reviewed(hashed', confirmed' \cup {screen'.output}) =>
              Reviewed(hashed, confirmed \cup {screen.output})'
  BY DEF Covered, Reviewed, IsChange, OutputAt

\* Confirming more never uncovers an output.
LEMMA ReviewedMore ==
  ASSUME NEW h, NEW shown, NEW x, Reviewed(h, shown)
  PROVE  Reviewed(h, shown \cup {x})
  BY DEF Reviewed

\* What the first pass over the outputs leaves, whichever way it ends.
ReviewStep ==
  /\ transactionState' = "PRESIGN_READY"
  /\ hashed'.outputs # 0
  /\ hashed'.outputs <= StreamUnits(hashed'.tx)
  /\ hashed'.outputs < StreamUnits(hashed'.tx) => multipleOutput'
  /\ screen' = NoScreen \/ screen'.name \in FinalNames \cup {"single_output"}
  /\ screen'.name \notin FinalNames =>
       /\ Synced(parser', hashed'.tx, hashed'.outputs)
       /\ Covered(parser', hashed'.tx, confirmed')
       /\ IF screen' = NoScreen THEN Waiting(parser')
          ELSE Showing(parser') /\ screen'.output = Seen(parser') + 1
  /\ screen'.name \in FinalNames => Reviewed(hashed', confirmed' \cup {screen'.output})
  /\ UNCHANGED <<changeAddress, changeAccepted>>

\* A step of the review keeps the invariant.
LEMMA SigningReviewStep ==
  ASSUME ReviewStep
  PROVE  ReviewInv'
  <1>1. NoScreen.name = "none"
    BY DEF NoScreen
  <1>2. screen'.name \notin FinalNames => Covered(parser, hashed.tx, confirmed)'
    BY CoveredAfter DEF ReviewStep
  <1>3. screen'.name \in FinalNames => Reviewed(hashed, confirmed \cup {screen.output})'
    BY CoveredAfter DEF ReviewStep
  <1>4. screen'.name \notin FinalNames => Synced(parser, hashed.tx, hashed.outputs)'
    BY DEF ReviewStep, Synced, Seen
  <1>5. screen'.name \notin FinalNames =>
          IF screen' = NoScreen THEN Waiting(parser)'
          ELSE /\ screen'.name = "single_output"
               /\ Showing(parser)'
               /\ (screen.output = Seen(parser) + 1)'
    BY DEF ReviewStep, Waiting, Showing, Seen
  <1>6. /\ transactionState' = "PRESIGN_READY" /\ hashed'.outputs # 0
        /\ (hashed.outputs <= StreamUnits(hashed.tx))'
        /\ (hashed.outputs < StreamUnits(hashed.tx))' => multipleOutput'
    BY DEF ReviewStep, StreamUnits
  <1>7. QED
    BY <1>2, <1>3, <1>4, <1>5, <1>6 DEF ReviewInv, NoScreen

\* A transaction that fits one screen: the output it shows is the only one
\* that is not the change.
LEMMA FullOutputReviewed ==
  ASSUME NEW p, NEW t \in Txs, FullOutputReviewable(p, t), NEW x,
         x = CHOOSE i \in DOMAIN t.outputs : ~IsChange(t.outputs[i])
  PROVE  /\ \A i \in DOMAIN t.outputs \ {x} : IsChange(t.outputs[i])
         /\ \A i, j \in DOMAIN t.outputs \ {x} : i = j
  <1> DEFINE D == DOMAIN t.outputs
             changes == {i \in D : IsChange(t.outputs[i])}
  <1>1. /\ Len(t.outputs) - Cardinality(changes) = 1
        /\ Cardinality(changes) = 0 \/ Cardinality(changes) = 1
    BY DEF FullOutputReviewable
  <1>2. IsFiniteSet(D) /\ Cardinality(D) = Len(t.outputs) /\ Len(t.outputs) \in Nat
    <2>1. D = 1..Len(t.outputs) /\ Len(t.outputs) \in Nat
      BY TxTypes
    <2>2. IsFiniteSet(1..Len(t.outputs)) /\ Cardinality(1..Len(t.outputs)) = Len(t.outputs)
      BY <2>1, FS_Interval
    <2>3. QED
      BY <2>1, <2>2
  <1>3. changes \subseteq D /\ IsFiniteSet(changes)
    BY <1>2, FS_Subset
  <1>4. IsFiniteSet(D \ changes) /\ Cardinality(D \ changes) = 1
    <2>1. D \cap changes = changes
      BY <1>3
    <2>2. /\ IsFiniteSet(D \ changes)
          /\ Cardinality(D \ changes) = Cardinality(D) - Cardinality(D \cap changes)
      BY <1>2, FS_Difference
    <2> HIDE DEF changes, D
    <2>3. QED
      BY <2>1, <2>2, <1>1, <1>2
  <1>5. PICK y : D \ changes = {y}
    BY <1>4, FS_Singleton
  <1>6. x = y
    <2>1. \A i \in D : ~IsChange(t.outputs[i]) <=> i = y
      BY <1>5
    <2>2. y \in D
      BY <1>5
    <2>3. QED
      BY <2>1, <2>2
  <1>7. D \ {x} = changes
    BY <1>3, <1>5, <1>6
  <1>8. \A i, j \in changes : i = j
    <2> HIDE DEF changes
    <2>1. CASE Cardinality(changes) = 0
      BY <2>1, <1>3, FS_EmptySet
    <2>2. CASE Cardinality(changes) = 1
      <3>1. PICK z : changes = {z}
        BY <2>2, <1>3, FS_Singleton
      <3>2. QED
        BY <3>1
    <2>3. QED
      BY <1>1, <2>1, <2>2
  <1>9. QED
    BY <1>7, <1>8

\* A block in order, before it is parsed: the parser is fresh, or inside the
\* outputs and in step with what was received; its bytes are where it takes them
\* to be, and only a first block may ask for the one screen.
LEMMA BlockFacts ==
  ASSUME SigningInv, NEW last \in BOOLEAN,
         NEW n \in 1..BufferUnits + 1, FinalizeFirst(last, n), disorder' = {}
  PROVE  LET t == hashed.tx
             units == hashed.outputs + n
             b == Buffered(n)
         IN  /\ Listening /\ up /\ screen = NoScreen /\ NoScreen.name = "none"
             /\ transactionState = "PRESIGN_READY" /\ firstSigned /\ disorder = {}
             /\ t \in Txs /\ units \in Nat /\ units >= 1
             /\ units >= CountUnits /\ units <= StreamUnits(t)
             /\ last => units = StreamUnits(t)
             /\ hashed' = Absorb(n)
             /\ Absorb(n) \in Contents /\ Absorb(n).tx = t
             /\ Absorb(n).inputs = Len(t.inputs) /\ Absorb(n).outputs = units
             /\ UNCHANGED <<firstSigned, changeAddress, changeAccepted, up, confirmed, approved>>
             /\ b \in Parsers /\ b.totalOutputAmount = parser.totalOutputAmount
             /\ \A s \in Readings(b, units, disorder') : s.tx = t /\ s.units = units
             /\ hashed.outputs = 0 => \A x \in FullReadings(b, disorder') : x = t
             /\ hashed.outputs # 0 /\ last => multipleOutput
             /\ \/ /\ hashed.outputs = 0 /\ confirmed = {}
                   /\ b.outputParsingState = "NUMBER_OUTPUTS" /\ ~b.changeOutputFound
                   /\ b.currentOutputOffset = units
                \/ /\ hashed.outputs # 0
                   /\ Synced(b, t, units) /\ Covered(b, t, confirmed)
                   /\ Seen(b) = Seen(parser)
  <1> DEFINE t == hashed.tx
             units == hashed.outputs + n
             b == Buffered(n)
  <1>1. n \in Nat /\ n >= 1
    OBVIOUS
  <1>2. /\ Listening /\ transactionState = "PRESIGN_READY" /\ firstSigned
        /\ hashed' = Absorb(n)
        /\ disorder = {} /\ BlockDepartures(last, units) = {}
        /\ UNCHANGED <<firstSigned, changeAddress, changeAccepted, up, confirmed, approved>>
    BY DEF FinalizeFirst, flags
  <1>3. up /\ screen = NoScreen /\ NoScreen.name = "none"
    BY <1>2 DEF Listening, NoScreen
  <1>4. hashed \in Contents /\ hashed.inputs = Len(t.inputs) /\ TypeInv
    BY <1>2 DEF SigningInv, TypeInv, InputsHashed
  <1>5. /\ t \in Txs /\ units \in Nat /\ units >= 1 /\ hashed.outputs \in Nat
        /\ hashed.outputs < units
    BY <1>1, <1>4 DEF Contents
  <1>a. CountUnits \in Nat /\ StreamUnits(t) \in Nat
    BY <1>5, TxTypes
  <1>b. /\ ~(units < CountUnits) /\ ~(last /\ units < StreamUnits(t)) /\ ~(units > StreamUnits(t))
    BY <1>2 DEF BlockDepartures
  <1> HIDE DEF units
  <1>c. units >= CountUnits /\ units <= StreamUnits(t) /\ (last => units = StreamUnits(t))
    BY <1>5, <1>a, <1>b
  <1>d. hashed.outputs # 0 /\ last => multipleOutput
    <2>1. last => hashed.outputs < StreamUnits(t)
      BY <1>5, <1>a, <1>c
    <2>2. QED
      BY <2>1, <1>2, <1>3 DEF SigningInv, ReviewInv
  <1>e. \A s \in Readings(b, units, disorder') : s.tx = t /\ s.units = units
    BY DEF Readings, Misread
  <1>6. /\ Absorb(n) \in Contents /\ Absorb(n).tx = t
        /\ Absorb(n).inputs = Len(t.inputs) /\ Absorb(n).outputs = units
    BY <1>1, <1>4 DEF Absorb, Contents, units
  <1>7. b \in Parsers
    BY <1>1, <1>4, BufferedType
  <1>8. /\ b.outputParsingState = parser.outputParsingState
        /\ b.currentOutputOffset = parser.currentOutputOffset + n
        /\ b.remainingOutputs = parser.remainingOutputs
        /\ b.totalOutputs = parser.totalOutputs
        /\ b.changeOutputFound = parser.changeOutputFound
        /\ b.totalOutputAmount = parser.totalOutputAmount
    BY DEF Buffered, Parser
  <1>9. CASE hashed.outputs = 0
    <2>1. FreshParser(parser) /\ confirmed = {}
      BY <1>9, <1>2, <1>3 DEF SigningInv, ReviewInv
    <2>2. /\ b.outputParsingState = "NUMBER_OUTPUTS" /\ ~b.changeOutputFound
          /\ b.currentOutputOffset = units
      BY <2>1, <1>9, <1>1, <1>8 DEF FreshParser, units
    <2>3. \A x \in FullReadings(b, disorder') : x = t
      BY <2>2 DEF FullReadings, Misread
    <2> HIDE DEF b
    <2>4. QED
      BY <2>1, <2>2, <2>3, <1>9, <1>2, <1>3, <1>5, <1>6, <1>7, <1>8, <1>c, <1>d, <1>e DEF b, units
  <1>10. CASE hashed.outputs # 0
    <2>1. Synced(parser, t, hashed.outputs) /\ Covered(parser, t, confirmed)
      BY <1>10, <1>2, <1>3 DEF SigningInv, ReviewInv, FinalNames
    <2>2. parser.currentOutputOffset \in Int /\ parser.remainingOutputs \in Int
          /\ parser.totalOutputs \in Nat
      BY <1>4, ParserFields DEF TypeInv, TypeOK
    <2>3. Seen(b) = Seen(parser)
      BY <1>8 DEF Seen
    <2>4. Seen(parser) \in Int
      BY <2>2 DEF Seen
    <2>5. units - b.currentOutputOffset = hashed.outputs - parser.currentOutputOffset
      BY <1>1, <1>5, <1>8, <2>2 DEF units
    <2>6. Synced(b, t, units)
      BY <2>1, <2>2, <2>3, <2>5, <1>1, <1>8 DEF Synced
    <2>7. Covered(b, t, confirmed)
      BY <2>1, <2>3, <1>8 DEF Covered
    <2> HIDE DEF b
    <2>8. QED
      BY <2>3, <2>6, <2>7, <1>10, <1>2, <1>3, <1>5, <1>6, <1>7, <1>8, <1>c, <1>d, <1>e DEF b, units
  <1>11. QED
    BY <1>9, <1>10

\* What the loop makes of a block in order.
LEMMA BlockParsed ==
  ASSUME SigningInv, NEW last \in BOOLEAN,
         NEW n \in 1..BufferUnits + 1, FinalizeFirst(last, n), disorder' = {}
  PROVE  LoopResult(ParseOutputs(Buffered(n), hashed.tx, hashed.outputs + n),
                    hashed.tx, hashed.outputs + n, confirmed)
  <1> DEFINE b == Buffered(n)
             units == hashed.outputs + n
  <1>1. /\ b \in Parsers /\ hashed.tx \in Txs /\ units \in Nat
        /\ units >= CountUnits /\ units <= StreamUnits(hashed.tx)
        /\ \/ /\ hashed.outputs = 0 /\ confirmed = {}
              /\ b.outputParsingState = "NUMBER_OUTPUTS" /\ ~b.changeOutputFound
              /\ b.currentOutputOffset = units
           \/ hashed.outputs # 0 /\ Synced(b, hashed.tx, units) /\ Covered(b, hashed.tx, confirmed)
    BY BlockFacts
  <1> HIDE DEF b, units
  <1>2. LoopResult(ParseOutputs(b, hashed.tx, units), hashed.tx, units, confirmed)
    <2>1. CASE hashed.outputs = 0
      BY <2>1, <1>1, LoopFresh
    <2>2. CASE hashed.outputs # 0
      BY <2>2, <1>1, LoopSynced
    <2>3. QED
      BY <2>1, <2>2
  <1>3. QED
    BY <1>2 DEF b, units

\* The ways a block in order goes on to be reviewed.
LEMMA BlockCases ==
  ASSUME SigningInv, NEW last \in BOOLEAN,
         NEW n \in 1..BufferUnits + 1, FinalizeFirst(last, n), disorder' = {}
  PROVE  \/ parser.currentOutputOffset + n > BufferUnits /\ DiscardTransaction
         \/ last /\ hashed.outputs = 0 /\ ReviewFull(last, n, hashed.tx)
         \/ ReviewSingle(last, n, [tx |-> hashed.tx, units |-> hashed.outputs + n])
  <1> DEFINE t == hashed.tx
             units == hashed.outputs + n
  <1>1. /\ \A s \in Readings(Buffered(n), units, disorder') : s.tx = t /\ s.units = units
        /\ hashed.outputs = 0 => \A x \in FullReadings(Buffered(n), disorder') : x = t
        /\ hashed.outputs # 0 /\ last => multipleOutput
    BY BlockFacts
  <1>2. ASSUME NEW x \in FullReadings(Buffered(n), disorder'), ReviewFull(last, n, x)
        PROVE  last /\ hashed.outputs = 0 /\ ReviewFull(last, n, t)
    <2>1. last /\ hashed.outputs = 0
      BY <1>1, <1>2 DEF ReviewFull
    <2>2. x = t
      BY <1>1, <2>1
    <2>3. QED
      BY <1>2, <2>1, <2>2
  <1>3. ASSUME NEW s \in Readings(Buffered(n), units, disorder'), ReviewSingle(last, n, s)
        PROVE  ReviewSingle(last, n, [tx |-> t, units |-> units])
    <2>1. s.tx = t /\ s.units = units
      BY <1>1
    <2>2. QED
      BY <1>3, <2>1 DEF ReviewSingle
  <1>4. QED
    BY <1>2, <1>3 DEF FinalizeFirst, ReviewOutputs

\* A block under review keeps the invariant, one-screen review included.
LEMMA SigningFinalizeFirst ==
  ASSUME SigningInv, TypeInv', NEW last \in BOOLEAN,
         NEW n \in 1..BufferUnits + 1, FinalizeFirst(last, n)
  PROVE  ReviewInv'
  <1> SUFFICES ASSUME disorder' = {}, transactionState' # "NONE"
               PROVE  ReviewInv'
    BY NothingReviewed
  <1> DEFINE t == hashed.tx
             units == hashed.outputs + n
             r == ParseOutputs(Buffered(n), t, units)
  <1>1. /\ screen = NoScreen /\ NoScreen.name = "none"
        /\ transactionState = "PRESIGN_READY"
        /\ t \in Txs /\ units \in Nat /\ units >= 1 /\ units <= StreamUnits(t)
        /\ last => units = StreamUnits(t)
        /\ hashed' = Absorb(n)
        /\ UNCHANGED <<changeAddress, changeAccepted, confirmed>>
    BY BlockFacts
  <1>2. /\ Absorb(n) \in Contents /\ Absorb(n).tx = t
        /\ Absorb(n).inputs = Len(t.inputs) /\ Absorb(n).outputs = units
    BY BlockFacts
  <1>3. LoopResult(r, t, units, confirmed)
    BY BlockParsed
  <1>4. EndBlock(last, Absorb(n)) => (units < StreamUnits(t) => multipleOutput')
    BY <1>1, TxTypes DEF EndBlock
  <1>5. CASE last /\ ReviewFull(last, n, t)
    <2>0. /\ FullOutputReviewable(Buffered(n), t) /\ screen' = FullOutputScreen(t)
          /\ EndBlock(last, Absorb(n)) /\ UNCHANGED transactionState
      BY <1>5 DEF ReviewFull
    <2>1. screen'.name = "full_output" /\ screen'.output = CHOOSE i \in DOMAIN t.outputs : ~IsChange(t.outputs[i])
      BY <2>0 DEF FullOutputScreen
    <2>2. hashed' = WholeTx(t)
      BY <1>5, <1>1, <1>2 DEF Contents, WholeTx
    <2>3. /\ \A i \in DOMAIN t.outputs \ {screen'.output} : IsChange(t.outputs[i])
          /\ \A i, j \in DOMAIN t.outputs \ {screen'.output} : i = j
      BY <2>0, <2>1, <1>1, FullOutputReviewed
    <2>4. Reviewed(hashed', confirmed' \cup {screen'.output})
      BY <2>2, <2>3, <1>1, <1>2 DEF Reviewed
    <2>5. ReviewStep
      BY <2>0, <2>1, <2>4, <1>1, <1>2, <1>4 DEF ReviewStep, FinalNames
    <2>6. QED
      BY <2>5, SigningReviewStep
  <1> HIDE DEF r
  <1>6. CASE /\ r.outcome = "display"
             /\ parser' = r.parser
             /\ screen' = SingleOutputScreen(r.parser, units)
             /\ EndBlock(last, Absorb(n))
             /\ UNCHANGED transactionState
    <2>1. /\ r.parser \in Parsers /\ Synced(r.parser, t, units)
          /\ Covered(r.parser, t, confirmed) /\ Showing(r.parser)
      BY <1>6, <1>3 DEF LoopResult, TurnResult
    <2>2. HeadOutput(r.parser, units) = Seen(r.parser) + 1
      BY <2>1, <1>1, SyncedUnits
    <2>3. /\ screen'.name = "single_output" /\ screen'.output = Seen(r.parser) + 1
          /\ screen' # NoScreen
      BY <1>6, <2>2, <1>1 DEF SingleOutputScreen
    <2>4. ReviewStep
      BY <1>6, <2>1, <2>3, <1>1, <1>2, <1>4 DEF ReviewStep, FinalNames
    <2>5. QED
      BY <2>4, SigningReviewStep
  <1>7. CASE /\ r.outcome = "wait" /\ r.parser.remainingOutputs # 0
             /\ parser' = r.parser
             /\ EndBlock(last, Absorb(n))
             /\ UNCHANGED <<transactionState, screen>>
    <2>1. /\ r.parser \in Parsers /\ Synced(r.parser, t, units)
          /\ Covered(r.parser, t, confirmed) /\ r.parser.currentOutputOffset < 2
      BY <1>7, <1>3 DEF LoopResult, TurnResult
    <2>2. Waiting(r.parser)
      BY <1>7, <2>1, ParserFields DEF Waiting, Synced
    <2>3. ReviewStep
      BY <1>7, <2>1, <2>2, <1>1, <1>2, <1>4 DEF ReviewStep, FinalNames
    <2>4. QED
      BY <2>3, SigningReviewStep
  <1>8. CASE /\ r.outcome = "wait" /\ r.parser.remainingOutputs = 0
             /\ FinalizeOrFail(r.parser)
             /\ EndBlock(last, Absorb(n))
    <2>1. /\ r.parser \in Parsers /\ Synced(r.parser, t, units)
          /\ Covered(r.parser, t, confirmed)
      BY <1>8, <1>3 DEF LoopResult, TurnResult
    <2>2. Reviewed(Absorb(n), confirmed)
      BY <1>8, <2>1, <1>1, <1>2, NothingRemains
    <2>3. /\ screen' = FinalizeScreen(r.parser.totalOutputAmount)
          /\ UNCHANGED transactionState
      BY <1>8 DEF FinalizeOrFail
    <2>4. screen'.name = "finalize"
      BY <2>3 DEF FinalizeScreen
    <2>5. Reviewed(hashed', confirmed' \cup {screen'.output})
      BY <2>2, <1>1, ReviewedMore
    <2>6. ReviewStep
      BY <1>8, <2>3, <2>4, <2>5, <1>1, <1>2, <1>4 DEF ReviewStep, FinalNames
    <2>7. QED
      BY <2>6, SigningReviewStep
  <1>9. QED
    <2>1. ASSUME ReviewSingle(last, n, [tx |-> t, units |-> units])
          PROVE  ReviewInv'
      BY <2>1, <1>6, <1>7, <1>8 DEF ReviewSingle, DiscardTransaction, Misread, r
    <2>2. QED
      BY <1>5, <2>1, BlockCases DEF DiscardTransaction

\* An output just accepted in order: the parser without it is in step with what
\* was received.
LEMMA AcceptFacts ==
  ASSUME SigningInv, AcceptOutput, disorder = {}
  PROVE  LET t == hashed.tx
             units == hashed.outputs
             q == AcceptedParser(parser, OutputUnits)
             shown == confirmed \cup {screen.output}
         IN  /\ screen # NoScreen /\ screen.name = "single_output" /\ up
             /\ NoScreen.name = "none"
             /\ transactionState = "PRESIGN_READY" /\ firstSigned
             /\ hashed \in Contents /\ t \in Txs /\ units \in Nat /\ units # 0
             /\ hashed.inputs = Len(t.inputs) /\ units <= StreamUnits(t)
             /\ units < StreamUnits(t) => multipleOutput
             /\ confirmed' = shown
             /\ UNCHANGED <<firstSigned, hashed, changeAddress, changeAccepted, multipleOutput,
                            authorizationHash, disorder>>
             /\ q \in Parsers /\ q.remainingOutputs = parser.remainingOutputs - 1
             /\ q.totalOutputAmount = parser.totalOutputAmount
             /\ Seen(q) = Seen(parser) + 1 /\ Seen(parser) \in Nat
             /\ Synced(q, t, units) /\ Covered(q, t, shown)
             /\ AcceptedParser(parser, 0).remainingOutputs = q.remainingOutputs
             /\ AcceptedParser(parser, 0).totalOutputAmount = q.totalOutputAmount
  <1> DEFINE t == hashed.tx
             units == hashed.outputs
             remaining == parser.remainingOutputs - 1
  <1>1. ScreenIs("single_output")
    BY DEF AcceptOutput
  <1>2. /\ screen # NoScreen /\ screen.name = "single_output" /\ up
        /\ transactionState = "PRESIGN_READY" /\ firstSigned
        /\ hashed \in Contents /\ t \in Txs /\ units \in Nat
        /\ hashed.inputs = Len(t.inputs)
    BY <1>1, ReviewFacts DEF SigningInv, ScreenIs
  <1>3. /\ parser \in Parsers /\ parser.currentOutputOffset \in Int
        /\ parser.remainingOutputs \in Int /\ parser.totalOutputs \in Nat
        /\ parser.totalOutputAmount \in Nat /\ parser.changeOutputFound \in BOOLEAN
    BY ParserFields DEF SigningInv, TypeInv, TypeOK
  <1>4. units # 0
    <2>1. SUFFICES ASSUME units = 0 PROVE FALSE
      OBVIOUS
    <2>2. screen.name \in {"none", "change_path"}
      BY <2>1, <1>2 DEF SigningInv, ReviewInv
    <2>3. QED
      BY <2>2, <1>2
  <1>5. /\ Synced(parser, t, units) /\ Covered(parser, t, confirmed)
        /\ Showing(parser) /\ screen.output = Seen(parser) + 1
    BY <1>2, <1>4 DEF SigningInv, ReviewInv, FinalNames
  <1>6. units <= StreamUnits(t) /\ (units < StreamUnits(t) => multipleOutput)
    BY <1>2, <1>4 DEF SigningInv, ReviewInv
  <1>7. /\ confirmed' = confirmed \cup {screen.output}
        /\ UNCHANGED <<firstSigned, hashed, changeAddress, changeAccepted, multipleOutput,
                       authorizationHash, disorder>>
    BY DEF AcceptOutput, flags, change
  <1> DEFINE q == AcceptedParser(parser, 2)
             shown == confirmed \cup {screen.output}
  <1>8. q \in Parsers
    <2>1. /\ parser.currentOutputOffset - 2 \in Int /\ remaining \in Int
          /\ "OUTPUT" \in ParsingStates
      BY <1>3 DEF ParsingStates
    <2>2. QED
      BY <2>1, <1>3, ParserType DEF AcceptedParser
  <1>9. /\ q.outputParsingState = "OUTPUT"
        /\ q.currentOutputOffset = parser.currentOutputOffset - 2
        /\ q.remainingOutputs = remaining
        /\ q.totalOutputs = parser.totalOutputs
        /\ q.changeOutputFound = parser.changeOutputFound
        /\ q.totalOutputAmount = parser.totalOutputAmount
    BY DEF AcceptedParser, Parser
  <1>10. /\ AcceptedParser(parser, 0).remainingOutputs = remaining
         /\ AcceptedParser(parser, 0).totalOutputAmount = parser.totalOutputAmount
    BY DEF AcceptedParser, Parser
  <1>a. AcceptedParser(parser, OutputUnits) = q
    BY DEF OutputUnits
  <1> HIDE DEF q
  <1>11. Seen(q) = Seen(parser) + 1 /\ Seen(parser) \in Nat
    <2>1. /\ q.totalOutputs = parser.totalOutputs
          /\ q.remainingOutputs = parser.remainingOutputs - 1
      BY <1>9
    <2>2. Seen(q) = Seen(parser) + 1
      BY <2>1, <1>3 DEF Seen
    <2>3. Seen(parser) \in Nat
      BY <1>3, <1>5 DEF Seen, Synced
    <2>4. QED
      BY <2>2, <2>3
  <1>12. Synced(q, t, units)
    <2>1. units - q.currentOutputOffset = CountUnits + 2 * Seen(q)
      <3>1. units - parser.currentOutputOffset = CountUnits + 2 * Seen(parser)
        BY <1>5 DEF Synced
      <3>2. q.currentOutputOffset = parser.currentOutputOffset - 2
        BY <1>9
      <3>3. /\ CountUnits \in Int /\ units \in Int /\ parser.currentOutputOffset \in Int
            /\ Seen(parser) \in Int /\ Seen(q) = Seen(parser) + 1
        BY <1>2, <1>3, <1>11, TxTypes
      <3> HIDE DEF units
      <3>4. QED
        BY <3>1, <3>2, <3>3
    <2>2. q.remainingOutputs >= 0 /\ q.remainingOutputs <= q.totalOutputs
          /\ q.currentOutputOffset >= 0
      BY <1>3, <1>5, <1>9 DEF Synced, Showing
    <2>3. QED
      BY <2>1, <2>2, <1>5, <1>9 DEF Synced
  <1>13. Covered(q, t, shown)
    <2>1. 1..Seen(q) = (1..Seen(parser)) \cup {screen.output}
      BY <1>5, <1>11
    <2>2. (1..Seen(q)) \ shown \subseteq (1..Seen(parser)) \ confirmed
      BY <2>1
    <2>3. QED
      BY <2>1, <2>2, <1>5, <1>9 DEF Covered
  <1>14. NoScreen.name = "none"
    BY DEF NoScreen
  <1>15. QED
    BY <1>2, <1>4, <1>6, <1>7, <1>8, <1>9, <1>10, <1>a, <1>11, <1>12, <1>13, <1>14

\* What follows an output accepted in order.
LEMMA AcceptParsed ==
  ASSUME SigningInv, AcceptOutput, disorder = {}
  PROVE  AfterAccept(IF parser.remainingOutputs - 1 = 0
                       THEN [outcome |-> "wait", parser |-> AcceptedParser(parser, 0)]
                       ELSE ParseOutputs(AcceptedParser(parser, OutputUnits), hashed.tx, hashed.outputs),
                     hashed.outputs)
  <1>1. \A s \in Readings(AcceptedParser(parser, OutputUnits), hashed.outputs, disorder) :
          s.tx = hashed.tx /\ s.units = hashed.outputs
    BY DEF Readings, Misread
  <1>2. ~Misread(disorder)
    BY DEF Misread
  <1>3. QED
    BY <1>1, <1>2 DEF AcceptOutput

\* An output is accepted.
LEMMA SigningAcceptOutput ==
  ASSUME SigningInv, TypeInv', AcceptOutput
  PROVE  ReviewInv'
  <1>0. disorder' = disorder
    BY DEF AcceptOutput
  <1> SUFFICES ASSUME disorder = {}, transactionState' # "NONE", up' # FALSE
               PROVE  ReviewInv'
    BY <1>0, NothingReviewed
  <1> DEFINE t == hashed.tx
             units == hashed.outputs
             q == AcceptedParser(parser, OutputUnits)
             remaining == parser.remainingOutputs - 1
             shown == confirmed \cup {screen.output}
             r == IF remaining = 0
                    THEN [outcome |-> "wait", parser |-> AcceptedParser(parser, 0)]
                    ELSE ParseOutputs(q, t, units)
  <1>a. AfterAccept(r, units)
    BY AcceptParsed
  <1> HIDE DEF q
  <1>1. /\ screen # NoScreen /\ screen.name = "single_output" /\ up
        /\ NoScreen.name = "none"
        /\ transactionState = "PRESIGN_READY" /\ firstSigned
        /\ hashed \in Contents /\ t \in Txs /\ units \in Nat /\ units # 0
        /\ hashed.inputs = Len(t.inputs) /\ units <= StreamUnits(t)
        /\ units < StreamUnits(t) => multipleOutput
        /\ confirmed' = shown
        /\ UNCHANGED <<firstSigned, hashed, changeAddress, changeAccepted, multipleOutput>>
    BY AcceptFacts
  <1>2. /\ q \in Parsers /\ q.remainingOutputs = remaining
        /\ Synced(q, t, units) /\ Covered(q, t, shown)
        /\ AcceptedParser(parser, 0).remainingOutputs = remaining
    BY AcceptFacts DEF q
  <1> HIDE DEF shown
  <1>3. CASE /\ r.outcome = "display"
             /\ parser' = r.parser
             /\ screen' = SingleOutputScreen(r.parser, units)
             /\ UNCHANGED <<transactionState, up>>
    <2>1. LoopResult(r, t, units, shown)
      BY <1>3, <1>1, <1>2, LoopSynced
    <2>2. /\ r.parser \in Parsers /\ Synced(r.parser, t, units)
          /\ Covered(r.parser, t, shown) /\ Showing(r.parser)
      BY <1>3, <2>1 DEF LoopResult, TurnResult
    <2> HIDE DEF r
    <2>3. HeadOutput(r.parser, units) = Seen(r.parser) + 1
      BY <2>2, <1>1, SyncedUnits
    <2>4. /\ screen'.name = "single_output" /\ screen'.output = Seen(r.parser) + 1
      BY <1>3, <2>3 DEF SingleOutputScreen
    <2>5. ReviewStep
      BY <1>3, <2>2, <2>4, <1>1 DEF ReviewStep, FinalNames, shown
    <2>6. QED
      BY <2>5, SigningReviewStep
  <1>4. CASE /\ r.outcome = "wait" /\ r.parser.remainingOutputs # 0
             /\ parser' = r.parser
             /\ screen' = NoScreen
             /\ UNCHANGED <<transactionState, up>>
    <2>1. LoopResult(r, t, units, shown)
      BY <1>4, <1>1, <1>2, LoopSynced
    <2>2. /\ r.parser \in Parsers /\ Synced(r.parser, t, units)
          /\ Covered(r.parser, t, shown) /\ r.parser.currentOutputOffset < 2
      BY <1>4, <2>1 DEF LoopResult, TurnResult
    <2> HIDE DEF r
    <2>3. Waiting(r.parser)
      BY <1>4, <2>2, ParserFields DEF Waiting, Synced
    <2>4. ReviewStep
      BY <1>4, <2>2, <2>3, <1>1 DEF ReviewStep, FinalNames, shown
    <2>5. QED
      BY <2>4, SigningReviewStep
  <1>5. CASE /\ r.outcome = "wait" /\ r.parser.remainingOutputs = 0
             /\ screen' = FinalizeScreen(r.parser.totalOutputAmount)
             /\ UNCHANGED <<transactionState, up>>
    <2>1. Reviewed(hashed, shown)
      <3>1. CASE remaining = 0
        BY <3>1, <1>1, <1>2, NothingRemains
      <3>2. CASE remaining # 0
        <4>1. LoopResult(r, t, units, shown)
          BY <3>2, <1>1, <1>2, LoopSynced
        <4>2. /\ r.parser \in Parsers /\ Synced(r.parser, t, units)
              /\ Covered(r.parser, t, shown) /\ r.parser.remainingOutputs = 0
          BY <1>5, <4>1 DEF LoopResult, TurnResult
        <4> HIDE DEF r
        <4>3. QED
          BY <4>2, <1>1, NothingRemains
      <3>3. QED
        BY <3>1, <3>2
    <2>2. screen'.name = "finalize"
      BY <1>5 DEF FinalizeScreen
    <2>3. Reviewed(hashed', confirmed' \cup {screen'.output})
      BY <2>1, <1>1, ReviewedMore DEF shown
    <2>4. ReviewStep
      BY <1>5, <2>1, <2>2, <2>3, <1>1 DEF ReviewStep, FinalNames
    <2>5. QED
      BY <2>4, SigningReviewStep
  <1> HIDE DEF r
  <1>6. QED
    BY <1>a, <1>3, <1>4, <1>5 DEF AfterAccept, AppExits, DiscardTransaction

\* Every step keeps the review in step.
LEMMA ReviewStepKeeps ==
  ASSUME SigningInv, TypeInv', [Next]_vars
  PROVE  ReviewInv'
  <1>1. CASE HashInputStart
    <2>1. CASE \/ StartNextRefused
               \/ \E new \in BOOLEAN : StartFirstRefused(new)
               \/ \E t \in Txs : StartWithoutFirst(t)
      BY <2>1, NothingReviewed DEF StartNextRefused, StartFirstRefused, StartWithoutFirst
    <2>2. QED
      BY <1>1, <2>1, SigningStartFirst, SigningStartNext DEF HashInputStart
  <1>2. CASE HashInputFinalizeFull
    <2>1. ASSUME NEW last \in BOOLEAN, NEW n \in 1..BufferUnits + 1, FinalizeNext(last, n)
          PROVE  ReviewInv'
      BY <2>1, NothingReviewed DEF FinalizeNext, flags
    <2>2. CASE FinalizeOutOfState
      BY <2>2, NothingReviewed DEF FinalizeOutOfState, DiscardTransaction
    <2>3. QED
      BY <1>2, <2>1, <2>2, SigningSetChangePath, SigningChangePathRefused, SigningFinalizeFirst
      DEF HashInputFinalizeFull
  <1>3. CASE HashSign \/ RejectTransaction \/ RejectChangePath \/ AcceptTransaction
    BY <1>3, NothingReviewed
    DEF HashSign, Sign, SignRefused, RejectTransaction, RejectChangePath, AcceptTransaction,
        DiscardTransaction
  <1>4. CASE TrustedInputFirst \/ TrustedInputNext
    BY <1>4, NothingReviewed DEF TrustedInputFirst, TrustedInputNext
  <1>5. CASE SignMessage
    BY <1>5, ReviewUnchanged DEF SignMessage, SigningInv, flags, change, history, pass
  <1>6. CASE AcceptChangePath
    BY <1>6, SigningAcceptChangePath
  <1>7. CASE AcceptOutput
    BY <1>7, SigningAcceptOutput
  <1>8. CASE IoReset \/ Launch
    BY <1>8, NothingReviewed DEF IoReset, Launch, RamZeroed
  <1>9. CASE UNCHANGED vars
    BY <1>9, ReviewUnchanged DEF vars, SigningInv, flags, change, history, pass
  <1>10. QED
    BY <1>1, <1>2, <1>3, <1>4, <1>5, <1>6, <1>7, <1>8, <1>9 DEF Next, OtherCommands, UserAnswers

\* The inductive invariant holds at the start.
LEMMA SigningInit ==
  ASSUME Init
  PROVE  SigningInv
  <1>1. TypeInv
    BY TypeInit
  <1>2. QED
    BY <1>1 DEF Init, SigningInv, ReviewInv, AuthorizationInv, ReviewedHashStored, NoScreen

\* Every step keeps the invariant.
LEMMA SigningStep ==
  ASSUME SigningInv, [Next]_vars
  PROVE  SigningInv'
  <1>1. TypeInv'
    BY TypeStep DEF SigningInv
  <1>2. AuthorizationInv'
    BY <1>1, AuthorizationStep DEF SigningInv
  <1>3. ReviewInv'
    BY <1>1, ReviewStepKeeps
  <1>4. QED
    BY <1>1, <1>2, <1>3 DEF SigningInv

\* The inductive invariant of the review (btchip_apdu_hash_input_finalize_full
\* and the answers to its screens) holds in every reachable state.
THEOREM SigningInvariance == Spec => []SigningInv
  <1>1. Init => SigningInv
    BY SigningInit
  <1>2. SigningInv /\ [Next]_vars => SigningInv'
    BY SigningStep
  <1>3. QED
    BY <1>1, <1>2, PTL DEF Spec

-----------------------------------------------------------------------------
\* What follows from the invariant.

\* The last screen of a review in order is up only during a review.
LEMMA FinalScreenUp ==
  ASSUME SigningInv, screen.name \in FinalNames, disorder = {}
  PROVE  /\ screen # NoScreen /\ screen.name # "change_path" /\ up /\ firstSigned
         /\ transactionState = "PRESIGN_READY"
         /\ hashed \in Contents /\ hashed.tx \in Txs
         /\ Reviewed(hashed, confirmed \cup {screen.output})
  <1>1. screen # NoScreen /\ screen.name # "change_path"
    BY DEF NoScreen, FinalNames
  <1>2. up /\ firstSigned /\ transactionState = "PRESIGN_READY"
    BY <1>1 DEF SigningInv, AuthorizationInv, TypeInv, ScreenInReview
  <1>3. hashed \in Contents
    BY <1>2 DEF SigningInv, TypeInv, InputsHashed
  <1>4. hashed.tx \in Txs
    BY <1>3 DEF Contents
  <1>5. Reviewed(hashed, confirmed \cup {screen.output})
    BY <1>2 DEF SigningInv, ReviewInv
  <1>6. QED
    BY <1>1, <1>2, <1>3, <1>4, <1>5

\* The invariant implies ReviewCovered.
LEMMA SigningCovers ==
  ASSUME SigningInv
  PROVE  ReviewCovered
  <1> SUFFICES ASSUME screen.name \in FinalNames, disorder = {}
               PROVE  /\ hashed = WholeTx(hashed.tx)
                      /\ \A i \in HiddenOutputs : IsChange(hashed.tx.outputs[i])
                      /\ Cardinality(HiddenOutputs) <= 1
    BY DEF ReviewCovered, FinalNames
  <1>1. Reviewed(hashed, confirmed \cup {screen.output})
    BY FinalScreenUp
  <1>2. HiddenOutputs = DOMAIN hashed.tx.outputs \ (confirmed \cup {screen.output})
    BY DEF HiddenOutputs
  <1>3. \A i, j \in HiddenOutputs : i = j
    BY <1>1, <1>2 DEF Reviewed
  <1>4. Cardinality(HiddenOutputs) <= 1
    <2> HIDE DEF HiddenOutputs
    <2>1. CASE HiddenOutputs = {}
      BY <2>1, FS_EmptySet
    <2>2. CASE HiddenOutputs # {}
      <3>1. PICK x : x \in HiddenOutputs
        BY <2>2
      <3>2. HiddenOutputs = {x}
        BY <3>1, <1>3
      <3>3. Cardinality({x}) = 1
        BY FS_Singleton
      <3>4. QED
        BY <3>2, <3>3
    <2>3. QED
      BY <2>1, <2>2
  <1>5. QED
    BY <1>1, <1>2, <1>4 DEF Reviewed

\* The invariant implies OutputNumbering.
LEMMA SigningNumbers ==
  ASSUME SigningInv
  PROVE  OutputNumbering
  <1> SUFFICES ASSUME screen.name = "single_output", disorder = {}
               PROVE  /\ screen.output = Seen(parser) + 1
                      /\ screen.output \in DOMAIN hashed.tx.outputs
                      /\ screen.output \notin confirmed
    BY DEF OutputNumbering, Seen
  <1>1. screen # NoScreen
    BY DEF NoScreen
  <1>2. up /\ firstSigned /\ transactionState = "PRESIGN_READY"
    BY <1>1 DEF SigningInv, AuthorizationInv, TypeInv, ScreenInReview
  <1>3. hashed \in Contents /\ parser \in Parsers
    BY <1>2 DEF SigningInv, TypeInv, TypeOK, InputsHashed
  <1>4. hashed.tx \in Txs /\ hashed.outputs \in Nat
    BY <1>3 DEF Contents
  <1>5. hashed.outputs # 0
    BY <1>2 DEF SigningInv, ReviewInv
  <1>6. /\ Synced(parser, hashed.tx, hashed.outputs) /\ Covered(parser, hashed.tx, confirmed)
        /\ Showing(parser) /\ screen.output = Seen(parser) + 1
    BY <1>1, <1>2, <1>5 DEF SigningInv, ReviewInv, FinalNames
  <1>7. DOMAIN hashed.tx.outputs = 1..Len(hashed.tx.outputs) /\ Len(hashed.tx.outputs) \in Nat
    BY <1>4, TxTypes
  <1>8. Seen(parser) \in Nat /\ Seen(parser) + 1 <= Len(hashed.tx.outputs)
    BY <1>3, <1>6, <1>7, ParserFields DEF Synced, Seen, Showing
  <1>9. screen.output \in DOMAIN hashed.tx.outputs
    BY <1>6, <1>7, <1>8
  <1>10. screen.output \notin confirmed
    BY <1>6, <1>8 DEF Covered
  <1>11. QED
    BY <1>6, <1>9, <1>10

\* Whatever the transactions and the blocks they come in, the screen that ends
\* a review in order has shown every output but the change.
THEOREM ReviewIsComplete == Spec => []ReviewCovered
  BY SigningInvariance, SigningCovers, PTL

\* In a pass in order the number on a single-output screen is the place of the
\* output it shows, wherever the blocks end.
THEOREM NumberingIsRight == Spec => []OutputNumbering
  <1>1. SigningInv => OutputNumbering
    BY SigningNumbers
  <1>2. QED
    BY <1>1, SigningInvariance, PTL

-----------------------------------------------------------------------------
\* The session implements the signing contract.

\* The initial states are those of the contract.
LEMMA ContractInit ==
  ASSUME Init
  PROVE  Contract!Init
  BY DEF Init, Contract!Init, Authorized, Offered

\* Where nothing is stored anew, no review passes and nothing gets ready, the
\* contract sees at most a revocation.
LEMMA NothingAuthorized ==
  ASSUME signed' = signed,
         authorizationHash' \in {authorizationHash, None},
         \/ firstSigned' \/ authorizationHash' = None
         \/ firstSigned' = firstSigned,
         transactionState' = "SIGN_READY" => hashed' \in Authorized
  PROVE  Contract!Next
  <1>1. Offered' \in SUBSET Offered
    BY DEF Offered
  <1>2. Authorized' \in SUBSET Authorized
    <2>1. (IF firstSigned THEN {} ELSE Offered)' \in SUBSET Authorized
      BY <1>1 DEF Authorized, Offered
    <2>2. QED
      BY <2>1 DEF Authorized
  <1>3. QED
    BY <1>1, <1>2 DEF Contract!Next, Contract!Revoke

\* A block under review offers its content, if it is a LAST one.
LEMMA ContractFinalizeFirst ==
  ASSUME TypeInv, NEW last \in BOOLEAN, NEW n \in 1..BufferUnits + 1, FinalizeFirst(last, n)
  PROVE  Contract!Next
  <1>1. /\ signed' = signed /\ firstSigned /\ firstSigned' /\ transactionState = "PRESIGN_READY"
    BY DEF FinalizeFirst, flags
  <1>2. Absorb(n) \in Contents
    BY DEF FinalizeFirst, TypeInv, InputsHashed, Absorb, Contents
  <1>3. /\ transactionState' # "SIGN_READY"
        /\ authorizationHash' = authorizationHash \/ authorizationHash' = Absorb(n)
    <2>1. CASE DiscardTransaction /\ UNCHANGED authorizationHash
      BY <2>1 DEF DiscardTransaction
    <2>2. ASSUME NEW t, ReviewFull(last, n, t)
          PROVE  /\ transactionState' = transactionState
                 /\ authorizationHash' = authorizationHash \/ authorizationHash' = Absorb(n)
      BY <2>2 DEF ReviewFull, EndBlock
    <2>3. ASSUME NEW s, ReviewSingle(last, n, s)
          PROVE  /\ transactionState' \in {transactionState, "NONE"}
                 /\ authorizationHash' = authorizationHash \/ authorizationHash' = Absorb(n)
      BY <2>3 DEF ReviewSingle, DiscardTransaction, FinalizeOrFail, EndBlock
    <2>4. QED
      BY <1>1, <2>1, <2>2, <2>3 DEF FinalizeFirst, ReviewOutputs
  <1>4. CASE authorizationHash' = authorizationHash
    BY <1>1, <1>3, <1>4, NothingAuthorized
  <1>5. CASE authorizationHash' = Absorb(n)
    <2>1. Offered' = {Absorb(n)}
      BY <1>2, <1>5, NoneIsNoContent DEF Offered
    <2>2. Authorized = {} /\ Authorized' = {}
      BY <1>1, <1>3 DEF Authorized
    <2>3. QED
      BY <1>1, <1>2, <2>1, <2>2 DEF Contract!Next, Contract!Offer
  <1>6. QED
    BY <1>3, <1>4, <1>5

\* The user's last answer is the approval of the contract.
LEMMA ContractApprove ==
  ASSUME TypeInv, AcceptTransaction
  PROVE  Contract!Next
  <1>1. /\ ~firstSigned' /\ transactionState' = "SIGN_READY" /\ signed' = signed
        /\ hashed' = hashed /\ authorizationHash' = authorizationHash
    BY DEF AcceptTransaction
  <1>2. hashed \in Contents
    BY ReviewFacts DEF AcceptTransaction
  <1>3. Offered' = Offered /\ Authorized' = {hashed} \cup Offered
    BY <1>1 DEF Offered, Authorized
  <1>4. Authorized = {}
    BY ReviewFacts DEF AcceptTransaction, Authorized
  <1>5. QED
    BY <1>1, <1>2, <1>3, <1>4 DEF Contract!Next, Contract!Approve

\* Every step is a step of the contract or a stutter.
LEMMA ContractStep ==
  ASSUME TypeInv, TypeInv', [Next]_vars
  PROVE  Contract!Next \/ UNCHANGED <<Offered, Authorized, signed>>
  <1>1. CASE HashInputStart \/ TrustedInputFirst \/ TrustedInputNext \/ IoReset \/ Launch
    <2>1. /\ signed' = signed /\ transactionState' # "SIGN_READY"
          /\ authorizationHash' \in {authorizationHash, None}
          /\ firstSigned' \/ authorizationHash' = None \/ firstSigned' = firstSigned
      BY <1>1
      DEF HashInputStart, StartFirst, BeginTransaction, StartFirstRefused, StartNext,
          StartWithoutFirst, StartNextRefused, MasterReset, KeepSession, TrustedInputFirst,
          TrustedInputNext, IoReset, Launch, RamZeroed, flags, history, pass
    <2>2. QED
      BY <2>1, NothingAuthorized
  <1>2. CASE SignMessage
    <2>1. /\ signed' = signed /\ authorizationHash' = None
          /\ UNCHANGED <<transactionState, hashed>>
      BY <1>2 DEF SignMessage, history, pass
    <2>2. transactionState' = "SIGN_READY" => hashed' \in Authorized
      BY <2>1 DEF Authorized
    <2>3. QED
      BY <2>1, <2>2, NothingAuthorized
  <1>3. CASE \/ FinalizeOutOfState \/ ChangePathRefused \/ RejectChangePath
             \/ AcceptChangePath \/ AcceptOutput \/ RejectTransaction \/ SignRefused
             \/ \E path \in Paths : SetChangePath(path)
    <2>1. /\ signed' = signed /\ firstSigned' = firstSigned
          /\ authorizationHash' \in {authorizationHash, None}
      BY <1>3
      DEF FinalizeOutOfState, ChangePathRefused, RejectChangePath, AcceptChangePath,
          AcceptOutput, RejectTransaction, SignRefused, SetChangePath, flags, history, pass
    <2>2. transactionState' # "SIGN_READY"
      <3>1. CASE AcceptChangePath \/ AcceptOutput
        <4>1. transactionState = "PRESIGN_READY"
          BY <3>1, ReviewFacts DEF AcceptChangePath, AcceptOutput
        <4>2. ASSUME NEW r, NEW units, AfterAccept(r, units)
              PROVE  transactionState' \in {transactionState, "NONE"}
          BY <4>2 DEF AfterAccept, AppExits, DiscardTransaction
        <4>3. transactionState' \in {transactionState, "NONE"}
          BY <3>1, <4>2 DEF AcceptChangePath, AcceptOutput, AppExits
        <4>4. QED
          BY <4>1, <4>3
      <3>2. CASE ~(AcceptChangePath \/ AcceptOutput)
        BY <1>3, <3>2
        DEF FinalizeOutOfState, ChangePathRefused, RejectChangePath, RejectTransaction,
            SignRefused, SetChangePath, DiscardTransaction
      <3>3. QED
        BY <3>1, <3>2
    <2>3. QED
      BY <2>1, <2>2, NothingAuthorized
  <1>4. CASE \E last \in BOOLEAN, n \in 1..BufferUnits + 1 : FinalizeFirst(last, n)
    BY <1>4, ContractFinalizeFirst
  <1>5. CASE \E last \in BOOLEAN, n \in 1..BufferUnits + 1 : FinalizeNext(last, n)
    <2>1. /\ signed' = signed /\ ~firstSigned /\ firstSigned' = firstSigned
          /\ authorizationHash' = authorizationHash
          /\ transactionState' = "SIGN_READY" => hashed' = authorizationHash
      BY <1>5 DEF FinalizeNext, MatchesReview, flags, history, pass
    <2>2. transactionState' = "SIGN_READY" => hashed' \in Contents
      BY DEF TypeInv, InputsHashed
    <2>3. transactionState' = "SIGN_READY" => hashed' \in Authorized
      BY <2>1, <2>2, NoneIsNoContent DEF Authorized, Offered
    <2>4. QED
      BY <2>1, <2>3, NothingAuthorized
  <1>6. CASE AcceptTransaction
    BY <1>6, ContractApprove
  <1>7. CASE Sign
    <2>1. /\ transactionState = "SIGN_READY" /\ transactionState' = "NONE"
          /\ signed' = signed \cup {hashed}
          /\ UNCHANGED <<firstSigned, hashed, authorizationHash>>
      BY <1>7 DEF Sign, flags
    <2>2. Offered' = Offered /\ hashed \in Authorized /\ Authorized' \in SUBSET Authorized
      BY <2>1 DEF Authorized, Offered
    <2>3. QED
      BY <2>1, <2>2 DEF Contract!Next, Contract!Sign
  <1>8. CASE UNCHANGED vars
    BY <1>8 DEF vars, flags, history, pass, Authorized, Offered
  <1>9. QED
    BY <1>1, <1>2, <1>3, <1>4, <1>5, <1>6, <1>7, <1>8
    DEF Next, HashInputFinalizeFull, HashSign, OtherCommands, UserAnswers

\* The session implements SigningContract for every host: only the content that
\* was approved last is ever signed, and the one whose hash a LAST block had
\* stored before that approval.
THEOREM SessionImplementsContract == Spec => SigningContractHolds
  <1>1. Init => Contract!Init
    BY ContractInit
  <1>2. TypeInv /\ TypeInv' /\ [Next]_vars => [Contract!Next]_(Contract!vars)
    BY ContractStep DEF Contract!vars
  <1>3. QED
    BY <1>1, <1>2, TypeInvariance, PTL DEF Spec, SigningContractHolds, Contract!Spec


-----------------------------------------------------------------------------
\* The fees.  The inductive invariant says what was added up so far.
InAmounts(t) == [i \in DOMAIN t.inputs |-> t.inputs[i].amount]
OutAmounts(t) == [i \in DOMAIN t.outputs |-> t.outputs[i].amount]

\* The first k outputs, added up as the code does: the carry is dropped.
OutputTotal(t, k) == SumUpto(OutAmounts(t), k) % AmountSpan

\* A figure is kept only of inputs that came with a trusted amount.
InputsSummed ==
  /\ ~relaxed
  /\ \/ parseMode = "SIGNATURE" /\ transactionState = "PARSING"
     \/ transactionState = "PRESIGN_READY"
  => /\ \A i \in 1..hashed.inputs : hashed.tx.inputs[i].trusted
     /\ transactionAmount = SumUpto(InAmounts(hashed.tx), hashed.inputs)

\* An output is counted when it is shown, or hidden.
Counted == Seen(parser) + (IF screen = NoScreen THEN 0 ELSE 1)

\* A figure on a screen is the sum of the inputs less the total of all outputs.
FeesShown(fees, t, anyRelaxed, amount) ==
  fees # None =>
    /\ ~anyRelaxed
    /\ fees = amount - OutputTotal(t, Len(t.outputs))
    /\ fees >= 0

OutputsSummed ==
  firstSigned /\ up /\ disorder = {} =>
    /\ transactionState = "PARSING" /\ parseMode = "SIGNATURE" => parser.totalOutputAmount = 0
    /\ transactionState = "PRESIGN_READY" =>
         /\ hashed.outputs = 0 => parser.totalOutputAmount = 0
         /\ hashed.outputs # 0 /\ screen.name \notin FinalNames =>
              parser.totalOutputAmount = OutputTotal(hashed.tx, Counted)
         /\ screen.name \in FinalNames =>
              FeesShown(screen.fees, hashed.tx, relaxed, transactionAmount)

FeesInv == InputsSummed /\ OutputsSummed

\* The sums, one output or input more.
LEMMA OutputTotals ==
  ASSUME NEW t \in Txs
  PROVE  /\ OutputTotal(t, 0) = 0
         /\ \A k \in 0..Len(t.outputs) : /\ SumUpto(OutAmounts(t), k) \in Nat
                                         /\ OutputTotal(t, k) \in Nat
         /\ \A k \in 1..Len(t.outputs) :
              AddAmount(OutputTotal(t, k - 1), t.outputs[k].amount) = OutputTotal(t, k)
  <1> DEFINE n == Len(t.outputs)
             f == OutAmounts(t)
  <1>1. n \in Nat /\ DOMAIN t.outputs = 1..n /\ AmountSpan \in Nat \ {0}
    BY TxTypes
  <1>2. \A i \in 1..n : f[i] \in Nat /\ f[i] = t.outputs[i].amount
    <2>1. TAKE i \in 1..n
    <2>2. f[i] = t.outputs[i].amount
      BY <1>1 DEF OutAmounts
    <2>3. t.outputs[i] \in [script : Scripts, amount : Nat]
      BY <1>1, TxTypes, ElementType
    <2>4. QED
      BY <2>2, <2>3
  <1> HIDE DEF f, n
  <1>3. /\ SumUpto(f, 0) = 0
        /\ \A k \in 0..n : SumUpto(f, k) \in Nat
        /\ \A k \in 1..n : SumUpto(f, k) = SumUpto(f, k - 1) + f[k]
    <2>1. \A i \in 1..n : f[i] \in Int
      BY <1>2
    <2>2. QED
      BY <1>1, <1>2, <2>1, SumUptoStep, SumUptoGrows
  <1>4. OutputTotal(t, 0) = 0
    BY <1>1, <1>3 DEF OutputTotal, f
  <1>5. \A k \in 0..n : OutputTotal(t, k) \in Nat
    BY <1>1, <1>3 DEF OutputTotal, f
  <1>6. ASSUME NEW k \in 1..n
        PROVE  AddAmount(OutputTotal(t, k - 1), t.outputs[k].amount) = OutputTotal(t, k)
    <2> DEFINE s == SumUpto(f, k - 1)
    <2>1. s \in Int /\ f[k] \in Int /\ SumUpto(f, k) = s + f[k] /\ f[k] = t.outputs[k].amount
      <3>1. k - 1 \in 0..n
        BY <1>1
      <3>2. QED
        BY <3>1, <1>2, <1>3
    <2>2. AddAmount(OutputTotal(t, k - 1), t.outputs[k].amount) = ((s % AmountSpan) + f[k]) % AmountSpan
      BY <2>1 DEF AddAmount, OutputTotal, f
    <2> HIDE DEF s
    <2>3. ((s % AmountSpan) + f[k]) % AmountSpan = (s + f[k]) % AmountSpan
      BY <1>1, <2>1, ModAdd
    <2>4. QED
      BY <2>1, <2>2, <2>3 DEF OutputTotal, f
  <1>7. QED
    BY <1>3, <1>4, <1>5, <1>6 DEF f, n

\* The same for the inputs, which are added without a modulus.
LEMMA InputTotals ==
  ASSUME NEW t \in Txs
  PROVE  /\ SumUpto(InAmounts(t), 0) = 0
         /\ \A k \in 1..Len(t.inputs) :
              SumUpto(InAmounts(t), k) = SumUpto(InAmounts(t), k - 1) + t.inputs[k].amount
  <1> DEFINE n == Len(t.inputs)
             f == InAmounts(t)
  <1>1. n \in Nat /\ DOMAIN t.inputs = 1..n
    BY TxTypes
  <1>2. \A i \in 1..n : f[i] \in Int /\ f[i] = t.inputs[i].amount
    <2>1. TAKE i \in 1..n
    <2>2. f[i] = t.inputs[i].amount
      BY <1>1 DEF InAmounts
    <2>3. t.inputs[i] \in [amount : Nat, trusted : BOOLEAN]
      BY <1>1, TxTypes, ElementType
    <2>4. QED
      BY <2>2, <2>3
  <1> HIDE DEF f, n
  <1>3. SumUpto(f, 0) = 0 /\ \A k \in 1..n : SumUpto(f, k) = SumUpto(f, k - 1) + f[k]
    BY <1>1, <1>2, SumUptoStep
  <1>4. SumUpto(f, 0) = 0 /\ \A k \in 1..n : SumUpto(f, k) = SumUpto(f, k - 1) + t.inputs[k].amount
    BY <1>2, <1>3
  <1>5. QED
    BY <1>4 DEF f, n

\* What the loop has counted when it stops: an output it shows is counted.
TotalOf(r, t) ==
  /\ r.outcome \in {"wait", "processed"} =>
       r.parser.totalOutputAmount = OutputTotal(t, Seen(r.parser))
  /\ r.outcome = "display" =>
       r.parser.totalOutputAmount = OutputTotal(t, Seen(r.parser) + 1)

\* One turn of handle_output_state adds each output once.
LEMMA TurnTotal ==
  ASSUME NEW p \in Parsers, NEW t \in Txs, NEW units \in Nat,
         Synced(p, t, units), units <= StreamUnits(t),
         p.totalOutputAmount = OutputTotal(t, Seen(p))
  PROVE  TotalOf(HandleOutputState(p, t, units), t)
  <1> DEFINE o == OutputAt(t, HeadOutput(p, units))
             r == HandleOutputState(p, t, units)
             sum == AddAmount(p.totalOutputAmount, o.amount)
             q0 == CountOutput(p, o, 0, 0, p.changeOutputFound)
             q1 == CountOutput(p, o, OutputUnits, 1, TRUE)
  <1>1. r = ParseOutput(p, t, units)
    BY DEF HandleOutputState, Synced
  <1>2. /\ p.remainingOutputs \in Int /\ p.totalOutputs \in Nat /\ Seen(p) \in Nat
        /\ p.currentOutputOffset \in Int
        /\ p.totalOutputs = Len(t.outputs)
        /\ HeadOutput(p, units) = Seen(p) + 1
        /\ p.currentOutputOffset >= 2 => p.remainingOutputs > 0
    BY ParserFields, SyncedUnits DEF Synced
  <1>3. p.currentOutputOffset >= 2 => sum = OutputTotal(t, Seen(p) + 1)
    <2>1. SUFFICES ASSUME p.currentOutputOffset >= 2 PROVE sum = OutputTotal(t, Seen(p) + 1)
      OBVIOUS
    <2>2. Seen(p) + 1 \in 1..Len(t.outputs)
      BY <1>2, <2>1 DEF Seen
    <2>3. o = t.outputs[Seen(p) + 1]
      BY <1>2, <2>2, TxTypes DEF OutputAt
    <2>4. (Seen(p) + 1) - 1 = Seen(p)
      BY <1>2
    <2> HIDE DEF o
    <2>5. QED
      BY <2>2, <2>3, <2>4, OutputTotals
  <1>4. /\ q0.totalOutputAmount = sum /\ Seen(q0) = Seen(p)
        /\ q1.totalOutputAmount = sum /\ Seen(q1) = Seen(p) + 1
    <2>1. /\ q0.totalOutputAmount = sum /\ q0.totalOutputs = p.totalOutputs
          /\ q0.remainingOutputs = p.remainingOutputs - 0
          /\ q1.totalOutputAmount = sum /\ q1.totalOutputs = p.totalOutputs
          /\ q1.remainingOutputs = p.remainingOutputs - 1
      BY DEF CountOutput, Parser
    <2> HIDE DEF q0, q1, sum
    <2>2. QED
      BY <2>1, <1>2 DEF Seen
  <1> HIDE DEF q0, q1, sum
  <1>5. \/ r = [outcome |-> "wait", parser |-> p]
        \/ r.outcome = "throw"
        \/ p.currentOutputOffset >= 2 /\ r = [outcome |-> "processed", parser |-> q1]
        \/ p.currentOutputOffset >= 2 /\ r = [outcome |-> "display", parser |-> q0]
    BY <1>1, <1>2 DEF ParseOutput, OutputUnits, q0, q1
  <1> HIDE DEF r
  <1>6. QED
    BY <1>3, <1>4, <1>5 DEF TotalOf, r

\* So does the loop.
LEMMA LoopTotal ==
  ASSUME NEW p \in Parsers, NEW t \in Txs, NEW units \in Nat, NEW shown,
         Synced(p, t, units), Covered(p, t, shown), units <= StreamUnits(t),
         p.totalOutputAmount = OutputTotal(t, Seen(p))
  PROVE  TotalOf(ParseOutputs(p, t, units), t)
  <1> DEFINE Again(r) == IF r.outcome = "processed"
                           THEN HandleOutputState(r.parser, t, units) ELSE r
             r1 == HandleOutputState(p, t, units)
             r2 == Again(r1)
             Good(r) == TurnResult(r, t, units, shown) /\ TotalOf(r, t)
  <1>1. ASSUME NEW r, Good(r)
        PROVE  Good(Again(r))
    <2>1. CASE r.outcome = "processed"
      <3>1. /\ r.parser \in Parsers /\ Synced(r.parser, t, units)
            /\ Covered(r.parser, t, shown)
            /\ r.parser.totalOutputAmount = OutputTotal(t, Seen(r.parser))
        BY <1>1, <2>1 DEF TurnResult, TotalOf
      <3>2. QED
        BY <2>1, <3>1, TurnSynced, TurnTotal
    <2>2. CASE r.outcome # "processed"
      BY <1>1, <2>2
    <2>3. QED
      BY <2>1, <2>2
  <1>2. Good(r1)
    BY TurnSynced, TurnTotal
  <1>3. ParseOutputs(p, t, units) = Again(Again(r1))
    BY DEF ParseOutputs
  <1> HIDE DEF Good, Again, r1
  <1>4. Good(ParseOutputs(p, t, units))
    BY <1>1, <1>2, <1>3
  <1>5. QED
    BY <1>4 DEF Good

\* And the first block, from a total of zero.
LEMMA FreshTotal ==
  ASSUME NEW p \in Parsers, NEW t \in Txs, NEW units \in Nat,
         p.outputParsingState = "NUMBER_OUTPUTS", ~p.changeOutputFound,
         p.currentOutputOffset = units, units >= CountUnits, units <= StreamUnits(t),
         p.totalOutputAmount = 0
  PROVE  TotalOf(ParseOutputs(p, t, units), t)
  <1> DEFINE Again(r) == IF r.outcome = "processed"
                           THEN HandleOutputState(r.parser, t, units) ELSE r
             r1 == HandleOutputState(p, t, units)
             n == Len(t.outputs)
             q == Parser("OUTPUT", units - CountUnits, n, n, p.totalOutputAmount, p.changeOutputFound)
             Good(r) == TurnResult(r, t, units, {}) /\ TotalOf(r, t)
  <1>0. n \in Nat /\ CountUnits \in Nat
    BY TxTypes
  <1>1. r1 = [outcome |-> "processed", parser |-> q]
    BY <1>0 DEF HandleOutputState, ParseNumber
  <1>2. q \in Parsers
    BY <1>1, HandleOutputStateType
  <1>3. /\ q.outputParsingState = "OUTPUT" /\ q.currentOutputOffset = units - CountUnits
        /\ q.remainingOutputs = n /\ q.totalOutputs = n /\ ~q.changeOutputFound
        /\ q.totalOutputAmount = 0
    BY DEF Parser
  <1> HIDE DEF q
  <1>4. Seen(q) = 0
    BY <1>0, <1>3 DEF Seen
  <1>5. Synced(q, t, units) /\ Covered(q, t, {})
    BY <1>0, <1>3, <1>4 DEF Synced, Covered
  <1>6. q.totalOutputAmount = OutputTotal(t, Seen(q))
    BY <1>3, <1>4, OutputTotals
  <1>7. Good(HandleOutputState(q, t, units))
    BY <1>2, <1>5, <1>6, TurnSynced, TurnTotal
  <1>8. ASSUME NEW r, Good(r)
        PROVE  Good(Again(r))
    <2>1. CASE r.outcome = "processed"
      <3>1. /\ r.parser \in Parsers /\ Synced(r.parser, t, units)
            /\ Covered(r.parser, t, {})
            /\ r.parser.totalOutputAmount = OutputTotal(t, Seen(r.parser))
        BY <1>8, <2>1 DEF TurnResult, TotalOf
      <3>2. QED
        BY <2>1, <3>1, TurnSynced, TurnTotal
    <2>2. CASE r.outcome # "processed"
      BY <1>8, <2>2
    <2>3. QED
      BY <2>1, <2>2
  <1>9. ParseOutputs(p, t, units) = Again(HandleOutputState(q, t, units))
    BY <1>1 DEF ParseOutputs
  <1> HIDE DEF Good, Again
  <1>10. Good(ParseOutputs(p, t, units))
    BY <1>7, <1>8, <1>9
  <1>11. QED
    BY <1>10 DEF Good

\* Steps that leave the inputs alone, or drop the transaction.
InputsKept ==
  /\ \/ transactionState' = transactionState /\ parseMode' = parseMode
     \/ transactionState' \in {"NONE", "SIGN_READY"}
  /\ transactionState' \in {"PARSING", "PRESIGN_READY"} =>
       /\ relaxed' = relaxed /\ transactionAmount' = transactionAmount
       /\ hashed'.tx = hashed.tx /\ hashed'.inputs = hashed.inputs

\* What was added up stays true while the inputs are left alone.
LEMMA InputsKeptSummed ==
  ASSUME InputsSummed, InputsKept
  PROVE  InputsSummed'
  <1>1. CASE transactionState' \in {"PARSING", "PRESIGN_READY"}
    <2>1. /\ relaxed' = relaxed /\ transactionAmount' = transactionAmount
          /\ hashed'.tx = hashed.tx /\ hashed'.inputs = hashed.inputs
          /\ transactionState' = transactionState /\ parseMode' = parseMode
      BY <1>1 DEF InputsKept
    <2>2. QED
      BY <2>1 DEF InputsSummed, InAmounts, SumUpto
  <1>2. CASE transactionState' \notin {"PARSING", "PRESIGN_READY"}
    BY <1>2 DEF InputsSummed
  <1>3. QED
    BY <1>1, <1>2

\* HASH_INPUT_START starts from zero.
LEMMA FeesStartFirst ==
  ASSUME SigningInv, NEW new \in BOOLEAN, NEW t \in Txs, StartFirst(new, t)
  PROVE  FeesInv'
  <1>1. /\ transactionAmount' = 0 /\ parser'.totalOutputAmount = 0
        /\ hashed'.tx = t /\ hashed'.inputs = 0 /\ hashed'.outputs = 0
        /\ screen' = NoScreen
    BY DEF StartFirst, BeginTransaction, StartPrelude, ParserReset, Parser, Listening
  <1>2. InputsSummed'
    <2>1. SumUpto(InAmounts(t), 0) = 0
      BY InputTotals
    <2>2. SumUpto(InAmounts(hashed'.tx), hashed'.inputs) = transactionAmount'
      BY <1>1, <2>1
    <2>3. \A i \in 1..hashed'.inputs : hashed'.tx.inputs[i].trusted
      BY <1>1
    <2>4. QED
      BY <2>2, <2>3 DEF InputsSummed, InAmounts, SumUpto
  <1>3. OutputsSummed'
    BY <1>1 DEF OutputsSummed, NoScreen, FinalNames
  <1>4. QED
    BY <1>2, <1>3 DEF FeesInv

\* So does a next block that begins a transaction, which keeps the session's flags.
LEMMA FeesStartWithoutFirst ==
  ASSUME SigningInv, NEW t \in Txs, StartWithoutFirst(t)
  PROVE  FeesInv'
  <1>1. /\ transactionAmount' = 0 /\ hashed'.tx = t /\ hashed'.inputs = 0
        /\ disorder' # {}
    BY DEF StartWithoutFirst, BeginTransaction
  <1>2. InputsSummed'
    <2>1. SumUpto(InAmounts(t), 0) = 0
      BY InputTotals
    <2>2. SumUpto(InAmounts(hashed'.tx), hashed'.inputs) = transactionAmount'
      BY <1>1, <2>1
    <2>3. \A i \in 1..hashed'.inputs : hashed'.tx.inputs[i].trusted
      BY <1>1
    <2>4. QED
      BY <2>2, <2>3 DEF InputsSummed, InAmounts, SumUpto
  <1>3. OutputsSummed'
    BY <1>1 DEF OutputsSummed
  <1>4. QED
    BY <1>2, <1>3 DEF FeesInv

\* An input adds its amount, if it is trusted.
LEMMA FeesStartNext ==
  ASSUME SigningInv, SigningInv', FeesInv, StartNext
  PROVE  FeesInv'
  <1> DEFINE t == hashed.tx
             n == hashed.inputs + 1
             in == t.inputs[n]
  <1>1. /\ screen = NoScreen /\ parseMode = "SIGNATURE" /\ transactionState = "PARSING" /\ up
        /\ UNCHANGED <<screen, up, parseMode, firstSigned, parser, disorder>>
    BY DEF StartNext, Listening, history, pass
  <1>2. /\ hashed \in Contents /\ hashed.outputs = 0 /\ hashed.inputs < Len(t.inputs)
    BY <1>1 DEF SigningInv, TypeInv, InputsPending
  <1>3. t \in Txs /\ n \in 1..Len(t.inputs) /\ n - 1 = hashed.inputs
    BY <1>2, TxTypes DEF Contents
  <1>4. CASE in.trusted /\ transactionAmount + in.amount >= AmountSpan
    <2>1. transactionState' = "NONE"
      BY <1>4 DEF StartNext
    <2>2. QED
      BY <2>1 DEF FeesInv, InputsSummed, OutputsSummed
  <1>5. CASE ~(in.trusted /\ transactionAmount + in.amount >= AmountSpan)
    <2>1. /\ hashed' = [hashed EXCEPT !.inputs = n]
          /\ relaxed' = (relaxed \/ ~in.trusted)
          /\ transactionAmount' = IF in.trusted THEN transactionAmount + in.amount
                                                 ELSE transactionAmount
      BY <1>5 DEF StartNext
    <2>2. hashed'.tx = t /\ hashed'.inputs = n /\ hashed'.outputs = 0
      BY <2>1, <1>2 DEF Contents
    <2>3. OutputsSummed'
      BY <1>1, <2>2 DEF FeesInv, OutputsSummed, NoScreen, FinalNames
    <2>4. InputsSummed'
      <3>1. CASE relaxed \/ ~in.trusted
        BY <3>1, <2>1 DEF InputsSummed
      <3>2. CASE ~relaxed /\ in.trusted
        <4>1. /\ \A i \in 1..hashed.inputs : t.inputs[i].trusted
              /\ transactionAmount = SumUpto(InAmounts(t), n - 1)
          BY <1>1, <1>3, <3>2 DEF FeesInv, InputsSummed
        <4>2. transactionAmount' = SumUpto(InAmounts(t), n)
          BY <4>1, <3>2, <2>1, <1>3, InputTotals
        <4>3. 1..n = (1..hashed.inputs) \cup {n}
          BY <1>2, <1>3 DEF Contents
        <4>4. \A i \in 1..n : t.inputs[i].trusted
          BY <4>1, <4>3, <3>2
        <4>5. /\ \A i \in 1..hashed'.inputs : hashed'.tx.inputs[i].trusted
              /\ transactionAmount' = SumUpto(InAmounts(hashed'.tx), hashed'.inputs)
          BY <4>2, <4>4, <2>2
        <4>6. QED
          BY <4>5 DEF InputsSummed, InAmounts, SumUpto
      <3>3. QED
        BY <3>1, <3>2
    <2>5. QED
      BY <2>3, <2>4 DEF FeesInv
  <1>6. QED
    BY <1>4, <1>5

\* What a step of the review leaves of the total.
OutputsStep ==
  /\ transactionState' = "PRESIGN_READY" /\ hashed'.outputs # 0
  /\ screen'.name \notin FinalNames =>
       parser'.totalOutputAmount =
         OutputTotal(hashed'.tx, Seen(parser') + (IF screen' = NoScreen THEN 0 ELSE 1))
  /\ screen'.name \in FinalNames =>
       FeesShown(screen'.fees, hashed'.tx, relaxed', transactionAmount')

\* Such a step keeps the total right.
LEMMA OutputsStepSummed ==
  ASSUME OutputsStep
  PROVE  OutputsSummed'
  BY DEF OutputsStep, OutputsSummed, Counted, Seen, FeesShown, OutputTotal, OutAmounts, SumUpto

\* prepare_fees: the fees are the difference, and never negative.
LEMMA FinalizeFees ==
  ASSUME TypeOK, NEW t \in Txs, NEW total, total = OutputTotal(t, Len(t.outputs)),
         FeesConsistent(total)
  PROVE  FeesShown(Fees(total), t, relaxed, transactionAmount)
  <1>1. total \in Nat /\ transactionAmount \in Nat
    <2>1. Len(t.outputs) \in 0..Len(t.outputs)
      BY TxTypes
    <2>2. QED
      BY <2>1, OutputTotals DEF TypeOK
  <1>2. QED
    BY <1>1 DEF FeesShown, Fees, FeesConsistent

\* The total of a one-screen review, of one output or two, is that of the outputs.
LEMMA FullOutputTotal ==
  ASSUME NEW p, NEW t \in Txs, FullOutputReviewable(p, t)
  PROVE  FullOutputAmount(t) = OutputTotal(t, Len(t.outputs))
  <1> DEFINE a(i) == OutputAt(t, i).amount
             n == Len(t.outputs)
  <1>1. /\ a(1) \in Nat /\ a(2) \in Nat /\ a(3) = 0 /\ (n = 1 \/ n = 2)
        /\ n = 1 => a(2) = 0
    <2>1. n = 1 \/ n = 2
      <3>1. n \in Nat
        BY TxTypes
      <3>2. n - 0 = 1 \/ n - 1 = 1
        BY DEF FullOutputReviewable
      <3> HIDE DEF n
      <3>3. QED
        BY <3>1, <3>2
    <2>2. DOMAIN t.outputs = 1..n
      BY TxTypes
    <2>3. 1 \in Int /\ 2 \in Int
      OBVIOUS
    <2>4. QED
      BY <2>1, <2>2, <2>3, OutputAtType DEF OutputAt, Garbage
  <1>2. \A x, y \in Nat : /\ AddAmount(AddAmount(x, y), 0) = AddAmount(x, y)
                         /\ AddAmount(AddAmount(0, x), y) = AddAmount(x, y)
                         /\ AddAmount(x, 0) = AddAmount(0, x)
    <2>1. TAKE x, y \in Nat
    <2>2. AmountSpan \in Nat \ {0} /\ 0 \in Nat /\ x + y \in Int /\ x \in Int /\ y \in Int /\ 0 \in Int
      BY SignTxAssumption DEF SignTxAssumption
    <2>3. /\ (((x + y) % AmountSpan) + 0) % AmountSpan = ((x + y) + 0) % AmountSpan
          /\ ((x % AmountSpan) + y) % AmountSpan = (x + y) % AmountSpan
      BY <2>2, ModAdd
    <2>4. (x + y) + 0 = x + y /\ 0 + x = x /\ x + 0 = x
      OBVIOUS
    <2>5. QED
      BY <2>3, <2>4 DEF AddAmount
  <1>3. FullOutputAmount(t) = AddAmount(a(1), a(2))
    BY <1>1, <1>2 DEF FullOutputAmount
  <1>4. \A k \in 1..n : a(k) = t.outputs[k].amount
    BY TxTypes DEF OutputAt
  <1>5. OutputTotal(t, 1) = AddAmount(0, a(1))
    <2>1. 1 \in 1..n /\ 1 - 1 = 0
      <3>1. n \in Nat /\ (n = 1 \/ n = 2)
        BY <1>1, TxTypes
      <3> HIDE DEF n
      <3>2. QED
        BY <3>1
    <2>2. QED
      BY <2>1, <1>4, OutputTotals
  <1>6. CASE n = 1
    <2> HIDE DEF a
    <2>1. QED
      BY <1>1, <1>2, <1>3, <1>5, <1>6
  <1>7. CASE n = 2
    <2>1. 2 \in 1..n /\ 2 - 1 = 1
      BY <1>7
    <2>2. OutputTotal(t, 2) = AddAmount(OutputTotal(t, 1), a(2))
      BY <2>1, <1>4, OutputTotals
    <2> HIDE DEF a
    <2>3. QED
      BY <2>2, <1>1, <1>2, <1>3, <1>5, <1>7
  <1>8. QED
    BY <1>1, <1>6, <1>7

\* A block under review: what is shown, hidden or waiting is counted once.
LEMMA FeesFinalizeFirst ==
  ASSUME SigningInv, SigningInv', FeesInv, NEW last \in BOOLEAN,
         NEW n \in 1..BufferUnits + 1, FinalizeFirst(last, n)
  PROVE  OutputsSummed'
  <1> SUFFICES ASSUME disorder' = {}
               PROVE  OutputsSummed'
    BY DEF OutputsSummed
  <1> DEFINE t == hashed.tx
             units == hashed.outputs + n
             b == Buffered(n)
             r == ParseOutputs(b, t, units)
  <1> HIDE DEF b
  <1>1. /\ Listening /\ up /\ screen = NoScreen /\ NoScreen.name = "none"
        /\ transactionState = "PRESIGN_READY" /\ firstSigned /\ disorder = {}
        /\ t \in Txs /\ units \in Nat /\ units >= 1
        /\ units >= CountUnits /\ units <= StreamUnits(t)
        /\ hashed' = Absorb(n) /\ Absorb(n).tx = t /\ Absorb(n).outputs = units
    BY BlockFacts
  <1>a. LoopResult(r, t, units, confirmed)
    BY BlockParsed DEF b
  <1>2. TotalOf(r, t) /\ LoopResult(r, t, units, confirmed)
    <2>1. CASE hashed.outputs = 0
      <3>1. b.totalOutputAmount = 0
        BY <2>1, <1>1, BlockFacts DEF FeesInv, OutputsSummed, b
      <3>2. /\ b \in Parsers /\ b.outputParsingState = "NUMBER_OUTPUTS"
            /\ ~b.changeOutputFound /\ b.currentOutputOffset = units
            /\ confirmed = {}
        BY <2>1, <1>1, BlockFacts DEF b
      <3>3. TotalOf(r, t)
        BY <3>1, <3>2, <1>1, FreshTotal
      <3>4. QED
        BY <3>3, <1>a
    <2>2. CASE hashed.outputs # 0
      <3>1. parser.totalOutputAmount = OutputTotal(t, Seen(parser) + 0)
        BY <2>2, <1>1 DEF FeesInv, OutputsSummed, Counted, FinalNames
      <3>2. Seen(parser) \in Int
        BY ParserFields DEF SigningInv, TypeInv, TypeOK, Seen
      <3>3. b.totalOutputAmount = OutputTotal(t, Seen(b))
        BY <2>2, <3>1, <3>2, BlockFacts DEF b
      <3>4. QED
        BY <2>2, <3>3, <1>1, <1>a, BlockFacts, LoopTotal DEF b
    <2>3. QED
      BY <2>1, <2>2
  <1>3. /\ UNCHANGED <<relaxed, transactionAmount>> /\ TypeOK
        /\ \A q \in Parsers : Seen(q) \in Int
    BY ParserFields DEF FinalizeFirst, flags, SigningInv, TypeInv, Seen
  <1> HIDE DEF r
  <1>4. CASE transactionState' = "NONE"
    BY <1>4 DEF OutputsSummed
  <1>5. CASE transactionState' # "NONE"
    <2>1. \/ ReviewFull(last, n, t)
          \/ ReviewSingle(last, n, [tx |-> t, units |-> units])
      BY <1>5, BlockCases DEF DiscardTransaction
    <2>2. CASE /\ FullOutputReviewable(b, t)
               /\ screen' = FullOutputScreen(t)
               /\ UNCHANGED transactionState
      <3>1. ~relaxed /\ FullOutputAmount(t) <= transactionAmount
        BY <2>2 DEF FullOutputReviewable
      <3>2. FeesShown(Fees(FullOutputAmount(t)), t, relaxed, transactionAmount)
        BY <2>2, <3>1, <1>1, <1>3, FullOutputTotal, FinalizeFees DEF FeesConsistent
      <3>3. screen'.name = "full_output" /\ screen'.fees = Fees(FullOutputAmount(t))
        BY <2>2 DEF FullOutputScreen
      <3>4. OutputsStep
        BY <2>2, <3>2, <3>3, <1>1, <1>3 DEF OutputsStep, FinalNames
      <3>5. QED
        BY <3>4, OutputsStepSummed
    <2>3. CASE /\ r.outcome = "display"
               /\ parser' = r.parser
               /\ screen' = SingleOutputScreen(r.parser, units)
               /\ UNCHANGED transactionState
      <3>1. screen'.name = "single_output" /\ screen' # NoScreen
        BY <2>3, <1>1 DEF SingleOutputScreen
      <3>2. OutputsStep
        BY <2>3, <3>1, <1>1, <1>2 DEF OutputsStep, FinalNames, TotalOf
      <3>3. QED
        BY <3>2, OutputsStepSummed
    <2>4. CASE /\ r.outcome = "wait" /\ r.parser.remainingOutputs # 0
               /\ parser' = r.parser
               /\ UNCHANGED <<transactionState, screen>>
      <3>1. Seen(r.parser) + 0 = Seen(r.parser)
        BY <1>2, <1>3 DEF LoopResult, TurnResult
      <3>2. OutputsStep
        BY <2>4, <3>1, <1>1, <1>2 DEF OutputsStep, FinalNames, TotalOf
      <3>3. QED
        BY <3>2, OutputsStepSummed
    <2>5. CASE /\ r.outcome = "wait" /\ r.parser.remainingOutputs = 0
               /\ FinalizeOrFail(r.parser)
      <3>1. /\ r.parser \in Parsers /\ Synced(r.parser, t, units)
        BY <2>5, <1>2 DEF LoopResult, TurnResult
      <3>2. Seen(r.parser) = Len(t.outputs)
        BY <2>5, <3>1, <1>1, SyncedUnits
      <3>3. /\ screen' = FinalizeScreen(r.parser.totalOutputAmount)
            /\ FeesConsistent(r.parser.totalOutputAmount)
            /\ UNCHANGED transactionState
        BY <2>5, <1>5 DEF FinalizeOrFail
      <3>4. FeesShown(Fees(r.parser.totalOutputAmount), t, relaxed, transactionAmount)
        BY <2>5, <3>2, <3>3, <1>1, <1>2, <1>3, FinalizeFees DEF TotalOf
      <3>5. screen'.name = "finalize" /\ screen'.fees = Fees(r.parser.totalOutputAmount)
        BY <3>3 DEF FinalizeScreen
      <3>6. OutputsStep
        BY <3>3, <3>4, <3>5, <1>1, <1>3 DEF OutputsStep, FinalNames
      <3>7. QED
        BY <3>6, OutputsStepSummed
    <2>6. QED
      BY <2>1, <2>2, <2>3, <2>4, <2>5, <1>5
      DEF ReviewFull, ReviewSingle, DiscardTransaction, Misread, r, b
  <1>6. QED
    BY <1>4, <1>5

\* An accepted output was counted when it was shown; what follows it is counted now.
LEMMA FeesAcceptOutput ==
  ASSUME SigningInv, SigningInv', FeesInv, AcceptOutput
  PROVE  OutputsSummed'
  <1>0. disorder' = disorder
    BY DEF AcceptOutput
  <1> SUFFICES ASSUME disorder = {}
               PROVE  OutputsSummed'
    BY <1>0 DEF OutputsSummed
  <1> DEFINE t == hashed.tx
             units == hashed.outputs
             q == AcceptedParser(parser, OutputUnits)
             shown == confirmed \cup {screen.output}
             r == IF parser.remainingOutputs - 1 = 0
                    THEN [outcome |-> "wait", parser |-> AcceptedParser(parser, 0)]
                    ELSE ParseOutputs(q, t, units)
  <1>a. AfterAccept(r, units)
    BY AcceptParsed
  <1> HIDE DEF q, shown
  <1>1. /\ screen # NoScreen /\ screen.name = "single_output" /\ up
        /\ NoScreen.name = "none"
        /\ transactionState = "PRESIGN_READY" /\ firstSigned
        /\ t \in Txs /\ units \in Nat /\ units # 0 /\ units <= StreamUnits(t)
        /\ UNCHANGED <<firstSigned, hashed>>
    BY AcceptFacts
  <1>2. /\ q \in Parsers /\ q.remainingOutputs = parser.remainingOutputs - 1
        /\ q.totalOutputAmount = parser.totalOutputAmount
        /\ Seen(q) = Seen(parser) + 1
        /\ Synced(q, t, units) /\ Covered(q, t, shown)
        /\ AcceptedParser(parser, 0).totalOutputAmount = q.totalOutputAmount
    BY AcceptFacts DEF q, shown
  <1>3. q.totalOutputAmount = OutputTotal(t, Seen(q))
    BY <1>1, <1>2 DEF FeesInv, OutputsSummed, Counted, FinalNames
  <1>4. /\ UNCHANGED <<relaxed, transactionAmount>> /\ TypeOK
        /\ \A p \in Parsers : Seen(p) \in Int
    BY ParserFields DEF AcceptOutput, flags, SigningInv, TypeInv, Seen
  <1>5. q.remainingOutputs # 0 => TotalOf(r, t) /\ LoopResult(r, t, units, shown)
    BY <1>1, <1>2, <1>3, LoopTotal, LoopSynced
  <1>6. /\ r.outcome = "wait" => /\ r.parser.totalOutputAmount = OutputTotal(t, Seen(r.parser))
                                 /\ Seen(r.parser) \in Int
        /\ r.outcome = "wait" /\ r.parser.remainingOutputs = 0 =>
             r.parser.totalOutputAmount = OutputTotal(t, Len(t.outputs))
    <2>1. CASE q.remainingOutputs = 0
      <3>1. Seen(q) = Len(t.outputs)
        BY <2>1, <1>1, <1>2, SyncedUnits
      <3>2. Seen(AcceptedParser(parser, 0)) = Seen(q)
        BY DEF AcceptedParser, Parser, Seen, q
      <3>3. r = [outcome |-> "wait", parser |-> AcceptedParser(parser, 0)]
        BY <2>1, <1>2
      <3> HIDE DEF r
      <3>4. QED
        BY <3>1, <3>2, <3>3, <1>2, <1>3, <1>4
    <2>2. CASE q.remainingOutputs # 0
      <3> HIDE DEF r
      <3>1. r.outcome = "wait" =>
              /\ r.parser \in Parsers /\ Synced(r.parser, t, units)
              /\ r.parser.totalOutputAmount = OutputTotal(t, Seen(r.parser))
        BY <2>2, <1>5 DEF LoopResult, TurnResult, TotalOf
      <3>2. r.outcome = "wait" /\ r.parser.remainingOutputs = 0 =>
              Seen(r.parser) = Len(t.outputs)
        BY <3>1, <1>1, SyncedUnits
      <3>3. QED
        BY <3>1, <3>2, <1>4
    <2>3. QED
      BY <2>1, <2>2
  <1>7. r.outcome = "display" =>
          r.parser.totalOutputAmount = OutputTotal(t, Seen(r.parser) + 1)
    BY <1>2, <1>5 DEF TotalOf
  <1>8. CASE transactionState' = "NONE" \/ ~up'
    BY <1>8 DEF OutputsSummed
  <1>9. CASE transactionState' # "NONE" /\ up'
    <2>1. CASE /\ r.outcome = "display"
               /\ parser' = r.parser
               /\ screen' = SingleOutputScreen(r.parser, units)
               /\ UNCHANGED transactionState
      <3>1. screen'.name = "single_output" /\ screen' # NoScreen
        BY <2>1, <1>1 DEF SingleOutputScreen
      <3> HIDE DEF r
      <3>2. OutputsStep
        BY <2>1, <3>1, <1>1, <1>7 DEF OutputsStep, FinalNames
      <3>3. QED
        BY <3>2, OutputsStepSummed
    <2>2. CASE /\ r.outcome = "wait" /\ r.parser.remainingOutputs # 0
               /\ parser' = r.parser
               /\ screen' = NoScreen
               /\ UNCHANGED transactionState
      <3> HIDE DEF r
      <3>1. Seen(r.parser) + 0 = Seen(r.parser)
        BY <2>2, <1>6
      <3>2. OutputsStep
        BY <2>2, <3>1, <1>1, <1>6 DEF OutputsStep, FinalNames
      <3>3. QED
        BY <3>2, OutputsStepSummed
    <2>3. CASE /\ r.outcome = "wait" /\ r.parser.remainingOutputs = 0
               /\ FeesConsistent(r.parser.totalOutputAmount)
               /\ screen' = FinalizeScreen(r.parser.totalOutputAmount)
               /\ UNCHANGED transactionState
      <3> HIDE DEF r
      <3>1. FeesShown(Fees(r.parser.totalOutputAmount), t, relaxed, transactionAmount)
        BY <2>3, <1>1, <1>4, <1>6, FinalizeFees
      <3>2. screen'.name = "finalize" /\ screen'.fees = Fees(r.parser.totalOutputAmount)
        BY <2>3 DEF FinalizeScreen
      <3>3. OutputsStep
        BY <2>3, <3>1, <3>2, <1>1, <1>4 DEF OutputsStep, FinalNames
      <3>4. QED
        BY <3>3, OutputsStepSummed
    <2> HIDE DEF r
    <2>4. QED
      BY <1>a, <2>1, <2>2, <2>3, <1>9 DEF AfterAccept, AppExits, DiscardTransaction
  <1>10. QED
    BY <1>8, <1>9

\* The change path comes before any output is counted.
LEMMA FeesChangePath ==
  ASSUME SigningInv, FeesInv,
         (\E path \in Paths : SetChangePath(path)) \/ AcceptChangePath
  PROVE  OutputsSummed'
  <1> SUFFICES ASSUME disorder' = {}
               PROVE  OutputsSummed'
    BY DEF OutputsSummed
  <1>1. /\ transactionState = "PRESIGN_READY" /\ firstSigned /\ up /\ disorder = {}
        /\ hashed.outputs = 0 /\ hashed' = hashed /\ transactionState' = transactionState
        /\ screen' = NoScreen \/ screen' = ChangePathScreen
    <2>1. ASSUME AcceptChangePath
          PROVE  /\ transactionState = "PRESIGN_READY" /\ firstSigned /\ up /\ disorder = {}
                 /\ hashed.outputs = 0
      <3>1. screen.name = "change_path" /\ screen # NoScreen /\ up /\ disorder = {}
        BY <2>1 DEF AcceptChangePath, ScreenIs, NoScreen, pass
      <3>2. transactionState = "PRESIGN_READY" /\ firstSigned
        BY <3>1 DEF SigningInv, TypeInv, ScreenInReview
      <3>3. QED
        BY <3>1, <3>2 DEF SigningInv, ReviewInv, FinalNames
    <2>2. ASSUME NEW path \in Paths, SetChangePath(path)
          PROVE  /\ transactionState = "PRESIGN_READY" /\ firstSigned /\ up /\ disorder = {}
                 /\ hashed.outputs = 0
      BY <2>2 DEF SetChangePath, Listening
    <2>3. QED
      BY <2>1, <2>2 DEF SetChangePath, AcceptChangePath, Listening
  <1>2. parser'.totalOutputAmount = parser.totalOutputAmount
    BY DEF SetChangePath, AcceptChangePath, InState, Parser
  <1>3. parser.totalOutputAmount = 0
    BY <1>1 DEF FeesInv, OutputsSummed
  <1>4. QED
    BY <1>1, <1>2, <1>3 DEF OutputsSummed, NoScreen, ChangePathScreen, FinalNames

\* Steps that leave all that the sums speak of alone.
LEMMA SumsUnchanged ==
  ASSUME FeesInv,
         UNCHANGED <<transactionState, parseMode, relaxed, transactionAmount, hashed, parser,
                     screen, up, firstSigned, disorder>>
  PROVE  FeesInv'
  <1>1. InputsSummed'
    BY InputsKeptSummed DEF InputsKept, FeesInv
  <1>2. OutputsSummed'
    BY DEF FeesInv, OutputsSummed, Counted, Seen, FeesShown, OutputTotal, OutAmounts, SumUpto
  <1>3. QED
    BY <1>1, <1>2 DEF FeesInv

\* Every step keeps the sums.
LEMMA FeesStep ==
  ASSUME SigningInv, SigningInv', FeesInv, [Next]_vars
  PROVE  FeesInv'
  <1>1. ASSUME InputsKept, OutputsSummed' PROVE FeesInv'
    BY <1>1, InputsKeptSummed DEF FeesInv
  <1>2. CASE HashInputStart
    <2>1. ASSUME NEW new \in BOOLEAN, StartFirstRefused(new) PROVE FeesInv'
      BY <2>1 DEF StartFirstRefused, FeesInv, InputsSummed, OutputsSummed
    <2>2. ASSUME StartNextRefused PROVE FeesInv'
      BY <2>2 DEF StartNextRefused, FeesInv, InputsSummed, OutputsSummed
    <2>3. QED
      BY <1>2, <2>1, <2>2, FeesStartFirst, FeesStartNext, FeesStartWithoutFirst
      DEF HashInputStart
  <1>3. CASE HashInputFinalizeFull
    <2>1. ASSUME FinalizeOutOfState PROVE FeesInv'
      BY <2>1 DEF FinalizeOutOfState, DiscardTransaction, FeesInv, InputsSummed, OutputsSummed
    <2>2. ASSUME NEW path \in Paths, SetChangePath(path)
          PROVE  FeesInv'
      <3>1. InputsKept
        BY <2>2 DEF SetChangePath, InputsKept, flags
      <3>2. QED
        BY <2>2, <3>1, <1>1, FeesChangePath
    <2>a. ASSUME ChangePathRefused
          PROVE  FeesInv'
      <3>1. \/ transactionState' = "NONE"
            \/ UNCHANGED <<transactionState, parseMode, relaxed, transactionAmount, hashed, parser,
                           screen, up, firstSigned, disorder>>
        BY <2>a DEF ChangePathRefused, DiscardTransaction, flags, history, pass
      <3>2. QED
        BY <3>1, SumsUnchanged DEF FeesInv, InputsSummed, OutputsSummed
    <2>3. ASSUME NEW last \in BOOLEAN, NEW n \in 1..BufferUnits + 1, FinalizeFirst(last, n)
          PROVE  FeesInv'
      <3>1. hashed'.tx = hashed.tx /\ hashed'.inputs = hashed.inputs
        <4>1. hashed \in Contents /\ hashed' = Absorb(n)
          BY <2>3 DEF FinalizeFirst, SigningInv, TypeInv, InputsHashed
        <4>2. QED
          BY <4>1 DEF Absorb, Contents
      <3>2. /\ transactionState' \in {transactionState, "NONE"}
            /\ UNCHANGED <<parseMode, relaxed, transactionAmount>>
        BY <2>3 DEF FinalizeFirst, ReviewOutputs, ReviewFull, ReviewSingle, DiscardTransaction,
                    FinalizeOrFail, flags
      <3>3. InputsKept
        BY <3>1, <3>2 DEF InputsKept
      <3>4. QED
        BY <2>3, <3>3, <1>1, FeesFinalizeFirst
    <2>4. ASSUME NEW last \in BOOLEAN, NEW n \in 1..BufferUnits + 1, FinalizeNext(last, n)
          PROVE  FeesInv'
      <3>1. hashed'.tx = hashed.tx /\ hashed'.inputs = hashed.inputs
        <4>1. hashed \in Contents /\ hashed' = Absorb(n)
          BY <2>4 DEF FinalizeNext, SigningInv, TypeInv, InputsHashed
        <4>2. QED
          BY <4>1 DEF Absorb, Contents
      <3>2. /\ transactionState' \in {transactionState, "NONE", "SIGN_READY"}
            /\ UNCHANGED <<parseMode, relaxed, transactionAmount>>
            /\ ~firstSigned'
        BY <2>4 DEF FinalizeNext, flags
      <3>3. InputsKept
        BY <3>1, <3>2 DEF InputsKept
      <3>4. OutputsSummed'
        BY <3>2 DEF OutputsSummed
      <3>5. QED
        BY <3>3, <3>4, <1>1
    <2>5. QED
      BY <1>3, <2>1, <2>2, <2>a, <2>3, <2>4 DEF HashInputFinalizeFull
  <1>4. CASE HashSign
    BY <1>4 DEF HashSign, Sign, SignRefused, FeesInv, InputsSummed, OutputsSummed
  <1>5. CASE OtherCommands
    <2>1. CASE TrustedInputFirst \/ TrustedInputNext
      BY <2>1 DEF TrustedInputFirst, TrustedInputNext, FeesInv, InputsSummed, OutputsSummed
    <2>2. CASE SignMessage
      BY <2>2, SumsUnchanged DEF SignMessage, flags, history, pass
    <2>3. QED
      BY <1>5, <2>1, <2>2 DEF OtherCommands
  <1>6. CASE UserAnswers
    <2>1. ASSUME RejectTransaction \/ RejectChangePath PROVE FeesInv'
      BY <2>1 DEF RejectTransaction, RejectChangePath, DiscardTransaction, FeesInv, InputsSummed,
                  OutputsSummed
    <2>2. ASSUME AcceptChangePath PROVE FeesInv'
      <3>1. InputsKept
        BY <2>2 DEF AcceptChangePath, InputsKept, flags
      <3>2. QED
        BY <2>2, <3>1, <1>1, FeesChangePath
    <2>3. ASSUME AcceptOutput PROVE FeesInv'
      <3>1. /\ transactionState' \in {transactionState, "NONE"}
            /\ UNCHANGED <<parseMode, relaxed, transactionAmount, hashed>>
        BY <2>3 DEF AcceptOutput, AfterAccept, AppExits, DiscardTransaction, flags
      <3>2. InputsKept
        BY <3>1 DEF InputsKept
      <3>3. QED
        BY <2>3, <3>2, <1>1, FeesAcceptOutput
    <2>4. ASSUME AcceptTransaction PROVE FeesInv'
      BY <2>4 DEF AcceptTransaction, FeesInv, InputsSummed, OutputsSummed
    <2>5. QED
      BY <1>6, <2>1, <2>2, <2>3, <2>4 DEF UserAnswers
  <1>7. CASE IoReset \/ Launch
    BY <1>7 DEF IoReset, Launch, RamZeroed, FeesInv, InputsSummed, OutputsSummed
  <1>8. CASE UNCHANGED vars
    BY <1>8, SumsUnchanged DEF vars, flags, history, pass
  <1>9. QED
    BY <1>2, <1>3, <1>4, <1>5, <1>6, <1>7, <1>8 DEF Next

\* The sums of the inputs and of the outputs are right in every reachable state
\* (the trusted inputs of handle_input, check_output_displayable).
THEOREM FeesInvariance == Spec => []FeesInv
  <1>1. Init => FeesInv
    BY DEF Init, FeesInv, InputsSummed, OutputsSummed
  <1>2. SigningInv /\ SigningInv' /\ FeesInv /\ [Next]_vars => FeesInv'
    BY FeesStep
  <1>3. QED
    BY <1>1, <1>2, SigningInvariance, PTL DEF Spec

\* What the last screen shows, whatever the outputs: they are added with their
\* carry dropped.
FeesWrap ==
  screen.name \in FinalNames /\ screen.fees # None /\ disorder = {} =>
    /\ \A i \in DOMAIN hashed.tx.inputs : hashed.tx.inputs[i].trusted
    /\ screen.fees = SumFunction(InAmounts(hashed.tx))
                       - (SumFunction(OutAmounts(hashed.tx)) % AmountSpan)
    /\ screen.fees >= 0

\* Outputs whose sum fits the 64 bits of an amount, as do those of any transaction
\* the network accepts.  The device does not check it.
OutputsFit == \A t \in Txs : SumFunction(OutAmounts(t)) < AmountSpan

\* A sum over all places is a sum over the domain.
LEMMA WholeSums ==
  ASSUME NEW t \in Txs
  PROVE  /\ SumFunction(InAmounts(t)) = SumUpto(InAmounts(t), Len(t.inputs))
         /\ SumFunction(OutAmounts(t)) = SumUpto(OutAmounts(t), Len(t.outputs))
         /\ SumUpto(OutAmounts(t), Len(t.outputs)) \in Nat
         /\ DOMAIN t.inputs = 1..Len(t.inputs)
  <1>1. /\ DOMAIN InAmounts(t) = 1..Len(t.inputs) /\ DOMAIN t.inputs = 1..Len(t.inputs)
        /\ DOMAIN OutAmounts(t) = 1..Len(t.outputs)
        /\ Len(t.outputs) \in 0..Len(t.outputs)
    BY TxTypes DEF InAmounts, OutAmounts
  <1>2. QED
    BY <1>1, OutputTotals DEF SumFunction, SumUpto

\* The invariants imply FeesWrap.
LEMMA FeesShownWrap ==
  ASSUME SigningInv, FeesInv
  PROVE  FeesWrap
  <1> SUFFICES ASSUME screen.name \in FinalNames, screen.fees # None, disorder = {}
               PROVE  /\ \A i \in DOMAIN hashed.tx.inputs : hashed.tx.inputs[i].trusted
                      /\ screen.fees = SumFunction(InAmounts(hashed.tx))
                                         - (SumFunction(OutAmounts(hashed.tx)) % AmountSpan)
                      /\ screen.fees >= 0
    BY DEF FeesWrap
  <1> DEFINE t == hashed.tx
  <1>1. /\ firstSigned /\ up /\ transactionState = "PRESIGN_READY" /\ t \in Txs
        /\ hashed = WholeTx(t)
    BY FinalScreenUp DEF Reviewed
  <1>2. hashed.inputs = Len(t.inputs)
    BY <1>1 DEF WholeTx
  <1>3. FeesShown(screen.fees, t, relaxed, transactionAmount)
    BY <1>1 DEF FeesInv, OutputsSummed
  <1>4. /\ screen.fees = transactionAmount - OutputTotal(t, Len(t.outputs))
        /\ screen.fees >= 0 /\ ~relaxed
    BY <1>3 DEF FeesShown
  <1>5. /\ \A i \in 1..Len(t.inputs) : t.inputs[i].trusted
        /\ transactionAmount = SumUpto(InAmounts(t), Len(t.inputs))
    BY <1>1, <1>2, <1>4 DEF FeesInv, InputsSummed
  <1>6. QED
    BY <1>1, <1>4, <1>5, WholeSums DEF OutputTotal

\* On the screen that ends a review the fees are those of trusted inputs, less
\* the outputs added as prepare_fees does, and never negative.
THEOREM FeesExactButCarry == Spec => []FeesWrap
  <1>1. SigningInv /\ FeesInv => FeesWrap
    BY FeesShownWrap
  <1>2. QED
    BY <1>1, SigningInvariance, FeesInvariance, PTL

\* The fees on the screen that ends a review are exact, the hidden change
\* included, whatever the blocks the outputs came in: as long as the outputs add
\* up to an amount of 64 bits, which transaction_amount_add_be does not see to.
THEOREM FeesAreExact ==
  ASSUME OutputsFit
  PROVE  Spec => []FeesAddUp
  <1>1. SigningInv /\ FeesInv => FeesAddUp
    <2>1. SUFFICES ASSUME SigningInv, FeesInv, screen.name \in FinalNames, screen.fees # None,
                          disorder = {}
                   PROVE  /\ \A i \in DOMAIN hashed.tx.inputs : hashed.tx.inputs[i].trusted
                          /\ screen.fees = ExactFees(hashed.tx)
                          /\ screen.fees >= 0
      BY DEF FeesAddUp, FinalNames
    <2> DEFINE t == hashed.tx
               in == SumFunction(InAmounts(t))
               out == SumFunction(OutAmounts(t))
    <2>2. t \in Txs
      BY <2>1, FinalScreenUp
    <2>3. FeesWrap
      BY <2>1, FeesShownWrap
    <2>4. out \in Nat /\ out < AmountSpan /\ AmountSpan \in Nat
      BY <2>2, WholeSums, TxTypes DEF OutputsFit
    <2>5. out % AmountSpan = out
      <3> HIDE DEF out
      <3>1. QED
        BY <2>4
    <2>6. ExactFees(t) = in - out
      BY DEF ExactFees, InAmounts, OutAmounts
    <2>7. QED
      BY <2>1, <2>3, <2>5, <2>6 DEF FeesWrap
  <1>2. QED
    BY <1>1, SigningInvariance, FeesInvariance, PTL

\* Then the fees are never negative either: "Fees not consistent" of prepare_fees
\* comes before any screen that gives a figure.
THEOREM OutputsAreCovered ==
  ASSUME OutputsFit
  PROVE  Spec => []OutputsCovered
  <1>1. FeesAddUp => OutputsCovered
    BY DEF FeesAddUp, OutputsCovered
  <1>2. QED
    BY <1>1, FeesAreExact, PTL

-----------------------------------------------------------------------------
\* The host library drives the device (SigningHost).  What a call knows of the
\* device: past the first command of a round it holds the transaction of the call,
\* or nothing after a reset; and the session counts as reviewed once it was.
InCall == pc \in {"inputs", "change", "outputs", "pending", "sign"}

\* Within a call the device is sent the transaction of the call, in order.
OrderInv ==
  /\ firstSigned /\ transactionState # "NONE" => disorder = {}
  /\ transactionState \in {"PARSING", "PRESIGN_READY"} => hashed.outputs = offset
  /\ firstSigned /\ transactionState = "PRESIGN_READY" /\ offset = StreamUnits(tx) => marked
  /\ transactionState = "SIGN_READY" => hashed = WholeTx(tx)

HostInv ==
  /\ pc \in {"start", "inputs", "change", "outputs", "pending", "sign", "resolved", "rejected"}
  /\ tx \in Txs /\ changePath \in Paths \cup {None}
  /\ offset \in Nat /\ offset <= StreamUnits(tx)
  /\ pc \in {"inputs", "change", "outputs"} => offset # StreamUnits(tx)
  /\ pc \in {"inputs", "change"} => offset = 0
  /\ reviews = 0 \/ reviews = 1
  /\ signatures \in Seq({WholeTx(tx)})
  /\ signatures # <<>> => reviews = 1
  /\ reviews = 1 => ~firstSigned
  /\ pc = "start" /\ signatures = <<>> => reviews = 0
  /\ InCall => hashed = None \/ hashed.tx = tx
  /\ InCall /\ reviews = 0 => firstSigned \/ transactionState = "NONE"
  /\ InCall => OrderInv
  /\ screen # NoScreen => pc = "pending"

CallInv == SigningInv /\ HostInv

\* A block is never empty, and never longer than what is left of the outputs.
LEMMA BlockSizes ==
  ASSUME HostInv, pc = "outputs"
  PROVE  LET n == BlockSize(StreamUnits(tx) - offset)
         IN  /\ n \in 1..BufferUnits + 1 /\ n \in Nat
             /\ offset + n \in Nat /\ offset + n <= StreamUnits(tx)
             /\ offset + n >= CountUnits
  <1> DEFINE left == StreamUnits(tx) - offset
             n == BlockSize(left)
  <1>1. /\ StreamUnits(tx) \in Nat /\ offset \in Nat /\ offset < StreamUnits(tx)
        /\ BlockUnits \in Nat \ {0} /\ BlockUnits <= BufferUnits /\ BufferUnits \in Nat
    <2>1. /\ offset \in Nat /\ offset <= StreamUnits(tx) /\ offset # StreamUnits(tx)
          /\ StreamUnits(tx) \in Nat
      BY TxTypes DEF HostInv
    <2>2. offset < StreamUnits(tx)
      BY <2>1
    <2>3. QED
      BY <2>1, <2>2, BlockAssumption, SignTxAssumption
      DEF SignTxAssumption
  <1>a. /\ CountUnits \in Nat /\ CountUnits <= BlockUnits
        /\ CountUnits <= StreamUnits(tx)
    <2>1. CountUnits \in Nat /\ Len(tx.outputs) \in Nat
      BY TxTypes DEF HostInv
    <2>2. QED
      BY <2>1, BlockAssumption DEF StreamUnits, OutputUnits
  <1>2. left \in Nat \ {0}
    BY <1>1
  <1> HIDE DEF left
  <1>3. n \in {BlockUnits, left} /\ n <= left /\ n <= BlockUnits
    <2>1. \E x \in {BlockUnits, left} : \A y \in {BlockUnits, left} : x <= y
      <3>1. CASE BlockUnits <= left
        BY <3>1, <1>1, <1>2
      <3>2. CASE left <= BlockUnits
        BY <3>2, <1>1, <1>2
      <3>3. QED
        BY <3>1, <3>2, <1>1, <1>2
    <2>2. QED
      BY <2>1 DEF BlockSize, Min
  <1> HIDE DEF n
  <1>4. n \in Nat /\ n >= 1 /\ n <= BufferUnits + 1
    BY <1>1, <1>2, <1>3
  <1>5. n <= StreamUnits(tx) - offset
    BY <1>3 DEF left
  <1>6. offset + n \in Nat /\ offset + n <= StreamUnits(tx)
    BY <1>1, <1>4, <1>5
  <1>7. offset + n >= CountUnits
    <2>1. CASE n = BlockUnits
      BY <2>1, <1>1, <1>a, <1>4
    <2>2. CASE n = StreamUnits(tx) - offset
      BY <2>2, <1>1, <1>a, <1>4
    <2>3. QED
      BY <2>1, <2>2, <1>3 DEF left
  <1>8. QED
    BY <1>4, <1>6, <1>7, <1>1 DEF n, left

\* What the library makes the device do, the device does.
LEMMA CallDrivesDevice ==
  ASSUME CallInv, [HostNext]_hostVars
  PROVE  NextCall \/ [Next]_vars
  <1>1. CASE SendStart
    <2>1. OpensSession \in BOOLEAN /\ tx \in Txs /\ TRUE \in BOOLEAN
      BY DEF OpensSession, firstRun, CallInv, HostInv
    <2>2. StartFirst(OpensSession, tx) \/ StartFirstRefused(TRUE)
      BY <1>1 DEF SendStart
    <2>3. HashInputStart
      BY <2>1, <2>2 DEF HashInputStart
    <2>4. QED
      BY <2>3 DEF Next
  <1>2. CASE SendInput
    BY <1>2 DEF SendInput, HashInputStart, Next
  <1>3. CASE SendChangePath
    <2>1. \/ UNCHANGED vars \/ FinalizeOutOfState
          \/ changePath # None /\ SetChangePath(changePath)
      BY <1>3 DEF SendChangePath, NoCommand, ChangePathIgnored
    <2>2. changePath # None => changePath \in Paths
      BY DEF CallInv, HostInv
    <2>3. QED
      BY <2>1, <2>2 DEF HashInputFinalizeFull, Next
  <1>4. CASE SendOutputs
    <2> DEFINE n == BlockSize(StreamUnits(tx) - offset)
               last == offset + n = StreamUnits(tx)
    <2>1. n \in 1..BufferUnits + 1 /\ last \in BOOLEAN
      BY <1>4, BlockSizes DEF SendOutputs, CallInv
    <2>2. FinalizeFirst(last, n) \/ FinalizeNext(last, n) \/ FinalizeOutOfState
      BY <1>4 DEF SendOutputs
    <2> HIDE DEF n, last
    <2>3. HashInputFinalizeFull
      BY <2>1, <2>2 DEF HashInputFinalizeFull
    <2>4. QED
      BY <2>3 DEF Next
  <1>5. CASE SendSign
    BY <1>5 DEF SendSign, HashSign, Next
  <1>6. CASE SendFails
    BY <1>6 DEF SendFails
  <1>7. CASE Answer
    BY <1>7 DEF Answer, Next
  <1>8. CASE Reset \/ Relaunch
    BY <1>8 DEF Reset, Relaunch, Next
  <1>9. CASE UNCHANGED hostVars
    BY <1>9 DEF hostVars
  <1>10. QED
    BY <1>1, <1>2, <1>3, <1>4, <1>5, <1>6, <1>7, <1>8, <1>9 DEF HostNext, HostStep

\* The next call leaves the device as it is.
LEMMA SigningNextCall ==
  ASSUME SigningInv, NextCall
  PROVE  SigningInv'
  <1>1. /\ UNCHANGED <<transactionState, parseMode, flags, hashed, parser, change,
                       authorizationHash, screen, up, pass, approved, sealed>>
        /\ warned' = {} /\ signed' = {}
    BY DEF NextCall
  <1>2. UNCHANGED <<transactionState, parseMode, firstSigned, relaxed, consumeP2SH,
                    transactionAmount, hashed, parser, changeAddress, changeAccepted,
                    multipleOutput, authorizationHash, screen, up, confirmed, disorder, marked,
                    approved, sealed>>
    BY <1>1 DEF flags, change, pass
  <1>3. TypeInv'
    BY <1>1, <1>2 DEF SigningInv, TypeInv, TypeOK, InputsPending, InputsHashed, ScreenInReview
  <1>4. ReviewInv'
    BY <1>2, ReviewUnchanged DEF SigningInv
  <1>5. AuthorizationInv'
    BY <1>2 DEF SigningInv, AuthorizationInv, ReviewedHashStored
  <1>6. QED
    BY <1>3, <1>4, <1>5 DEF SigningInv

\* A step inside a call: the transaction stays, and so does the session.
CallStep ==
  /\ UNCHANGED <<call, signatures, reviews>>
  /\ pc # "start" /\ pc' \in {"inputs", "change", "outputs", "pending", "sign", "rejected"}
  /\ offset' \in Nat /\ offset' <= StreamUnits(tx)
  /\ pc' \in {"inputs", "change", "outputs"} => offset' # StreamUnits(tx)
  /\ pc' \in {"inputs", "change"} => offset' = 0
  /\ OrderInv'
  /\ hashed' = None \/ hashed'.tx = tx
  /\ firstSigned' = firstSigned
  /\ transactionState = "NONE" => transactionState' = "NONE"
  /\ screen' # NoScreen => pc' = "pending"

\* Such a step keeps what a call knows.
LEMMA CallStepKeeps ==
  ASSUME CallInv, InCall, CallStep
  PROVE  HostInv'
  <1>1. tx' = tx /\ changePath' = changePath /\ signatures' = signatures /\ reviews' = reviews
    BY DEF CallStep, call
  <1>2. StreamUnits(tx') = StreamUnits(tx) /\ WholeTx(tx') = WholeTx(tx)
    BY <1>1
  <1>3. QED
    BY <1>1, <1>2 DEF CallInv, HostInv, CallStep, InCall, StreamUnits, WholeTx

\* What the device hashes is the transaction of the call, wherever it is a content.
LEMMA HashedInCall ==
  ASSUME CallInv, InCall
  PROVE  /\ transactionState \in {"PRESIGN_READY", "SIGN_READY"} =>
              hashed \in Contents /\ hashed.tx = tx
         /\ parseMode = "SIGNATURE" /\ transactionState = "PARSING" =>
              hashed \in Contents /\ hashed.tx = tx
  BY NoneIsNoContent DEF CallInv, SigningInv, TypeInv, InputsHashed, InputsPending, HostInv

\* The first command of a round.
LEMMA CallSendStart ==
  ASSUME CallInv, SendStart
  PROVE  HostInv'
  <1>1. /\ UNCHANGED <<tx, changePath, signatures, reviews>> /\ offset' = 0 /\ pc = "start"
    BY DEF SendStart, call
  <1>2. StreamUnits(tx) \in Nat /\ StreamUnits(tx) > 0
    <2>1. CountUnits \in {1, 2} /\ Len(tx.outputs) \in Nat
      BY TxTypes DEF CallInv, HostInv
    <2>2. QED
      BY <2>1 DEF StreamUnits, OutputUnits
  <1>3. screen' = NoScreen
    BY DEF SendStart, StartFirst, StartFirstRefused, Listening
  <1>4. CASE /\ StartFirst(OpensSession, tx)
             /\ pc' \in {"change", "inputs"}
    <2>1. hashed'.tx = tx
      BY <1>4 DEF StartFirst, BeginTransaction
    <2>2. /\ signatures = <<>> => firstSigned'
          /\ signatures # <<>> => firstSigned' = firstSigned
      BY <1>4 DEF StartFirst, OpensSession, firstRun, MasterReset, KeepSession
    <2>a. OrderInv'
      <3>1. /\ disorder' = {} /\ hashed'.outputs = 0 /\ offset' = 0
            /\ transactionState' # "SIGN_READY" /\ 0 # StreamUnits(tx')
        BY <1>1, <1>2, <1>4 DEF StartFirst, BeginTransaction, StartPrelude, StreamUnits
      <3>2. QED
        BY <3>1 DEF OrderInv, StreamUnits
    <2>3. QED
      BY <1>1, <1>2, <1>3, <1>4, <2>1, <2>2, <2>a
      DEF CallInv, HostInv, InCall, StreamUnits, WholeTx
  <1>5. CASE firstRun /\ pc' = Failure
    BY <1>1, <1>2, <1>3, <1>5 DEF CallInv, HostInv, InCall, StreamUnits, WholeTx, firstRun, Failure
  <1>6. QED
    BY <1>4, <1>5 DEF SendStart

\* What a block of outputs leaves of the order.
LEMMA BlockInOrder ==
  ASSUME CallInv, pc = "outputs",
         NEW n, n = BlockSize(StreamUnits(tx) - offset),
         NEW last, last = (offset + n = StreamUnits(tx)),
         tx' = tx, offset' = offset + n,
         FinalizeFirst(last, n) \/ FinalizeNext(last, n)
  PROVE  OrderInv' /\ (FinalizeFirst(last, n) => disorder' = {})
  <1>0. HostInv
    BY DEF CallInv
  <1>1. /\ OrderInv /\ tx \in Txs /\ transactionState = "PRESIGN_READY" /\ hashed' = Absorb(n)
        /\ StreamUnits(tx)' = StreamUnits(tx)
    BY <1>0 DEF HostInv, InCall, FinalizeFirst, FinalizeNext, StreamUnits
  <1>2. hashed \in Contents /\ hashed.tx = tx /\ hashed.inputs = Len(tx.inputs)
    <2>1. InCall
      BY DEF InCall
    <2>2. QED
      BY <1>1, <2>1, HashedInCall DEF CallInv, SigningInv, TypeInv, InputsHashed
  <1>3. hashed.outputs = offset
    BY <1>1 DEF OrderInv
  <1>4. /\ n \in Nat /\ offset + n <= StreamUnits(tx) /\ offset + n >= CountUnits
        /\ offset + n \in Nat /\ StreamUnits(tx) \in Nat /\ CountUnits \in Nat
    BY <1>0, <1>1, BlockSizes, TxTypes
  <1>5. Absorb(n) = [tx |-> tx, inputs |-> Len(tx.inputs), outputs |-> offset + n]
    BY <1>2, <1>3 DEF Absorb, Contents
  <1>6. hashed'.outputs = offset'
    BY <1>1, <1>5
  <1>7. CASE FinalizeFirst(last, n)
    <2>1. /\ firstSigned /\ marked' = last
          /\ disorder' = disorder \cup BlockDepartures(last, offset + n)
          /\ transactionState' \in {"PRESIGN_READY", "NONE"}
      BY <1>1, <1>3, <1>7 DEF FinalizeFirst, ReviewOutputs, ReviewFull, ReviewSingle, FinalizeOrFail,
                              DiscardTransaction
    <2>2. BlockDepartures(last, offset + n) = {}
      <3>1. /\ ~(offset + n < CountUnits) /\ ~(last /\ offset + n < StreamUnits(tx))
            /\ ~(offset + n > StreamUnits(tx))
        <4>1. ~(offset + n < CountUnits) /\ ~(offset + n > StreamUnits(tx))
          BY <1>4
        <4>2. CASE last
          <5>1. offset + n = StreamUnits(tx)
            BY <4>2
          <5>2. ~(offset + n < StreamUnits(tx))
            BY <5>1, <1>4
          <5>3. QED
            BY <4>1, <5>2
        <4>3. CASE ~last
          BY <4>1, <4>3
        <4>4. QED
          BY <4>2, <4>3
      <3>2. QED
        BY <3>1, <1>2 DEF BlockDepartures
    <2>3. disorder' = {}
      BY <2>1, <2>2, <1>1 DEF OrderInv
    <2>4. QED
      BY <2>1, <2>3, <1>1, <1>6 DEF OrderInv
  <1>8. CASE FinalizeNext(last, n)
    <2>1. /\ ~firstSigned /\ firstSigned' = firstSigned
          /\ transactionState' = "SIGN_READY" => last
      BY <1>1, <1>8 DEF FinalizeNext, flags
    <2>2. last => hashed' = WholeTx(tx')
      BY <1>1, <1>5 DEF WholeTx
    <2>3. ~FinalizeFirst(last, n)
      BY <2>1 DEF FinalizeFirst
    <2>4. QED
      BY <2>1, <2>2, <2>3, <1>6 DEF OrderInv
  <1>9. QED
    BY <1>7, <1>8

\* The commands of a round leave it in order.
LEMMA SendsInOrder ==
  ASSUME CallInv, SendInput \/ SendChangePath \/ SendOutputs
  PROVE  OrderInv' /\ (pc' \in {"inputs", "change"} => offset' = 0)
  <1>1. /\ InCall /\ OrderInv /\ HostInv /\ tx \in Txs
        /\ tx' = tx /\ StreamUnits(tx)' = StreamUnits(tx) /\ WholeTx(tx)' = WholeTx(tx)
    BY DEF SendInput, SendChangePath, SendOutputs, CallInv, HostInv, InCall, call, StreamUnits,
           WholeTx
  <1>2. StreamUnits(tx) # 0
    BY <1>1, TxTypes, SignTxAssumption DEF StreamUnits, OutputUnits, SignTxAssumption
  <1>3. CASE SendInput
    <2>1. offset = 0 /\ offset' = 0
      BY <1>3 DEF SendInput, CallInv, HostInv
    <2>2. CASE StartNext
      <3>1. /\ transactionState = "PARSING" /\ parseMode = "SIGNATURE"
            /\ transactionState' \in {"PARSING", "PRESIGN_READY", "NONE"}
            /\ UNCHANGED <<firstSigned, disorder>>
        BY <2>2 DEF StartNext, history, pass
      <3>2. hashed \in Contents /\ hashed.outputs = 0
        BY <3>1 DEF CallInv, SigningInv, TypeInv, InputsPending
      <3>3. hashed' = hashed \/ hashed' = [hashed EXCEPT !.inputs = hashed.inputs + 1]
        BY <2>2 DEF StartNext
      <3>4. hashed'.outputs = 0
        BY <3>2, <3>3 DEF Contents
      <3>5. QED
        BY <3>1, <3>4, <2>1, <1>1, <1>2 DEF OrderInv
    <2>3. CASE StartNextRefused
      BY <2>3, <2>1 DEF StartNextRefused, OrderInv
    <2>4. QED
      BY <1>3, <2>2, <2>3 DEF SendInput
  <1>4. CASE SendChangePath
    <2>1. offset = 0 /\ offset' = 0
      BY <1>4 DEF SendChangePath, CallInv, HostInv
    <2>2. CASE UNCHANGED vars
      <3>1. UNCHANGED <<firstSigned, transactionState, disorder, hashed, marked>>
        BY <2>2 DEF vars, flags, history, pass
      <3>2. QED
        BY <3>1, <2>1, <1>1 DEF OrderInv
    <2>3. CASE SetChangePath(changePath)
      <3>1. /\ transactionState = "PRESIGN_READY"
            /\ UNCHANGED <<transactionState, firstSigned, hashed>>
            /\ disorder' = disorder \cup (IF hashed.outputs = 0 THEN {} ELSE {"change"})
        BY <2>3 DEF SetChangePath, flags
      <3>2. hashed.outputs = 0
        BY <3>1, <2>1, <1>1 DEF OrderInv
      <3>3. QED
        BY <3>1, <3>2, <2>1, <1>1, <1>2 DEF OrderInv
    <2>4. CASE FinalizeOutOfState
      BY <2>4, <2>1 DEF FinalizeOutOfState, DiscardTransaction, OrderInv
    <2>5. QED
      BY <1>4, <2>2, <2>3, <2>4 DEF SendChangePath, NoCommand, ChangePathIgnored
  <1>5. CASE SendOutputs
    <2>0. pc' \notin {"inputs", "change"}
      BY <1>5 DEF SendOutputs, Failure
    <2>1. CASE FinalizeOutOfState
      BY <2>0, <2>1 DEF FinalizeOutOfState, DiscardTransaction, OrderInv
    <2>2. CASE ~FinalizeOutOfState
      BY <1>1, <1>5, <2>0, <2>2, BlockInOrder DEF SendOutputs
    <2>3. QED
      BY <2>1, <2>2
  <1>6. QED
    BY <1>3, <1>4, <1>5

\* The commands of a round that leave the session as it is.
LEMMA CallSends ==
  ASSUME CallInv, SigningInv', SendInput \/ SendChangePath \/ SendOutputs
  PROVE  HostInv'
  <1>1. InCall /\ pc # "start" /\ UNCHANGED <<call, signatures, reviews>>
    BY DEF SendInput, SendChangePath, SendOutputs, InCall
  <1>2. screen' # NoScreen => transactionState' = "PRESIGN_READY"
    BY DEF SigningInv, TypeInv, ScreenInReview
  <1>3. /\ screen = NoScreen
        /\ firstSigned' = firstSigned
        /\ transactionState = "NONE" => transactionState' = "NONE"
    <2>1. CASE SendInput
      BY <2>1 DEF SendInput, StartNext, StartNextRefused, Listening
    <2>2. CASE SendChangePath
      BY <2>2 DEF SendChangePath, NoCommand, ChangePathIgnored, SetChangePath, FinalizeOutOfState,
                  DiscardTransaction, Listening, flags, vars
    <2>3. CASE SendOutputs
      BY <2>3 DEF SendOutputs, FinalizeFirst, FinalizeNext, FinalizeOutOfState,
                  DiscardTransaction, Listening, flags
    <2>4. QED
      BY <2>1, <2>2, <2>3
  <1>4. hashed' = None \/ hashed'.tx = tx
    <2>1. hashed = None \/ hashed.tx = tx
      BY <1>1 DEF CallInv, HostInv
    <2>2. CASE SendInput
      <3>1. ASSUME StartNext PROVE hashed'.tx = tx
        <4>1. hashed \in Contents /\ hashed.tx = tx
          BY <3>1, <1>1, HashedInCall DEF StartNext
        <4>2. hashed' = hashed \/ hashed' = [hashed EXCEPT !.inputs = hashed.inputs + 1]
          BY <3>1 DEF StartNext
        <4>3. QED
          BY <4>1, <4>2 DEF Contents
      <3>2. QED
        BY <2>1, <2>2, <3>1 DEF SendInput, StartNextRefused
    <2>3. CASE SendChangePath
      BY <2>1, <2>3 DEF SendChangePath, NoCommand, ChangePathIgnored, SetChangePath,
                        FinalizeOutOfState, vars
    <2>4. CASE SendOutputs
      <3>1. ASSUME NEW last, NEW n, FinalizeFirst(last, n) \/ FinalizeNext(last, n)
            PROVE  hashed'.tx = tx
        <4>1. hashed \in Contents /\ hashed.tx = tx /\ hashed' = Absorb(n)
          BY <3>1, <1>1, HashedInCall DEF FinalizeFirst, FinalizeNext
        <4>2. QED
          BY <4>1 DEF Absorb, Contents
      <3>2. QED
        BY <2>1, <2>4, <3>1 DEF SendOutputs, FinalizeOutOfState
    <2>5. QED
      BY <2>2, <2>3, <2>4
  <1>5. /\ offset' \in Nat /\ offset' <= StreamUnits(tx)
        /\ pc' \in {"inputs", "change", "outputs", "pending", "sign", "rejected"}
        /\ pc' \in {"inputs", "change", "outputs"} => offset' # StreamUnits(tx)
        /\ screen' # NoScreen => pc' = "pending"
    <2>1. /\ offset \in Nat /\ offset <= StreamUnits(tx) /\ StreamUnits(tx) \in Nat
          /\ pc \in {"inputs", "change", "outputs"} => offset # StreamUnits(tx)
      <3>1. tx \in Txs /\ CountUnits \in {1, 2} /\ Len(tx.outputs) \in Nat
        BY TxTypes DEF CallInv, HostInv
      <3>2. StreamUnits(tx) \in Nat /\ StreamUnits(tx) > 0
        BY <3>1 DEF StreamUnits, OutputUnits
      <3>3. QED
        BY <3>2 DEF CallInv, HostInv
    <2>2. CASE SendInput
      <3>1. /\ pc = "inputs" /\ offset' = offset
            /\ pc' \in {"change", "inputs", "rejected"}
            /\ screen' = NoScreen
        BY <2>2, <1>3 DEF SendInput, Failure, StartNext, StartNextRefused
      <3>2. offset # StreamUnits(tx)
        BY <3>1, <2>1
      <3>3. QED
        BY <3>1, <3>2, <2>1
    <2>3. CASE SendChangePath
      <3>1. /\ pc = "change" /\ offset' = offset
            /\ pc' \in {"pending", "outputs", "rejected"}
            /\ screen' # NoScreen => pc' = "pending"
        BY <2>3, <1>2 DEF SendChangePath, Failure
      <3>2. offset # StreamUnits(tx)
        BY <3>1, <2>1
      <3>3. QED
        BY <3>1, <3>2, <2>1
    <2>4. CASE SendOutputs
      <3>1. /\ pc' \in {"rejected", "pending", "sign", "outputs"}
            /\ screen' # NoScreen => pc' = "pending"
            /\ pc' = "outputs" => offset' # StreamUnits(tx)
        BY <2>4, <1>2 DEF SendOutputs, Failure
      <3>2. offset' \in Nat /\ offset' <= StreamUnits(tx)
        BY <2>4, BlockSizes DEF SendOutputs, CallInv
      <3>3. QED
        BY <3>1, <3>2
    <2>5. QED
      BY <2>2, <2>3, <2>4
  <1>6. CallStep
    BY <1>1, <1>3, <1>4, <1>5, SendsInOrder DEF CallStep
  <1>7. QED
    BY <1>1, <1>6, CallStepKeeps

\* A signature is over the transaction of the call, once it was reviewed.
LEMMA CallSendSign ==
  ASSUME CallInv, SendSign
  PROVE  HostInv'
  <1>1. /\ InCall /\ pc = "sign" /\ UNCHANGED <<tx, changePath, reviews, offset>>
        /\ screen = NoScreen /\ screen' = NoScreen
    BY DEF SendSign, InCall, call, Sign, SignRefused, Listening
  <1>2. /\ transactionState' = "NONE" /\ hashed' = hashed /\ firstSigned' = firstSigned
    BY DEF SendSign, Sign, SignRefused, flags
  <1>3. CASE Sign /\ signatures' = Append(signatures, hashed) /\ pc' \in {"resolved", "start"}
    <2>1. transactionState = "SIGN_READY"
      BY <1>3 DEF Sign
    <2>2. hashed = WholeTx(tx)
      BY <2>1, <1>1 DEF CallInv, HostInv, OrderInv
    <2>3. reviews = 1
      BY <2>1, <1>1 DEF CallInv, HostInv, SigningInv, AuthorizationInv
    <2>4. signatures' \in Seq({WholeTx(tx)}) /\ signatures' # <<>>
      <3>1. signatures \in Seq({WholeTx(tx)})
        BY DEF CallInv, HostInv
      <3>2. Append(signatures, WholeTx(tx)) \in Seq({WholeTx(tx)})
        BY <3>1, AppendProperties
      <3>3. Append(signatures, WholeTx(tx)) # <<>>
        BY <3>1, AppendProperties
      <3>4. QED
        BY <3>2, <3>3, <1>3, <2>2
    <2>5. QED
      BY <1>1, <1>2, <1>3, <2>3, <2>4 DEF CallInv, HostInv, InCall, StreamUnits, WholeTx
  <1>4. CASE pc' = Failure /\ UNCHANGED signatures
    BY <1>1, <1>2, <1>4 DEF CallInv, HostInv, InCall, Failure, StreamUnits, WholeTx
  <1>5. QED
    BY <1>3, <1>4 DEF SendSign

\* The answers of the user leave the call in order.
LEMMA AnswersInOrder ==
  ASSUME CallInv, InCall, Answer, transactionState = "PRESIGN_READY", firstSigned
  PROVE  OrderInv'
  <1>1. /\ OrderInv /\ tx' = tx /\ offset' = offset
        /\ StreamUnits(tx)' = StreamUnits(tx) /\ WholeTx(tx)' = WholeTx(tx)
    BY DEF CallInv, HostInv, Answer, call, StreamUnits, WholeTx
  <1>2. disorder = {} /\ hashed.outputs = offset /\ (offset = StreamUnits(tx) => marked)
    BY <1>1 DEF OrderInv
  <1>3. UNCHANGED <<hashed, disorder, marked>>
    BY DEF Answer, UserAnswers, AcceptChangePath, RejectChangePath, AcceptOutput,
           AcceptTransaction, RejectTransaction, history, pass
  <1>4. CASE AcceptTransaction
    <2>1. /\ screen.name \in FinalNames /\ transactionState' = "SIGN_READY" /\ ~firstSigned'
      BY <1>4 DEF AcceptTransaction, ScreenIs, FinalNames
    <2>2. Reviewed(hashed, confirmed \cup {screen.output})
      BY <2>1, <1>2, FinalScreenUp DEF CallInv
    <2>3. hashed = WholeTx(hashed.tx) /\ hashed.tx = tx
      BY <2>2, HashedInCall DEF Reviewed
    <2>4. QED
      BY <2>1, <2>3, <1>1, <1>3 DEF OrderInv
  <1>5. CASE ~AcceptTransaction
    <2>1. transactionState' \in {"PRESIGN_READY", "NONE"}
      BY <1>5 DEF Answer, UserAnswers, AcceptChangePath, RejectChangePath, AcceptOutput, AfterAccept,
                  AppExits, RejectTransaction, DiscardTransaction
    <2>2. QED
      BY <2>1, <1>1, <1>2, <1>3 DEF OrderInv
  <1>6. QED
    BY <1>4, <1>5

\* The user's last answer counts as the review of this call.
LEMMA CallAnswer ==
  ASSUME CallInv, SigningInv', Answer
  PROVE  HostInv'
  <1>1. screen # NoScreen
    BY DEF Answer, UserAnswers, AcceptChangePath, RejectChangePath, AcceptOutput,
           AcceptTransaction, RejectTransaction, ScreenIs, NoScreen
  <1>2. /\ pc = "pending" /\ InCall /\ UNCHANGED <<tx, changePath, signatures, offset>>
        /\ transactionState = "PRESIGN_READY" /\ firstSigned
    BY <1>1 DEF CallInv, HostInv, SigningInv, TypeInv, ScreenInReview, InCall, Answer, call
  <1>3. hashed' = hashed /\ hashed.tx = tx
    <2>1. hashed' = hashed
      BY DEF Answer, UserAnswers, AcceptChangePath, RejectChangePath, AcceptOutput,
             AcceptTransaction, RejectTransaction
    <2>2. QED
      BY <2>1, <1>2, HashedInCall
  <1>4. /\ reviews = 0 /\ signatures = <<>>
        /\ reviews' = IF firstSigned' # firstSigned THEN 1 ELSE 0
    <2>1. reviews = 0 /\ signatures = <<>>
      BY <1>2 DEF CallInv, HostInv
    <2>2. reviews' = IF firstSigned' # firstSigned THEN reviews + 1 ELSE reviews
      BY DEF Answer
    <2>3. QED
      BY <2>1, <2>2
  <1>5. firstSigned = TRUE /\ firstSigned' \in BOOLEAN
    BY <1>2 DEF CallInv, SigningInv, TypeInv, TypeOK
  <1>6. /\ pc' \in {"pending", "rejected", "sign", "outputs"}
        /\ screen' # NoScreen => pc' = "pending"
        /\ pc' = "outputs" => offset # StreamUnits(tx)
    BY DEF Answer, Failure
  <1>7. offset \in Nat /\ offset <= StreamUnits(tx) /\ StreamUnits(tx) \in Nat
    BY TxTypes DEF CallInv, HostInv
  <1>8. pc' \in {"inputs", "change", "outputs"} => offset' # StreamUnits(tx)
    BY <1>2, <1>6, <1>7
  <1>9. reviews' = 0 \/ reviews' = 1
    BY <1>4
  <1>10. /\ reviews' = 1 => ~firstSigned'
         /\ reviews' = 0 => firstSigned'
    <2>1. CASE firstSigned' = TRUE
      BY <2>1, <1>4, <1>5
    <2>2. CASE firstSigned' = FALSE
      <3>1. firstSigned' # firstSigned
        BY <2>2, <1>5
      <3>2. reviews' = 1
        BY <3>1, <1>4
      <3>3. QED
        BY <3>2, <2>2
    <2>3. QED
      BY <2>1, <2>2, <1>5
  <1>11. /\ tx' = tx /\ changePath' = changePath /\ offset' = offset /\ signatures' = signatures
         /\ StreamUnits(tx') = StreamUnits(tx) /\ WholeTx(tx') = WholeTx(tx)
    BY <1>2
  <1>12. /\ tx \in Txs /\ changePath \in Paths \cup {None} /\ signatures \in Seq({WholeTx(tx)})
    BY DEF CallInv, HostInv
  <1>13. /\ pc' \in {"start", "inputs", "change", "outputs", "pending", "sign", "resolved", "rejected"}
         /\ pc' # "start"
    BY <1>6
  <1>14. OrderInv' /\ pc' \notin {"inputs", "change"}
    BY <1>2, <1>6, AnswersInOrder
  <1>15. QED
    BY <1>3, <1>4, <1>6, <1>7, <1>8, <1>9, <1>10, <1>11, <1>12, <1>13, <1>14 DEF HostInv, InCall

\* Every step of a call keeps what it knows.
LEMMA CallNext ==
  ASSUME CallInv, SigningInv', [HostNext]_hostVars
  PROVE  HostInv'
  <1>1. CASE SendFails
    <2>1. UNCHANGED <<vars, call, offset, signatures, reviews>> /\ pc' = "rejected" /\ ~up
      BY <1>1 DEF SendFails, Failure
    <2>2. screen = NoScreen
      BY <2>1 DEF CallInv, SigningInv, AuthorizationInv
    <2>3. QED
      BY <2>1, <2>2 DEF CallInv, HostInv, InCall, OrderInv, call, vars, flags, history, pass,
                        StreamUnits, WholeTx
  <1>2. CASE NextCall
    <2>1. /\ tx' \in Txs /\ changePath' \in Paths \cup {None}
          /\ pc' = "start" /\ offset' = 0 /\ signatures' = <<>> /\ reviews' = 0
          /\ screen' = screen /\ Settled
      BY <1>2 DEF NextCall
    <2>2. StreamUnits(tx') \in Nat
      BY <2>1, TxTypes
    <2>3. screen = NoScreen
      BY <2>1 DEF CallInv, HostInv, Settled
    <2>4. QED
      BY <2>1, <2>2, <2>3 DEF HostInv, InCall, StreamUnits, WholeTx
  <1>3. CASE Reset \/ Relaunch
    <2>1. /\ UNCHANGED <<tx, changePath, offset, signatures, reviews>>
          /\ pc' \in {pc, "rejected"}
          /\ hashed' = None /\ ~firstSigned' /\ transactionState' = "NONE" /\ screen' = NoScreen
      BY <1>3 DEF Reset, Relaunch, IoReset, Launch, RamZeroed, host, call, Failure
    <2>2. QED
      BY <2>1 DEF CallInv, HostInv, InCall, OrderInv, StreamUnits, WholeTx
  <1>4. CASE UNCHANGED hostVars
    <2>1. UNCHANGED <<tx, changePath, pc, offset, signatures, reviews, hashed, firstSigned,
                      transactionState, screen, disorder, marked>>
      BY <1>4 DEF hostVars, host, call, vars, flags, history, pass
    <2>2. QED
      BY <2>1 DEF CallInv, HostInv, InCall, OrderInv, StreamUnits, WholeTx
  <1>5. QED
    BY <1>1, <1>2, <1>3, <1>4, CallSendStart, CallSends, CallSendSign, CallAnswer
    DEF HostNext, HostStep

\* The device's invariant and the host's hold in every reachable state of a call.
LEMMA CallInvariance == HostInit /\ [][HostNext]_hostVars => []CallInv
  <1>1. HostInit => CallInv
    <2>1. SUFFICES ASSUME HostInit PROVE CallInv
      OBVIOUS
    <2>2. SigningInv
      BY <2>1, SigningInit DEF HostInit
    <2>3. StreamUnits(tx) \in Nat
      BY <2>1, TxTypes DEF HostInit
    <2>4. HostInv
      BY <2>1, <2>3 DEF HostInit, Init, HostInv, InCall
    <2>5. QED
      BY <2>2, <2>4 DEF CallInv
  <1>2. CallInv /\ [HostNext]_hostVars => CallInv'
    <2>1. SUFFICES ASSUME CallInv, [HostNext]_hostVars PROVE CallInv'
      OBVIOUS
    <2>2. SigningInv'
      BY <2>1, CallDrivesDevice, SigningNextCall, SigningStep DEF CallInv
    <2>3. QED
      BY <2>1, <2>2, CallNext DEF CallInv
  <1>3. QED
    BY <1>1, <1>2, PTL

\* Every signature the host library gets is over the whole transaction it was
\* called with, which the user reviewed in this call, once
\* (createPaymentTransactionNew_async, btchip_apdu_hash_input_finalize_full.c:362).
THEOREM CallsSignWhatWasReviewed == HostSpec => []SignedAsReviewed
  <1>1. CallInv => SignedAsReviewed
    BY DEF CallInv, HostInv, SignedAsReviewed
  <1>2. HostSpec => HostInit /\ [][HostNext]_hostVars
    BY PTL DEF HostSpec
  <1>3. QED
    BY <1>1, <1>2, CallInvariance, PTL

-----------------------------------------------------------------------------
\* A call fails for a reason.  What waits in currentOutput is less than an output
\* (a unit), and a block of the library fits beside it: MAX_SCRIPT_BLOCK is 50 bytes
\* and MAX_OUTPUT_TO_CHECK 200, which holds for outputs of up to 150 bytes.
RestFits == BlockUnits < BufferUnits

\* Every output can be shown, and at most one of them hidden.
Displayable(t) ==
  /\ \A i \in DOMAIN t.outputs : Recognised(t.outputs[i])
  /\ \A i, j \in DOMAIN t.outputs :
       IsChange(t.outputs[i]) /\ IsChange(t.outputs[j]) => i = j

\* The parser notes a change output only when it met one.
ChangeSeen(p, t) ==
  p.changeOutputFound => \E i \in 1..Seen(p) : IsChange(OutputAt(t, i))

\* A turn that refuses nothing.
SoundResult(r, t) == r.outcome # "throw" /\ ChangeSeen(r.parser, t)

\* handle_output_state refuses no output of a transaction that can be displayed.
LEMMA TurnSound ==
  ASSUME NEW p \in Parsers, NEW t \in Txs, NEW units \in Nat,
         Synced(p, t, units), units <= StreamUnits(t),
         Displayable(t), ChangeSeen(p, t)
  PROVE  SoundResult(HandleOutputState(p, t, units), t)
  <1> DEFINE o == OutputAt(t, HeadOutput(p, units))
             r == HandleOutputState(p, t, units)
             q0 == CountOutput(p, o, 0, 0, p.changeOutputFound)
             q1 == CountOutput(p, o, OutputUnits, 1, TRUE)
             k == Seen(p) + 1
  <1>1. r = ParseOutput(p, t, units)
    BY DEF HandleOutputState, Synced
  <1>2. /\ p.remainingOutputs \in Int /\ p.totalOutputs \in Nat /\ Seen(p) \in Nat
        /\ p.currentOutputOffset \in Int
        /\ p.totalOutputs = Len(t.outputs)
        /\ HeadOutput(p, units) = k
        /\ p.currentOutputOffset >= 2 => p.remainingOutputs > 0
    BY ParserFields, SyncedUnits DEF Synced
  <1>3. CASE p.currentOutputOffset < 2
    <2>1. r = [outcome |-> "wait", parser |-> p]
      BY <1>1, <1>3 DEF ParseOutput, OutputUnits
    <2> HIDE DEF r
    <2>2. r.outcome # "throw" /\ r.parser = p
      BY <2>1
    <2>3. QED
      BY <2>2 DEF SoundResult, r
  <1>4. CASE ~(p.currentOutputOffset < 2)
    <2>1. k \in 1..Len(t.outputs) /\ DOMAIN t.outputs = 1..Len(t.outputs)
      <3>1. k <= p.totalOutputs
        BY <1>2, <1>4 DEF Seen
      <3>2. QED
        BY <3>1, <1>2, TxTypes
    <2>2. o = t.outputs[k] /\ o = OutputAt(t, k)
      BY <2>1, <1>2 DEF OutputAt
    <2>3. Recognised(o)
      BY <2>1, <2>2 DEF Displayable
    <2>4. ~(IsChange(o) /\ p.changeOutputFound)
      <3>1. SUFFICES ASSUME IsChange(o), p.changeOutputFound PROVE FALSE
        OBVIOUS
      <3>2. PICK i \in 1..Seen(p) : IsChange(OutputAt(t, i))
        BY <3>1 DEF ChangeSeen
      <3>3. i \in DOMAIN t.outputs /\ i # k
        BY <2>1, <1>2
      <3>4. IsChange(t.outputs[i])
        BY <3>2, <3>3 DEF OutputAt
      <3>5. IsChange(t.outputs[k])
        BY <3>1, <2>2
      <3>6. QED
        BY <3>3, <3>4, <3>5, <2>1 DEF Displayable
    <2>5. ~Throws(p, o)
      BY <2>3, <2>4 DEF Throws
    <2>6. /\ q0.totalOutputs = p.totalOutputs /\ q0.remainingOutputs = p.remainingOutputs - 0
          /\ q0.changeOutputFound = p.changeOutputFound
          /\ q1.totalOutputs = p.totalOutputs /\ q1.remainingOutputs = p.remainingOutputs - 1
      BY DEF CountOutput, Parser
    <2>7. /\ IsChange(o) => r = [outcome |-> "processed", parser |-> q1]
          /\ ~IsChange(o) => r = [outcome |-> "display", parser |-> q0]
      BY <1>1, <1>4, <2>5 DEF ParseOutput, OutputUnits
    <2> HIDE DEF q0, q1, r, o
    <2>8. Seen(q0) = Seen(p) /\ Seen(q1) = k
      BY <2>6, <1>2 DEF Seen
    <2>9. ChangeSeen(q0, t)
      BY <2>6, <2>8 DEF ChangeSeen
    <2>10. IsChange(o) => ChangeSeen(q1, t)
      <3>1. k \in 1..k
        BY <1>2
      <3>2. QED
        BY <3>1, <2>2, <2>8 DEF ChangeSeen
    <2>11. /\ r.outcome # "throw"
           /\ IsChange(o) => r.parser = q1
           /\ ~IsChange(o) => r.parser = q0
      <3>1. CASE IsChange(o)
        BY <2>7, <3>1
      <3>2. CASE ~IsChange(o)
        BY <2>7, <3>2
      <3>3. QED
        BY <3>1, <3>2
    <2>12. QED
      BY <2>9, <2>10, <2>11 DEF SoundResult, r
  <1>5. QED
    BY <1>3, <1>4

\* Nor does the loop around it.
LEMMA LoopSound ==
  ASSUME NEW p \in Parsers, NEW t \in Txs, NEW units \in Nat, NEW shown,
         Synced(p, t, units), Covered(p, t, shown), units <= StreamUnits(t),
         Displayable(t), ChangeSeen(p, t)
  PROVE  SoundResult(ParseOutputs(p, t, units), t)
  <1> DEFINE Again(r) == IF r.outcome = "processed"
                           THEN HandleOutputState(r.parser, t, units) ELSE r
             r1 == HandleOutputState(p, t, units)
             Good(r) == TurnResult(r, t, units, shown) /\ SoundResult(r, t)
  <1>1. ASSUME NEW r, Good(r)
        PROVE  Good(Again(r))
    <2>1. CASE r.outcome = "processed"
      <3>1. /\ r.parser \in Parsers /\ Synced(r.parser, t, units)
            /\ Covered(r.parser, t, shown) /\ ChangeSeen(r.parser, t)
        BY <1>1, <2>1 DEF TurnResult, SoundResult
      <3>2. QED
        BY <2>1, <3>1, TurnSynced, TurnSound
    <2>2. CASE r.outcome # "processed"
      BY <1>1, <2>2
    <2>3. QED
      BY <2>1, <2>2
  <1>2. Good(r1)
    BY TurnSynced, TurnSound
  <1>3. ParseOutputs(p, t, units) = Again(Again(r1))
    BY DEF ParseOutputs
  <1> HIDE DEF Good, Again, r1
  <1>4. Good(ParseOutputs(p, t, units))
    BY <1>1, <1>2, <1>3
  <1>5. QED
    BY <1>4 DEF Good

\* Nor the first block, whatever the reset left of the counts.
LEMMA FreshSound ==
  ASSUME NEW p \in Parsers, NEW t \in Txs, NEW units \in Nat,
         p.outputParsingState = "NUMBER_OUTPUTS", ~p.changeOutputFound,
         p.currentOutputOffset = units, units >= CountUnits, units <= StreamUnits(t),
         Displayable(t)
  PROVE  SoundResult(ParseOutputs(p, t, units), t)
  <1> DEFINE Again(r) == IF r.outcome = "processed"
                           THEN HandleOutputState(r.parser, t, units) ELSE r
             r1 == HandleOutputState(p, t, units)
             n == Len(t.outputs)
             q == Parser("OUTPUT", units - CountUnits, n, n, p.totalOutputAmount, p.changeOutputFound)
             Good(r) == TurnResult(r, t, units, {}) /\ SoundResult(r, t)
  <1>0. n \in Nat /\ CountUnits \in Nat
    BY TxTypes
  <1>1. r1 = [outcome |-> "processed", parser |-> q]
    BY <1>0 DEF HandleOutputState, ParseNumber
  <1>2. q \in Parsers
    BY <1>1, HandleOutputStateType
  <1>3. /\ q.outputParsingState = "OUTPUT" /\ q.currentOutputOffset = units - CountUnits
        /\ q.remainingOutputs = n /\ q.totalOutputs = n /\ ~q.changeOutputFound
    BY DEF Parser
  <1> HIDE DEF q
  <1>4. Seen(q) = 0
    BY <1>0, <1>3 DEF Seen
  <1>5. Synced(q, t, units) /\ Covered(q, t, {})
    BY <1>0, <1>3, <1>4 DEF Synced, Covered
  <1>6. ChangeSeen(q, t)
    BY <1>3 DEF ChangeSeen
  <1>7. Good(HandleOutputState(q, t, units))
    BY <1>2, <1>5, <1>6, TurnSynced, TurnSound
  <1>8. ASSUME NEW r, Good(r)
        PROVE  Good(Again(r))
    <2>1. CASE r.outcome = "processed"
      <3>1. /\ r.parser \in Parsers /\ Synced(r.parser, t, units)
            /\ Covered(r.parser, t, {}) /\ ChangeSeen(r.parser, t)
        BY <1>8, <2>1 DEF TurnResult, SoundResult
      <3>2. QED
        BY <2>1, <3>1, TurnSynced, TurnSound
    <2>2. CASE r.outcome # "processed"
      BY <1>8, <2>2
    <2>3. QED
      BY <2>1, <2>2
  <1>9. ParseOutputs(p, t, units) = Again(HandleOutputState(q, t, units))
    BY <1>1 DEF ParseOutputs
  <1> HIDE DEF Good, Again
  <1>10. Good(ParseOutputs(p, t, units))
    BY <1>7, <1>8, <1>9
  <1>11. QED
    BY <1>10 DEF Good

\* A payable transaction can be displayed, with the change path of the call or
\* with none.
LEMMA PayableShown ==
  ASSUME tx \in Txs, Payable, changeAddress \in {None, changePath}
  PROVE  Displayable(tx)
  <1> DEFINE D == DOMAIN tx.outputs
             S == {i \in D : tx.outputs[i].script = changePath}
  <1>1. \A i \in D : Recognised(tx.outputs[i])
    BY DEF Payable
  <1>2. IsFiniteSet(D)
    <2>1. D = 1..Len(tx.outputs) /\ Len(tx.outputs) \in Nat
      BY TxTypes
    <2>2. IsFiniteSet(1..Len(tx.outputs))
      BY <2>1, FS_Interval
    <2>3. QED
      BY <2>1, <2>2
  <1>3. S \subseteq D /\ IsFiniteSet(S)
    BY <1>2, FS_Subset
  <1>4. Cardinality(S) <= 1
    BY DEF Payable
  <1>5. ASSUME NEW i \in S, NEW j \in S, i # j
        PROVE  FALSE
    <2> HIDE DEF S
    <2>1. {i, j} \subseteq S
      BY <1>5
    <2>2. Cardinality({i, j}) <= Cardinality(S)
      BY <2>1, <1>3, FS_Subset
    <2>3. Cardinality({i, j}) = 2
      <3>1. IsFiniteSet({i}) /\ Cardinality({i}) = 1
        BY FS_Singleton
      <3>2. {i, j} = {i} \cup {j} /\ j \notin {i}
        BY <1>5
      <3>3. Cardinality({i} \cup {j}) = Cardinality({i}) + 1
        BY <3>1, <3>2, FS_AddElement
      <3>4. QED
        BY <3>1, <3>2, <3>3
    <2>4. Cardinality(S) \in Nat
      BY <1>3, FS_CardinalityType
    <2>5. QED
      BY <2>2, <2>3, <2>4, <1>4
  <1>6. \A i \in D : IsChange(tx.outputs[i]) => i \in S
    BY DEF IsChange
  <1>7. QED
    BY <1>1, <1>5, <1>6 DEF Displayable

\* The sum of the inputs of a payable transaction never overflows.
LEMMA PayableInputsFit ==
  ASSUME tx \in Txs, Payable, NEW k \in 1..Len(tx.inputs), NEW amount \in Nat,
         amount <= SumUpto(InAmounts(tx), k - 1)
  PROVE  /\ amount + tx.inputs[k].amount < AmountSpan
         /\ amount + tx.inputs[k].amount <= SumUpto(InAmounts(tx), k)
         /\ amount <= SumUpto(InAmounts(tx), k)
         /\ tx.inputs[k].amount \in Nat
  <1> DEFINE n == Len(tx.inputs)
             f == InAmounts(tx)
  <1>1. n \in Nat /\ DOMAIN tx.inputs = 1..n /\ AmountSpan \in Nat
    BY TxTypes
  <1>2. \A i \in 1..n : f[i] \in Nat /\ f[i] = tx.inputs[i].amount
    <2>1. TAKE i \in 1..n
    <2>2. f[i] = tx.inputs[i].amount
      BY <1>1 DEF InAmounts
    <2>3. tx.inputs[i] \in [amount : Nat, trusted : BOOLEAN]
      BY <1>1, TxTypes, ElementType
    <2>4. QED
      BY <2>2, <2>3
  <1>3. SumUpto(f, n) < AmountSpan
    <2>1. SumFunction(InAmounts(tx)) < AmountSpan
      BY DEF Payable, Amount, InAmounts
    <2>2. QED
      BY <2>1, WholeSums
  <1>4. SumUpto(f, k) = SumUpto(f, k - 1) + tx.inputs[k].amount
    BY InputTotals
  <1> HIDE DEF f, n
  <1>5. /\ SumUpto(f, k) \in Nat /\ SumUpto(f, k) <= SumUpto(f, n)
        /\ SumUpto(f, k - 1) \in Nat /\ SumUpto(f, n) \in Nat
    <2>1. k \in 0..n /\ k - 1 \in 0..n /\ n \in 0..n
      BY <1>1 DEF n
    <2>2. QED
      BY <2>1, <1>1, <1>2, SumUptoGrows
  <1>6. tx.inputs[k].amount \in Nat
    BY <1>2 DEF n
  <1>7. amount <= SumUpto(f, k - 1)
    BY DEF f
  <1>8. ASSUME NEW whole \in Nat, NEW upto \in Nat, NEW before \in Nat, NEW in \in Nat,
               NEW span \in Nat, whole < span, upto = before + in, upto <= whole,
               amount <= before
        PROVE  amount + in < span /\ amount + in <= upto /\ amount <= upto
    BY <1>8
  <1>9. QED
    BY <1>1, <1>3, <1>4, <1>5, <1>6, <1>7, <1>8 DEF f

\* And its outputs are covered by what the device added up of its inputs.
LEMMA PayableCovered ==
  ASSUME TypeOK, FeesInv, Payable, transactionState = "PRESIGN_READY",
         tx \in Txs, hashed.tx = tx, hashed.inputs = Len(tx.inputs)
  PROVE  FeesConsistent(OutputTotal(tx, Len(tx.outputs)))
  <1> SUFFICES ASSUME ~relaxed
               PROVE  OutputTotal(tx, Len(tx.outputs)) <= transactionAmount
    BY DEF FeesConsistent
  <1>1. /\ \A i \in 1..Len(tx.inputs) : tx.inputs[i].trusted
        /\ transactionAmount = SumUpto(InAmounts(tx), Len(tx.inputs))
    BY DEF FeesInv, InputsSummed
  <1>2. DOMAIN tx.inputs = 1..Len(tx.inputs)
    BY WholeSums
  <1>3. Amount(tx.outputs) <= Amount(tx.inputs)
    BY <1>1, <1>2 DEF Payable
  <1>4. /\ Amount(tx.outputs) = SumUpto(OutAmounts(tx), Len(tx.outputs))
        /\ Amount(tx.inputs) = transactionAmount
    BY <1>1, WholeSums DEF Amount, InAmounts, OutAmounts
  <1> DEFINE s == SumUpto(OutAmounts(tx), Len(tx.outputs))
  <1>5. s \in Nat /\ AmountSpan \in Nat \ {0} /\ transactionAmount \in Nat
    BY WholeSums, TxTypes DEF TypeOK
  <1>6. s <= transactionAmount
    BY <1>3, <1>4
  <1>7. OutputTotal(tx, Len(tx.outputs)) = s % AmountSpan
    BY DEF OutputTotal
  <1> HIDE DEF s
  <1>8. s % AmountSpan <= s
    BY <1>5
  <1>9. s % AmountSpan \in Nat
    BY <1>5
  <1>10. QED
    BY <1>5, <1>6, <1>7, <1>8, <1>9

\* A block of a payable transaction is accepted.
LEMMA BlockSound ==
  ASSUME RestFits, SigningInv, FeesInv, tx \in Txs, Payable,
         hashed.tx = tx, changeAddress \in {None, changePath},
         hashed.outputs # 0 => ChangeSeen(parser, tx),
         NEW last \in BOOLEAN, NEW n \in 1..BufferUnits + 1, n <= BlockUnits,
         FinalizeFirst(last, n), disorder' = {}
  PROVE  /\ transactionState' = "PRESIGN_READY"
         /\ screen'.name \notin FinalNames => ChangeSeen(parser', tx)
  <1> DEFINE units == hashed.outputs + n
             b == Buffered(n)
             r == ParseOutputs(b, tx, units)
  <1> HIDE DEF b
  <1>1. /\ screen = NoScreen /\ up /\ transactionState = "PRESIGN_READY" /\ firstSigned /\ disorder = {}
        /\ units \in Nat /\ units >= CountUnits /\ units <= StreamUnits(tx)
        /\ b \in Parsers
    BY BlockFacts DEF b
  <1>2. Displayable(tx)
    BY PayableShown
  <1>3. SoundResult(r, tx) /\ TotalOf(r, tx) /\ LoopResult(r, tx, units, confirmed)
    <2>1. CASE hashed.outputs = 0
      <3>1. b.totalOutputAmount = 0
        BY <2>1, <1>1, BlockFacts DEF FeesInv, OutputsSummed, b
      <3>2. /\ b.outputParsingState = "NUMBER_OUTPUTS" /\ ~b.changeOutputFound
            /\ b.currentOutputOffset = units /\ confirmed = {}
        BY <2>1, BlockFacts DEF b
      <3>3. LoopResult(r, tx, units, {})
        BY <3>2, <1>1, LoopFresh
      <3>4. SoundResult(r, tx)
        BY <3>2, <1>1, <1>2, FreshSound
      <3>5. TotalOf(r, tx)
        BY <3>1, <3>2, <1>1, FreshTotal
      <3>6. QED
        BY <3>2, <3>3, <3>4, <3>5
    <2>2. CASE hashed.outputs # 0
      <3>1. parser.totalOutputAmount = OutputTotal(tx, Seen(parser) + 0)
        BY <2>2, <1>1 DEF FeesInv, OutputsSummed, Counted, FinalNames, NoScreen
      <3>2. Seen(parser) \in Int
        BY ParserFields DEF SigningInv, TypeInv, TypeOK, Seen
      <3>3. b.totalOutputAmount = OutputTotal(tx, Seen(b))
        BY <2>2, <3>1, <3>2, BlockFacts DEF b
      <3>4. b.changeOutputFound = parser.changeOutputFound
        BY DEF b, Buffered, Parser
      <3>5. Seen(b) = Seen(parser)
        BY <2>2, BlockFacts DEF b
      <3>6. ChangeSeen(b, tx)
        BY <2>2, <3>4, <3>5 DEF ChangeSeen
      <3>7. Synced(b, tx, units) /\ Covered(b, tx, confirmed)
        BY <2>2, BlockFacts DEF b
      <3>8. LoopResult(r, tx, units, confirmed)
        BY <3>7, <1>1, LoopSynced
      <3>9. SoundResult(r, tx)
        BY <3>6, <3>7, <1>1, <1>2, LoopSound
      <3>10. TotalOf(r, tx)
        BY <3>3, <3>7, <1>1, LoopTotal
      <3>11. QED
        BY <3>8, <3>9, <3>10
    <2>3. QED
      BY <2>1, <2>2
  <1> HIDE DEF r
  <1>4. ~(parser.currentOutputOffset + n > BufferUnits)
    <2>1. /\ BlockUnits \in Nat /\ BufferUnits \in Nat /\ n \in Nat
          /\ parser.currentOutputOffset \in Int
      BY BlockAssumption, SignTxAssumption, ParserFields
      DEF SignTxAssumption, SigningInv, TypeInv, TypeOK
    <2>2. parser.currentOutputOffset <= 1
      <3>1. CASE hashed.outputs = 0
        BY <3>1, <1>1 DEF SigningInv, ReviewInv, FreshParser
      <3>2. CASE hashed.outputs # 0
        <4>1. Waiting(parser)
          BY <3>2, <1>1 DEF SigningInv, ReviewInv, FinalNames, NoScreen
        <4>2. QED
          BY <4>1, <2>1 DEF Waiting
      <3>3. QED
        BY <3>1, <3>2
    <2>3. QED
      BY <2>1, <2>2 DEF RestFits
  <1>5. \/ ReviewFull(last, n, tx)
        \/ ReviewSingle(last, n, [tx |-> tx, units |-> units])
    BY <1>4, BlockCases
  <1>6. CASE /\ screen' = FullOutputScreen(tx)
             /\ UNCHANGED transactionState
    BY <1>6, <1>1 DEF FullOutputScreen, FinalNames
  <1>7. CASE /\ r.outcome \in {"display", "wait"}
             /\ parser' = r.parser
             /\ UNCHANGED transactionState
    BY <1>7, <1>1, <1>3 DEF SoundResult
  <1>8. CASE /\ r.outcome = "wait" /\ r.parser.remainingOutputs = 0
             /\ FinalizeOrFail(r.parser)
    <2>1. /\ r.parser \in Parsers /\ Synced(r.parser, tx, units)
          /\ r.parser.totalOutputAmount = OutputTotal(tx, Seen(r.parser))
      BY <1>8, <1>3 DEF LoopResult, TurnResult, TotalOf
    <2>2. Seen(r.parser) = Len(tx.outputs)
      BY <1>8, <2>1, <1>1, SyncedUnits
    <2>3. TypeOK /\ hashed.inputs = Len(tx.inputs)
      BY <1>1 DEF SigningInv, TypeInv, InputsHashed
    <2>4. FeesConsistent(r.parser.totalOutputAmount)
      BY <2>1, <2>2, <2>3, <1>1, PayableCovered
    <2>5. /\ screen' = FinalizeScreen(r.parser.totalOutputAmount)
          /\ UNCHANGED transactionState
      BY <1>8, <2>4 DEF FinalizeOrFail
    <2>6. screen'.name = "finalize"
      BY <2>5 DEF FinalizeScreen
    <2>7. QED
      BY <2>5, <2>6, <1>1 DEF FinalNames
  <1>9. r.outcome # "throw"
    BY <1>3 DEF SoundResult
  <1>10. QED
    BY <1>5, <1>6, <1>7, <1>8, <1>9 DEF ReviewFull, ReviewSingle, Misread, r, b

\* What follows an accepted output is accepted too.
LEMMA AcceptSound ==
  ASSUME SigningInv, FeesInv, tx \in Txs, Payable,
         hashed.tx = tx, changeAddress \in {None, changePath},
         ChangeSeen(parser, tx), AcceptOutput, disorder = {}
  PROVE  /\ transactionState' = "PRESIGN_READY" /\ up'
         /\ screen'.name \notin FinalNames => ChangeSeen(parser', tx)
  <1> DEFINE units == hashed.outputs
             q == AcceptedParser(parser, OutputUnits)
             shown == confirmed \cup {screen.output}
             r == IF parser.remainingOutputs - 1 = 0
                    THEN [outcome |-> "wait", parser |-> AcceptedParser(parser, 0)]
                    ELSE ParseOutputs(q, tx, units)
  <1>a. AfterAccept(r, units)
    BY AcceptParsed
  <1> HIDE DEF q, shown
  <1>1. /\ screen # NoScreen /\ screen.name = "single_output" /\ up
        /\ transactionState = "PRESIGN_READY" /\ firstSigned
        /\ units \in Nat /\ units # 0 /\ units <= StreamUnits(tx)
        /\ hashed.inputs = Len(tx.inputs)
    BY AcceptFacts
  <1>2. /\ q \in Parsers /\ q.remainingOutputs = parser.remainingOutputs - 1
        /\ q.totalOutputAmount = parser.totalOutputAmount
        /\ Seen(q) = Seen(parser) + 1 /\ Seen(parser) \in Nat
        /\ Synced(q, tx, units) /\ Covered(q, tx, shown)
        /\ AcceptedParser(parser, 0).remainingOutputs = q.remainingOutputs
        /\ AcceptedParser(parser, 0).totalOutputAmount = q.totalOutputAmount
    BY AcceptFacts DEF q, shown
  <1>3. q.totalOutputAmount = OutputTotal(tx, Seen(q))
    BY <1>1, <1>2 DEF FeesInv, OutputsSummed, Counted, FinalNames
  <1>4. ChangeSeen(q, tx)
    <2>1. q.changeOutputFound = parser.changeOutputFound
      BY DEF q, AcceptedParser, Parser
    <2>2. 1..Seen(parser) \subseteq 1..Seen(q)
      BY <1>2
    <2>3. QED
      BY <2>1, <2>2 DEF ChangeSeen
  <1>5. Displayable(tx) /\ TypeOK
    BY PayableShown DEF SigningInv, TypeInv
  <1>6. CASE q.remainingOutputs = 0
    <2>1. r = [outcome |-> "wait", parser |-> AcceptedParser(parser, 0)]
      BY <1>2, <1>6
    <2>2. Seen(q) = Len(tx.outputs)
      BY <1>1, <1>2, <1>6, SyncedUnits
    <2>3. r.outcome = "wait" /\ r.parser.remainingOutputs = 0
      BY <2>1, <1>2, <1>6
    <2>4. r.parser.totalOutputAmount = OutputTotal(tx, Len(tx.outputs))
      BY <2>1, <2>2, <1>2, <1>3
    <2>5. FeesConsistent(r.parser.totalOutputAmount)
      BY <2>4, <1>1, <1>5, PayableCovered
    <2> HIDE DEF r
    <2>6. screen' = FinalizeScreen(r.parser.totalOutputAmount) /\ UNCHANGED <<transactionState, up>>
      BY <1>a, <2>3, <2>5 DEF AfterAccept
    <2>7. screen'.name = "finalize"
      BY <2>6 DEF FinalizeScreen
    <2>8. QED
      BY <2>6, <2>7, <1>1 DEF FinalNames
  <1>7. CASE q.remainingOutputs # 0
    <2>1. SoundResult(r, tx) /\ TotalOf(r, tx) /\ LoopResult(r, tx, units, shown)
      BY <1>1, <1>2, <1>3, <1>4, <1>5, <1>7, LoopSound, LoopTotal, LoopSynced
    <2>2. r.outcome # "throw" /\ ChangeSeen(r.parser, tx)
      BY <2>1 DEF SoundResult
    <2>3. r.outcome = "wait" /\ r.parser.remainingOutputs = 0 =>
            FeesConsistent(r.parser.totalOutputAmount)
      <3> HIDE DEF r
      <3>1. SUFFICES ASSUME r.outcome = "wait", r.parser.remainingOutputs = 0
                     PROVE  FeesConsistent(r.parser.totalOutputAmount)
        OBVIOUS
      <3>2. /\ r.parser \in Parsers /\ Synced(r.parser, tx, units)
            /\ r.parser.totalOutputAmount = OutputTotal(tx, Seen(r.parser))
        BY <2>1, <3>1 DEF LoopResult, TurnResult, TotalOf
      <3>3. Seen(r.parser) = Len(tx.outputs)
        BY <3>1, <3>2, <1>1, SyncedUnits
      <3>4. QED
        BY <3>2, <3>3, <1>1, <1>5, PayableCovered
    <2> HIDE DEF r
    <2>4. CASE /\ r.outcome \in {"display", "wait"}
               /\ parser' = r.parser
               /\ UNCHANGED <<transactionState, up>>
      BY <2>2, <2>4, <1>1
    <2>5. CASE /\ screen' = FinalizeScreen(r.parser.totalOutputAmount)
               /\ UNCHANGED <<transactionState, up>>
      <3>1. screen'.name = "finalize"
        BY <2>5 DEF FinalizeScreen
      <3>2. QED
        BY <2>5, <3>1, <1>1 DEF FinalNames
    <2>6. QED
      BY <1>a, <2>2, <2>3, <2>4, <2>5 DEF AfterAccept
  <1>8. QED
    BY <1>6, <1>7

\* What holds of a call of a payable transaction while nobody interferes: each
\* phase of the call finds the device in the state its command needs.
SessionReady ==
  /\ up /\ pc # "rejected"
  /\ reviews = 1 => authorizationHash = WholeTx(tx)

InputsReady ==
  pc = "inputs" =>
    /\ parseMode = "SIGNATURE" /\ transactionState = "PARSING"
    /\ offset = 0 /\ hashed.inputs = sentInputs
    /\ transactionAmount <= SumUpto(InAmounts(tx), sentInputs)

PathReady ==
  /\ pc = "change" =>
       transactionState = "PRESIGN_READY" /\ offset = 0 /\ hashed.outputs = 0
  /\ pc \in {"inputs", "change"} /\ firstSigned => changeAddress = None /\ changeAccepted

OutputsReady ==
  /\ pc \in {"outputs", "pending"} =>
       /\ transactionState = "PRESIGN_READY" /\ hashed.outputs = offset
       /\ firstSigned =>
            /\ changeAddress = changePath
            /\ offset # 0 /\ screen.name \notin FinalNames => ChangeSeen(parser, tx)
  /\ pc = "pending" => screen # NoScreen
  /\ pc = "sign" => transactionState = "SIGN_READY"

CallReady == SessionReady /\ InputsReady /\ PathReady /\ OutputsReady

ReasonInv ==
  /\ trouble \in BOOLEAN
  /\ ~trouble /\ Payable => CallReady

\* What it knows of the outputs, at the next state.
LEMMA ChangeSeenNext ==
  ASSUME tx' = tx, changeAddress' = changeAddress, changeAccepted' = changeAccepted,
         ChangeSeen(parser', tx)
  PROVE  ChangeSeen(parser, tx)'
  BY DEF ChangeSeen, IsChange, OutputAt, Garbage, Seen

\* The first command of a round.
LEMMA ReadySendStart ==
  ASSUME CallInv, CallReady, SendStart, ~trouble'
  PROVE  CallReady'
  <1>1. /\ StartFirst(OpensSession, tx)
        /\ pc' = IF tx.inputs = <<>> THEN "change" ELSE "inputs"
    BY DEF SendStart
  <1>2. /\ sentInputs' = 0 /\ offset' = 0 /\ tx' = tx /\ reviews' = reviews
    BY DEF SendStart, call
  <1>3. /\ up' = up /\ authorizationHash' = authorizationHash /\ transactionAmount' = 0
        /\ parseMode' = "SIGNATURE"
        /\ hashed' = [tx |-> tx, inputs |-> 0, outputs |-> 0]
        /\ transactionState' = IF tx.inputs = <<>> THEN "PRESIGN_READY" ELSE "PARSING"
    BY <1>1 DEF StartFirst, BeginTransaction, StartPrelude
  <1>4. firstSigned' => changeAddress' = None /\ changeAccepted'
    <2>1. CASE signatures = <<>>
      BY <2>1, <1>1 DEF StartFirst, MasterReset, OpensSession, firstRun
    <2>2. CASE signatures # <<>>
      <3>1. ~firstSigned
        BY <2>2 DEF CallInv, HostInv
      <3>2. firstSigned' = firstSigned
        BY <2>2, <1>1 DEF StartFirst, KeepSession, OpensSession, firstRun
      <3>3. QED
        BY <3>1, <3>2
    <2>3. QED
      BY <2>1, <2>2
  <1>5. SessionReady'
    <2>1. reviews = 1 => authorizationHash = WholeTx(tx)
      BY DEF CallReady, SessionReady
    <2>2. WholeTx(tx)' = WholeTx(tx)
      BY <1>2 DEF WholeTx, StreamUnits
    <2>3. QED
      BY <2>1, <2>2, <1>1, <1>2, <1>3 DEF CallReady, SessionReady
  <1>6. InputsReady'
    <2>1. SumUpto(InAmounts(tx), 0) = 0
      BY InputTotals DEF CallInv, HostInv
    <2>2. hashed'.inputs = sentInputs'
      BY <1>2, <1>3
    <2>3. transactionAmount' <= SumUpto(InAmounts(tx'), sentInputs')
      BY <2>1, <1>2, <1>3
    <2>4. pc' = "inputs" => transactionState' = "PARSING"
      BY <1>1, <1>3
    <2>5. QED
      BY <2>2, <2>3, <2>4, <1>2, <1>3 DEF InputsReady, InAmounts, SumUpto
  <1>7. PathReady'
    <2>1. hashed'.outputs = 0
      BY <1>3
    <2>2. pc' = "change" => transactionState' = "PRESIGN_READY"
      BY <1>1, <1>3
    <2>3. QED
      BY <2>1, <2>2, <1>2, <1>4 DEF PathReady
  <1>8. OutputsReady'
    BY <1>1 DEF OutputsReady
  <1>9. QED
    BY <1>5, <1>6, <1>7, <1>8 DEF CallReady

\* An input: the sum does not overflow, and the last one ends the parse.
LEMMA ReadySendInput ==
  ASSUME CallInv, CallReady, Payable, SendInput
  PROVE  CallReady'
  <1> DEFINE k == sentInputs + 1
             in == tx.inputs[k]
  <1>1. /\ pc = "inputs" /\ parseMode = "SIGNATURE" /\ transactionState = "PARSING"
        /\ offset = 0 /\ hashed.inputs = sentInputs
        /\ transactionAmount <= SumUpto(InAmounts(tx), sentInputs)
        /\ firstSigned => changeAddress = None /\ changeAccepted
    BY DEF SendInput, CallReady, InputsReady, PathReady
  <1>2. /\ hashed \in Contents /\ hashed.tx = tx /\ hashed.inputs < Len(tx.inputs)
        /\ hashed.outputs = 0
        /\ tx \in Txs /\ transactionAmount \in Nat
    <2>1. InCall
      BY <1>1 DEF InCall
    <2>2. hashed \in Contents /\ hashed.tx = tx
      BY <1>1, <2>1, HashedInCall
    <2>3. hashed.inputs < Len(hashed.tx.inputs) /\ hashed.outputs = 0
      BY <1>1 DEF CallInv, SigningInv, TypeInv, InputsPending
    <2>4. QED
      BY <2>2, <2>3 DEF CallInv, HostInv, SigningInv, TypeInv, TypeOK
  <1>3. k \in 1..Len(tx.inputs) /\ k - 1 = sentInputs /\ k = hashed.inputs + 1
    BY <1>1, <1>2, TxTypes DEF Contents
  <1>4. /\ transactionAmount + in.amount < AmountSpan
        /\ transactionAmount + in.amount <= SumUpto(InAmounts(tx), k)
        /\ transactionAmount <= SumUpto(InAmounts(tx), k)
        /\ in.amount \in Nat /\ AmountSpan \in Nat
    BY <1>1, <1>2, <1>3, PayableInputsFit, TxTypes
  <1>5. StartNext
    BY <1>1 DEF SendInput
  <1>6. ~(transactionAmount + in.amount >= AmountSpan)
    BY <1>2, <1>4
  <1>7. /\ transactionState' = IF k = Len(tx.inputs) THEN "PRESIGN_READY" ELSE "PARSING"
        /\ hashed' = [hashed EXCEPT !.inputs = k]
        /\ transactionAmount' = IF in.trusted THEN transactionAmount + in.amount
                                              ELSE transactionAmount
    BY <1>2, <1>3, <1>5, <1>6 DEF StartNext
  <1>8. UNCHANGED <<up, authorizationHash, parseMode, firstSigned, changeAddress, changeAccepted>>
    BY <1>5 DEF StartNext, change
  <1>9. /\ tx' = tx /\ reviews' = reviews /\ offset' = 0 /\ sentInputs' = k
        /\ pc' = IF k = Len(tx.inputs) THEN "change" ELSE "inputs"
    BY <1>1, <1>7 DEF SendInput, call
  <1>10. hashed'.inputs = k /\ hashed'.outputs = 0
    BY <1>2, <1>7 DEF Contents
  <1>11. SessionReady'
    <2>1. WholeTx(tx)' = WholeTx(tx)
      BY <1>9 DEF WholeTx, StreamUnits
    <2>2. QED
      BY <2>1, <1>8, <1>9 DEF CallReady, SessionReady
  <1>12. InputsReady'
    <2>1. transactionAmount' <= SumUpto(InAmounts(tx'), sentInputs')
      BY <1>4, <1>7, <1>9
    <2>2. pc' = "inputs" => transactionState' = "PARSING"
      BY <1>7, <1>9
    <2>3. QED
      BY <2>1, <2>2, <1>1, <1>8, <1>9, <1>10 DEF InputsReady, InAmounts, SumUpto
  <1>13. PathReady'
    BY <1>1, <1>7, <1>8, <1>9, <1>10 DEF PathReady
  <1>14. OutputsReady'
    BY <1>9 DEF OutputsReady
  <1>15. QED
    BY <1>11, <1>12, <1>13, <1>14 DEF CallReady

\* The change path of the call, which the device takes before the outputs of a
\* review and ignores after it.
LEMMA ReadySendChangePath ==
  ASSUME CallInv, CallInv', CallReady, SendChangePath
  PROVE  CallReady'
  <1>1. /\ pc = "change" /\ transactionState = "PRESIGN_READY" /\ offset = 0
        /\ hashed.outputs = 0
        /\ firstSigned => changeAddress = None /\ changeAccepted
    BY DEF SendChangePath, CallReady, PathReady
  <1>2. InCall
    BY <1>1 DEF InCall
  <1>3. /\ tx' = tx /\ changePath' = changePath /\ reviews' = reviews /\ offset' = 0
        /\ pc' = IF transactionState' = "NONE" THEN "rejected"
                 ELSE IF screen' # NoScreen THEN "pending" ELSE "outputs"
    BY <1>1 DEF SendChangePath, call, Failure
  <1>4. /\ hashed' = hashed /\ transactionState' = transactionState /\ up' = up
        /\ firstSigned' = firstSigned
        /\ firstSigned' => changeAddress' = changePath
        /\ reviews = 1 => authorizationHash' = authorizationHash
    <2>1. CASE NoCommand
      BY <2>1, <1>1 DEF NoCommand, vars, flags, change
    <2>2. CASE ChangePathIgnored
      BY <2>2 DEF ChangePathIgnored, vars, flags
    <2>3. CASE SetChangePath(changePath)
      <3>1. reviews # 1
        BY <2>3 DEF SetChangePath, CallInv, HostInv
      <3>2. QED
        BY <2>3, <3>1 DEF SetChangePath, flags
    <2>4. QED
      BY <2>1, <2>2, <2>3, <1>1 DEF SendChangePath, FinalizeOutOfState
  <1>5. pc' \in {"pending", "outputs"} /\ (pc' = "pending" => screen' # NoScreen)
    BY <1>1, <1>3, <1>4
  <1>6. SessionReady'
    <2>1. WholeTx(tx)' = WholeTx(tx)
      BY <1>3 DEF WholeTx, StreamUnits
    <2>2. QED
      BY <2>1, <1>3, <1>4, <1>5 DEF CallReady, SessionReady
  <1>7. InputsReady' /\ PathReady'
    BY <1>5 DEF InputsReady, PathReady
  <1>8. OutputsReady'
    BY <1>1, <1>3, <1>4, <1>5 DEF OutputsReady
  <1>9. QED
    BY <1>6, <1>7, <1>8 DEF CallReady

\* While it waits for data, some of the outputs are still to come.
LEMMA WaitingIsShort ==
  ASSUME NEW t \in Txs, NEW units \in Nat, NEW p \in Parsers,
         Synced(p, t, units), Waiting(p)
  PROVE  units # StreamUnits(t)
  <1>1. /\ p.currentOutputOffset \in Int /\ p.remainingOutputs \in Int
        /\ Len(t.outputs) \in Nat /\ CountUnits \in Nat
    BY ParserFields, TxTypes
  <1>2. StreamUnits(t) = CountUnits + 2 * Len(t.outputs)
    BY <1>1 DEF StreamUnits, OutputUnits
  <1>3. /\ units - p.currentOutputOffset = CountUnits + 2 * (Len(t.outputs) - p.remainingOutputs)
        /\ p.currentOutputOffset < 2 /\ p.remainingOutputs > 0
    BY DEF Synced, Seen, Waiting
  <1>4. ASSUME NEW len \in Nat, NEW rest \in Int, NEW off \in Int, NEW c \in Nat,
               units - off = c + 2 * (len - rest), off < 2, rest > 0
        PROVE  units # c + 2 * len
    BY <1>4
  <1>5. QED
    BY <1>1, <1>2, <1>3, <1>4

\* A block of outputs, reviewed or compared with what was reviewed.
LEMMA ReadySendOutputs ==
  ASSUME RestFits, CallInv, CallInv', FeesInv, CallReady, Payable, SendOutputs
  PROVE  CallReady'
  <1> DEFINE n == BlockSize(StreamUnits(tx) - offset)
             last == offset + n = StreamUnits(tx)
  <1>1. /\ pc = "outputs" /\ transactionState = "PRESIGN_READY" /\ hashed.outputs = offset
        /\ firstSigned =>
             /\ changeAddress = changePath
             /\ offset # 0 /\ screen.name \notin FinalNames => ChangeSeen(parser, tx)
    BY DEF SendOutputs, CallReady, OutputsReady
  <1>2. /\ n \in 1..BufferUnits + 1 /\ n \in Nat /\ n >= 1 /\ last \in BOOLEAN
        /\ offset + n \in Nat
        /\ offset \in Nat
    BY <1>1, BlockSizes DEF CallInv, HostInv
  <1>3. n <= BlockUnits
    <2>1. StreamUnits(tx) - offset \in Int /\ BlockUnits \in Int
      BY <1>2, TxTypes, BlockAssumption DEF CallInv, HostInv
    <2>2. \E x \in {BlockUnits, StreamUnits(tx) - offset} :
            \A y \in {BlockUnits, StreamUnits(tx) - offset} : x <= y
      <3>1. CASE BlockUnits <= StreamUnits(tx) - offset
        BY <2>1, <3>1
      <3>2. CASE ~(BlockUnits <= StreamUnits(tx) - offset)
        BY <2>1, <3>2
      <3>3. QED
        BY <3>1, <3>2
    <2>3. QED
      BY <2>2 DEF BlockSize, Min
  <1> HIDE DEF n
  <1>4. InCall /\ tx \in Txs
    BY <1>1 DEF InCall, CallInv, HostInv
  <1>5. hashed \in Contents /\ hashed.tx = tx /\ hashed.inputs = Len(tx.inputs)
    BY <1>1, <1>4, HashedInCall DEF CallInv, SigningInv, TypeInv, InputsHashed
  <1>6. /\ tx' = tx /\ changePath' = changePath /\ reviews' = reviews /\ offset' = offset + n
        /\ pc' = IF transactionState' = "NONE" THEN "rejected"
                 ELSE IF screen' # NoScreen THEN "pending"
                 ELSE IF offset + n = StreamUnits(tx) THEN "sign" ELSE "outputs"
        /\ FinalizeFirst(last, n) \/ FinalizeNext(last, n)
    BY <1>1 DEF SendOutputs, call, Failure, FinalizeOutOfState, n
  <1>b. FinalizeFirst(last, n) => disorder' = {}
    BY <1>1, <1>6, BlockInOrder DEF CallInv, n
  <1> HIDE DEF last
  <1>7. Absorb(n) = [tx |-> tx, inputs |-> Len(tx.inputs), outputs |-> offset + n]
    BY <1>1, <1>5 DEF Absorb, Contents
  <1>8. WholeTx(tx)' = WholeTx(tx)
    BY <1>6 DEF WholeTx, StreamUnits
  <1>9. CASE FinalizeFirst(last, n)
    <2>1. /\ firstSigned /\ firstSigned' = firstSigned /\ up' = up /\ screen = NoScreen
          /\ changeAddress' = changeAddress /\ changeAccepted' = changeAccepted
          /\ hashed' = Absorb(n) /\ disorder' = {}
      BY <1>b, <1>9 DEF FinalizeFirst, Listening, flags
    <2>2. hashed.outputs # 0 => ChangeSeen(parser, tx)
      BY <1>1, <2>1 DEF NoScreen, FinalNames
    <2>3. /\ transactionState' = "PRESIGN_READY"
          /\ screen'.name \notin FinalNames => ChangeSeen(parser', tx)
      BY <1>1, <1>2, <1>3, <1>4, <1>5, <1>9, <2>1, <2>2, BlockSound DEF CallInv
    <2>4. hashed'.outputs = offset' /\ hashed'.tx = tx' /\ hashed'.outputs # 0
      BY <1>2, <1>6, <1>7, <2>1
    <2>5. up' /\ reviews # 1
      BY <2>1 DEF CallReady, SessionReady, CallInv, HostInv
    <2>6. screen' = NoScreen => offset + n # StreamUnits(tx)
      <3>1. SUFFICES ASSUME screen' = NoScreen PROVE offset + n # StreamUnits(tx)
        OBVIOUS
      <3>2. parser' \in Parsers /\ Synced(parser', tx', hashed'.outputs) /\ Waiting(parser')
        BY <3>1, <2>1, <2>3, <2>4, <2>5
        DEF CallInv, SigningInv, ReviewInv, TypeInv, TypeOK, FinalNames, NoScreen,
            Synced, Waiting, Seen
      <3>3. hashed'.outputs = offset + n
        BY <1>6, <2>4
      <3>4. QED
        BY <3>2, <3>3, <1>2, <1>4, <1>6, WaitingIsShort
    <2>7. pc' \in {"pending", "outputs"} /\ (pc' = "pending" => screen' # NoScreen)
      BY <1>6, <2>3, <2>6
    <2>8. SessionReady'
      BY <1>6, <2>5, <2>7 DEF SessionReady
    <2>9. InputsReady' /\ PathReady'
      BY <2>7 DEF InputsReady, PathReady
    <2>10. screen'.name \notin FinalNames => ChangeSeen(parser, tx)'
      BY <1>6, <2>1, <2>3, ChangeSeenNext
    <2>11. OutputsReady'
      BY <1>1, <1>6, <2>1, <2>3, <2>4, <2>7, <2>10 DEF OutputsReady
    <2>12. QED
      BY <2>8, <2>9, <2>11 DEF CallReady
  <1>10. CASE FinalizeNext(last, n)
    <2>1. /\ ~firstSigned /\ firstSigned' = firstSigned /\ up' = up /\ screen = NoScreen
          /\ screen' = NoScreen /\ authorizationHash' = authorizationHash
          /\ hashed' = Absorb(n)
      BY <1>10 DEF FinalizeNext, Listening, flags, history, pass
    <2>2. reviews = 1 /\ authorizationHash = WholeTx(tx)
      BY <1>1, <1>4, <2>1 DEF CallInv, HostInv, CallReady, SessionReady
    <2>3. last => Absorb(n) = WholeTx(tx)
      BY <1>7 DEF WholeTx, last
    <2>4. /\ last => transactionState' = "SIGN_READY"
          /\ ~last => transactionState' = "PRESIGN_READY"
      BY <1>1, <1>10, <2>2, <2>3 DEF FinalizeNext, MatchesReview
    <2>5. pc' = IF last THEN "sign" ELSE "outputs"
      BY <1>6, <2>1, <2>4 DEF last
    <2>6. SessionReady'
      BY <1>6, <1>8, <2>1, <2>2, <2>5 DEF CallReady, SessionReady
    <2>7. InputsReady' /\ PathReady'
      BY <2>5 DEF InputsReady, PathReady
    <2>8. hashed'.outputs = offset'
      BY <1>6, <1>7, <2>1
    <2>9. OutputsReady'
      BY <2>1, <2>4, <2>5, <2>8 DEF OutputsReady
    <2>10. QED
      BY <2>6, <2>7, <2>9 DEF CallReady
  <1>11. QED
    BY <1>6, <1>9, <1>10

\* The signature, which nothing can refuse now.
LEMMA ReadySendSign ==
  ASSUME CallReady, SendSign
  PROVE  CallReady'
  <1>1. pc = "sign" /\ transactionState = "SIGN_READY"
    BY DEF SendSign, CallReady, OutputsReady
  <1>2. /\ Sign /\ pc' \in {"resolved", "start"}
        /\ tx' = tx /\ reviews' = reviews
    BY <1>1 DEF SendSign, call
  <1>3. up' = up /\ authorizationHash' = authorizationHash
    BY <1>2 DEF Sign
  <1>4. WholeTx(tx)' = WholeTx(tx)
    BY <1>2 DEF WholeTx, StreamUnits
  <1>5. QED
    BY <1>2, <1>3, <1>4
    DEF CallReady, SessionReady, InputsReady, PathReady, OutputsReady

\* The user's answers, short of a refusal.
LEMMA ReadyAnswer ==
  ASSUME CallInv, CallInv', FeesInv, CallReady, Payable, Answer,
         ~RejectChangePath, ~RejectTransaction
  PROVE  CallReady'
  <1>1. screen # NoScreen
    BY DEF Answer, UserAnswers, AcceptChangePath, RejectChangePath, AcceptOutput,
           AcceptTransaction, RejectTransaction, ScreenIs, NoScreen
  <1>2. pc = "pending" /\ InCall /\ tx \in Txs /\ transactionState = "PRESIGN_READY" /\ firstSigned
    BY <1>1 DEF CallInv, HostInv, SigningInv, TypeInv, ScreenInReview, InCall
  <1>3. /\ hashed \in Contents /\ hashed.tx = tx /\ hashed.inputs = Len(tx.inputs)
    BY <1>2, HashedInCall DEF CallInv, SigningInv, TypeInv, InputsHashed
  <1>4. /\ hashed.outputs = offset /\ changeAddress = changePath /\ up
        /\ offset # 0 /\ screen.name \notin FinalNames => ChangeSeen(parser, tx)
    BY <1>2 DEF CallReady, OutputsReady, SessionReady
  <1>a. disorder = {} /\ (offset = StreamUnits(tx) => marked)
    BY <1>2 DEF CallInv, HostInv, OrderInv
  <1>5. /\ tx' = tx /\ changePath' = changePath /\ offset' = offset
        /\ reviews' = IF firstSigned' # firstSigned THEN reviews + 1 ELSE reviews
        /\ pc' = IF screen' # NoScreen THEN "pending"
                 ELSE IF transactionState' = "NONE" \/ ~up' THEN "rejected"
                 ELSE IF offset = StreamUnits(tx) THEN "sign" ELSE "outputs"
    BY DEF Answer, call, Failure
  <1>6. WholeTx(tx)' = WholeTx(tx)
    BY <1>5 DEF WholeTx, StreamUnits
  <1>7. reviews # 1
    BY <1>2 DEF CallInv, HostInv
  <1>8. CASE AcceptChangePath
    <2>1. /\ hashed' = hashed /\ transactionState' = transactionState /\ up' = up
          /\ firstSigned' = firstSigned /\ changeAddress' = changeAddress
          /\ screen' = NoScreen
      BY <1>8 DEF AcceptChangePath, flags
    <2>2. offset = 0
      <3>1. screen.name = "change_path"
        BY <1>8 DEF AcceptChangePath, ScreenIs
      <3>2. QED
        BY <1>1, <1>2, <1>4, <1>a, <3>1 DEF CallInv, SigningInv, ReviewInv, FinalNames
    <2>3. pc' = "outputs"
      <3>1. StreamUnits(tx) # 0
        BY <1>2, TxTypes DEF StreamUnits, OutputUnits
      <3>2. QED
        BY <3>1, <2>1, <2>2, <1>2, <1>4, <1>5
    <2>4. SessionReady'
      BY <2>1, <2>3, <1>4, <1>5, <1>7 DEF SessionReady
    <2>5. InputsReady' /\ PathReady'
      BY <2>3 DEF InputsReady, PathReady
    <2>6. OutputsReady'
      BY <2>1, <2>2, <2>3, <1>2, <1>4, <1>5 DEF OutputsReady
    <2>7. QED
      BY <2>4, <2>5, <2>6 DEF CallReady
  <1>9. CASE AcceptOutput
    <2>1. /\ hashed' = hashed /\ firstSigned' = firstSigned
          /\ changeAddress' = changeAddress /\ changeAccepted' = changeAccepted
          /\ hashed.outputs # 0 /\ screen.name = "single_output" /\ disorder' = {}
      BY <1>9, <1>a, AcceptFacts DEF CallInv
    <2>2. ChangeSeen(parser, tx)
      BY <2>1, <1>4 DEF FinalNames
    <2>3. /\ transactionState' = "PRESIGN_READY" /\ up'
          /\ screen'.name \notin FinalNames => ChangeSeen(parser', tx)
      BY <2>2, <1>2, <1>3, <1>4, <1>9, <1>a, AcceptSound DEF CallInv
    <2>4. screen' = NoScreen => offset # StreamUnits(tx)
      <3>1. SUFFICES ASSUME screen' = NoScreen PROVE offset # StreamUnits(tx)
        OBVIOUS
      <3>2. parser' \in Parsers /\ Synced(parser', tx, hashed'.outputs) /\ Waiting(parser')
        BY <3>1, <1>2, <1>3, <2>1, <2>3
        DEF CallInv, SigningInv, ReviewInv, TypeInv, TypeOK, FinalNames, NoScreen,
            Synced, Waiting, Seen
      <3>3. hashed'.outputs = offset /\ offset \in Nat
        BY <1>4, <2>1 DEF CallInv, HostInv
      <3>4. QED
        BY <3>2, <3>3, <1>2, WaitingIsShort
    <2>5. pc' \in {"pending", "outputs"} /\ (pc' = "pending" => screen' # NoScreen)
      BY <1>5, <2>3, <2>4
    <2>6. SessionReady'
      BY <1>5, <1>7, <2>1, <2>3, <2>5 DEF SessionReady
    <2>7. InputsReady' /\ PathReady'
      BY <2>5 DEF InputsReady, PathReady
    <2>8. screen'.name \notin FinalNames => ChangeSeen(parser, tx)'
      BY <1>5, <2>1, <2>3, ChangeSeenNext
    <2>9. OutputsReady'
      BY <1>4, <1>5, <2>1, <2>3, <2>5, <2>8 DEF OutputsReady
    <2>10. QED
      BY <2>6, <2>7, <2>9 DEF CallReady
  <1>10. CASE AcceptTransaction
    <2>1. /\ screen.name \in FinalNames /\ hashed' = hashed /\ screen' = NoScreen /\ up' = up
          /\ authorizationHash' = authorizationHash /\ transactionState' = "SIGN_READY"
      BY <1>10 DEF AcceptTransaction, ScreenIs, FinalNames
    <2>2. hashed = WholeTx(tx) /\ authorizationHash = WholeTx(tx)
      <3>1. Reviewed(hashed, confirmed \cup {screen.output})
        BY <2>1, <1>a, FinalScreenUp DEF CallInv
      <3>2. hashed = WholeTx(tx)
        BY <3>1, <1>3 DEF Reviewed
      <3>3. hashed.outputs = StreamUnits(hashed.tx)
        BY <3>2, <1>3 DEF WholeTx
      <3>4. authorizationHash = hashed
        BY <3>3, <2>1, <1>3, <1>4, <1>a
        DEF CallInv, SigningInv, AuthorizationInv, ReviewedHashStored, FinalNames
      <3>5. QED
        BY <3>2, <3>4
    <2>3. offset = StreamUnits(tx)
      BY <2>2, <1>4 DEF WholeTx
    <2>4. pc' = "sign"
      BY <2>1, <2>3, <1>4, <1>5
    <2>5. SessionReady'
      BY <2>1, <2>2, <2>4, <1>4, <1>5, <1>6 DEF SessionReady
    <2>6. InputsReady' /\ PathReady' /\ OutputsReady'
      BY <2>1, <2>4 DEF InputsReady, PathReady, OutputsReady
    <2>7. QED
      BY <2>5, <2>6 DEF CallReady
  <1>11. QED
    BY <1>8, <1>9, <1>10 DEF Answer, UserAnswers

\* The transaction of a call does not change, nor whether it is payable.
LEMMA PayableKept ==
  ASSUME tx' = tx, changePath' = changePath, Payable'
  PROVE  Payable
  BY DEF Payable, Amount, SumFunction, Recognised

\* The next call, of another transaction perhaps, leaves the sums of the device.
LEMMA FeesNextCall ==
  ASSUME FeesInv, NextCall
  PROVE  FeesInv'
  BY SumsUnchanged DEF NextCall, flags, pass

\* Every step of a call leaves it ready for the next, or has a reason to fail it.
LEMMA ReasonNext ==
  ASSUME RestFits, CallInv, CallInv', FeesInv, ReasonInv, [HostNext]_hostVars
  PROVE  ReasonInv'
  <1>1. CASE NextCall
    <2>1. /\ pc' = "start" /\ reviews' = 0 /\ trouble' = ~up /\ up' = up /\ up \in BOOLEAN
      BY <1>1 DEF NextCall, CallInv, SigningInv, TypeInv, TypeOK
    <2>2. trouble' \in BOOLEAN /\ (~trouble' => up')
      BY <2>1
    <2>3. ~trouble' => CallReady'
      BY <2>1, <2>2 DEF CallReady, SessionReady, InputsReady, PathReady, OutputsReady
    <2>4. QED
      BY <2>2, <2>3 DEF ReasonInv
  <1>2. CASE ~NextCall
    <2>1. tx' = tx /\ changePath' = changePath
      BY <1>2 DEF HostNext, HostStep, SendStart, SendInput, SendChangePath, SendOutputs, SendSign,
                  SendFails, Answer, Reset, Relaunch, hostVars, host, call
    <2>2. trouble' \in BOOLEAN /\ (~trouble' => ~trouble)
      <3>1. CASE Answer
        <4>1. trouble' = (trouble \/ RejectChangePath \/ RejectTransaction)
          BY <3>1 DEF Answer
        <4>2. (trouble \/ RejectChangePath \/ RejectTransaction) \in BOOLEAN
          OBVIOUS
        <4>3. QED
          BY <4>1, <4>2
      <3>2. CASE Reset
        BY <3>2 DEF Reset
      <3>3. CASE SendStart
        BY <3>3 DEF SendStart, ReasonInv
      <3>4. CASE UNCHANGED trouble
        BY <3>4 DEF ReasonInv
      <3>5. QED
        BY <1>2, <3>1, <3>2, <3>3, <3>4
        DEF HostNext, HostStep, SendInput, SendChangePath, SendOutputs, SendSign, SendFails,
            Relaunch, hostVars, host
    <2>3. SUFFICES ASSUME ~trouble', Payable' PROVE CallReady'
      BY <2>2 DEF ReasonInv
    <2>4. Payable
      BY <2>1, <2>3, PayableKept
    <2>5. CallReady
      BY <2>2, <2>3, <2>4 DEF ReasonInv
    <2>6. CASE Answer
      <3>1. ~RejectChangePath /\ ~RejectTransaction
        BY <2>3, <2>6 DEF Answer
      <3>2. QED
        BY <2>4, <2>5, <2>6, <3>1, ReadyAnswer
    <2>7. CASE SendFails \/ Relaunch
      BY <2>5, <2>7 DEF SendFails, Relaunch, Launch, CallReady, SessionReady
    <2>8. CASE Reset
      BY <2>3, <2>8 DEF Reset
    <2>9. CASE UNCHANGED hostVars
      <3>1. /\ UNCHANGED <<tx, changePath, pc, sentInputs, offset, reviews>>
            /\ UNCHANGED <<transactionState, parseMode, firstSigned, transactionAmount, hashed,
                           parser, changeAddress, changeAccepted, authorizationHash, screen, up>>
        BY <2>9 DEF hostVars, host, call, vars, flags, change
      <3>2. WholeTx(tx)' = WholeTx(tx)
        BY <3>1 DEF WholeTx, StreamUnits
      <3>3. ChangeSeen(parser, tx) => ChangeSeen(parser, tx)'
        BY <3>1, ChangeSeenNext
      <3>4. SessionReady' /\ PathReady'
        BY <3>1, <3>2, <2>5 DEF CallReady, SessionReady, PathReady
      <3>5. InputsReady'
        BY <3>1, <2>5 DEF CallReady, InputsReady, InAmounts, SumUpto
      <3>6. OutputsReady'
        BY <3>1, <3>3, <2>5 DEF CallReady, OutputsReady
      <3>7. QED
        BY <3>4, <3>5, <3>6 DEF CallReady
    <2>10. QED
      BY <1>2, <2>3, <2>4, <2>5, <2>6, <2>7, <2>8, <2>9, ReadySendStart, ReadySendInput,
         ReadySendChangePath, ReadySendOutputs, ReadySendSign DEF HostNext, HostStep
  <1>3. QED
    BY <1>1, <1>2

\* A call fails for a reason: the library's blocks, wherever they cut the outputs,
\* never make the device refuse a transaction it can show; only the user, a reset
\* or a lock does (hashOutputFull_async, btchip_apdu_hash_input_finalize_full.c:322).
THEOREM CallsFailForReason ==
  ASSUME RestFits
  PROVE  HostSpec => []RejectedForReason
  <1>1. HostInit => FeesInv /\ ReasonInv
    <2>1. SUFFICES ASSUME HostInit PROVE FeesInv /\ ReasonInv
      OBVIOUS
    <2>2. FeesInv
      BY <2>1 DEF HostInit, Init, FeesInv, InputsSummed, OutputsSummed
    <2>3. pc = "start" /\ reviews = 0 /\ trouble = FALSE /\ up = TRUE
      BY <2>1 DEF HostInit, Init
    <2>4. SessionReady
      BY <2>3 DEF SessionReady
    <2>5. InputsReady /\ PathReady /\ OutputsReady
      BY <2>3 DEF InputsReady, PathReady, OutputsReady
    <2>6. ReasonInv
      <3>1. trouble \in BOOLEAN
        BY <2>3
      <3>2. QED
        BY <3>1, <2>4, <2>5 DEF ReasonInv, CallReady
    <2>7. QED
      BY <2>2, <2>6
  <1>2. CallInv /\ CallInv' /\ FeesInv /\ ReasonInv /\ [HostNext]_hostVars => FeesInv' /\ ReasonInv'
    <2>1. SUFFICES ASSUME CallInv, CallInv', FeesInv, ReasonInv, [HostNext]_hostVars
                   PROVE  FeesInv' /\ ReasonInv'
      OBVIOUS
    <2>2. FeesInv'
      BY <2>1, CallDrivesDevice, FeesNextCall, FeesStep DEF CallInv
    <2>3. QED
      BY <2>1, <2>2, ReasonNext
  <1>3. ReasonInv => RejectedForReason
    BY DEF ReasonInv, CallReady, SessionReady, RejectedForReason
  <1>4. HostSpec => HostInit /\ [][HostNext]_hostVars
    BY PTL DEF HostSpec
  <1>5. QED
    BY <1>1, <1>2, <1>3, <1>4, CallInvariance, PTL

=============================================================================
