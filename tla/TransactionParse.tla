--------------------------- MODULE TransactionParse ---------------------------
(***************************************************************************)
(* The transaction parser and the two commands that feed it:               *)
(* GET_TRUSTED_INPUT reads a whole transaction and vouches for the amount  *)
(* of one output, HASH_INPUT_START reads the inputs of the transaction to  *)
(* sign.                                                                   *)
(*                                                                         *)
(* A transaction arrives in blocks that may end anywhere.  While a command *)
(* runs, `block` is what transaction_parse has still to read of it, and    *)
(* each turn of its loop is an action (a fall-through to the next case is  *)
(* a turn as well).  The state between two blocks is all that ties them    *)
(* together.  TransactionFormat gives the bytes and the reference.         *)
(***************************************************************************)
EXTENDS TransactionFormat, FiniteSets

CONSTANTS
  Txs,                \* the transactions a host may send
  Targets,            \* the outputs it may ask a trusted input for
  AmountSpan,         \* what the bytes of an amount can hold (2^64 in the code)
  RestartsWithFirst,  \* the host starts every request for a trusted input with a FIRST block
  Cuts(_, _, _),      \* Cuts(t, mode, k): where blocks of t may end, sent as the k-th (bound)
  None                \* no transaction

OP_CHECKMULTISIG == 174

ParseAssumption ==
  /\ AmountSpan = 256 ^ Width.amount /\ AmountSpan \in Nat \ {0}
  /\ Targets \subseteq Nat
  /\ RestartsWithFirst \in BOOLEAN
  /\ None \notin Txs
  /\ \A c \in DOMAIN TrustedInputs : TrustedInputs[c].amount < AmountSpan

ASSUME ParseAssumption

\* The hosts send transactions of the format, and copies of trusted inputs.
FormatAssumption ==
  /\ \A t \in Txs : WellFormed(t)
  /\ \A c \in DOMAIN TrustedInputs : Len(TrustedInputs[c].outpoint) = Width.outpoint

ASSUME FormatAssumption

Modes == {"TRUSTED_INPUT", "SIGNATURE"}

\* The bytes of every transaction, and where its groups end.
Stream == [t \in Txs |-> [mode \in Modes |-> Serialized(t, mode)]]
GroupCuts == [t \in Txs |-> [mode \in Modes |-> GroupEnds(t, mode)]]

\* What a host sends are bytes.
ASSUME StreamAssumption == \A t \in Txs, mode \in Modes : Stream[t][mode] \in Seq(Bytes)

VARIABLES
  transactionState,                   \* transactionContext.transactionState
  transactionRemainingInputsOutputs,  \* transactionContext, as the next three
  transactionCurrentInputOutput,
  scriptRemaining,
  transactionAmount,
  relaxed,                            \* transactionContext.relaxed
  consumeP2SH,                        \* transactionContext.consumeP2SH
  transactionHashOption,              \* which hashes take the bytes that are read
  prefix,                             \* content of transactionHashPrefix
  witness,                            \* content of transactionHashWitness
  transactionTargetInput,             \* the output GET_TRUSTED_INPUT asks for
  trustedInputProcessed,              \* that output was read
  parseMode,                          \* transactionParseMode
  running,                            \* the command that runs, "none" between commands
  block,                              \* what it has still to read
  reply,                              \* the last reply: "ok" or "error"
  host,                               \* history: what was sent since the last FIRST
  issued                              \* history: the trusted inputs given out

counters == <<transactionRemainingInputsOutputs, transactionCurrentInputOutput, scriptRemaining>>
session == <<relaxed, consumeP2SH>>
hashes == <<transactionHashOption, prefix, witness>>
request == <<transactionTargetInput, trustedInputProcessed>>
command == <<parseMode, running>>
vars == <<transactionState, counters, transactionAmount, session, hashes, request,
          command, block, reply, host, issued>>

States ==
  {"NONE", "DEFINED_WAIT_INPUT", "INPUT_SCRIPT", "INPUT_HASHING_DONE", "DEFINED_WAIT_OUTPUT",
   "OUTPUT_SCRIPT", "OUTPUT_HASHING_DONE", "PROCESS_EXTRA", "PARSED", "PRESIGN_READY"}

\* The bit AUTHORIZATION of the option is set in places and read by nobody.
HashOptions == {"FULL", "WITNESS"}

TypeOK ==
  /\ transactionState \in States
  /\ transactionRemainingInputsOutputs \in Nat
  /\ transactionCurrentInputOutput \in Nat
  /\ scriptRemaining \in Nat
  /\ transactionAmount \in 0 .. AmountSpan - 1
  /\ relaxed \in BOOLEAN /\ consumeP2SH \in BOOLEAN
  /\ transactionHashOption \subseteq HashOptions
  /\ prefix \in Seq(Int) /\ witness \in Seq(Int)
  /\ transactionTargetInput \in Nat
  /\ trustedInputProcessed \in BOOLEAN
  /\ parseMode \in Modes \cup {"none"}
  /\ running \in Modes \cup {"none"}
  /\ block \in Seq(Int)
  /\ reply \in {"ok", "error"}

Init ==
  /\ transactionState = "NONE"
  /\ transactionRemainingInputsOutputs = 0
  /\ transactionCurrentInputOutput = 0
  /\ scriptRemaining = 0
  /\ transactionAmount = 0
  /\ relaxed = FALSE /\ consumeP2SH = FALSE
  /\ transactionHashOption = {}
  /\ prefix = <<>> /\ witness = <<>>
  /\ transactionTargetInput = 0
  /\ trustedInputProcessed = FALSE
  /\ parseMode = "none"
  /\ running = "none"
  /\ block = <<>>
  /\ reply = "ok"
  /\ host = [tx |-> None, mode |-> "none", sent |-> 0, orderly |-> FALSE,
             grouped |-> FALSE, begun |-> 0]
  /\ issued = {}

-----------------------------------------------------------------------------
\* The commands.  The dispatcher refuses an empty NEXT block.

Listening == running = "none"

\* The host sends the bytes up to n of the transaction it is sending.
SendUpTo(n) ==
  /\ host.tx # None
  /\ n \in Cuts(host.tx, host.mode, host.begun)
  /\ n \in host.sent + 1 .. Len(Stream[host.tx][host.mode])
  /\ block' = SubSeq(Stream[host.tx][host.mode], host.sent + 1, n)

\* The transaction being sent does not arrive in order any more.
Disturbed == [host EXCEPT !.orderly = FALSE, !.grouped = FALSE]

\* The host starts to send a transaction, with a FIRST block or without.
SendFrom(t, mode, n, first) ==
  /\ n \in Cuts(t, mode, host.begun + 1)
  /\ n \in 0 .. Len(Stream[t][mode])
  /\ block' = First(n, Stream[t][mode])
  /\ host' = [tx |-> t, mode |-> mode, sent |-> n, orderly |-> first,
              grouped |-> first /\ n \in GroupCuts[t][mode], begun |-> host.begun + 1]

\* Mutant: the flag of an earlier request stays.
NewRequestKeepsFlag(target) ==
  /\ transactionTargetInput' = target
  /\ consumeP2SH' = FALSE
  /\ UNCHANGED trustedInputProcessed

NewRequest(target) ==
  /\ transactionTargetInput' = target
  /\ trustedInputProcessed' = FALSE
  /\ consumeP2SH' = FALSE

\* GET_TRUSTED_INPUT, first block.
TrustedInputFirst(t, target, n) ==
  /\ Listening
  /\ SendFrom(t, "TRUSTED_INPUT", n, TRUE)
  /\ NewRequest(target)
  /\ transactionState' = "NONE"
  /\ transactionHashOption' = {"FULL"}
  /\ parseMode' = "TRUSTED_INPUT" /\ running' = "TRUSTED_INPUT"
  /\ UNCHANGED <<counters, transactionAmount, relaxed, prefix, witness, reply, issued>>

\* The same with a wrong P2, which is tested after the assignments.
TrustedInputFirstRefused(target) ==
  /\ Listening
  /\ NewRequest(target)
  /\ transactionState' = "NONE"
  /\ transactionHashOption' = {"FULL"}
  /\ parseMode' = "TRUSTED_INPUT"
  /\ reply' = "error"
  /\ host' = Disturbed
  /\ UNCHANGED <<counters, transactionAmount, relaxed, prefix, witness, running, block, issued>>

\* HASH_INPUT_START, first block: a new session, or the next input of the
\* transaction already reviewed.  What it does to the review is in SignTx.
StartFirst(t, new, n) ==
  /\ Listening
  /\ n > 0
  /\ SendFrom(t, "SIGNATURE", n, TRUE)
  /\ IF new THEN relaxed' = FALSE /\ consumeP2SH' = FALSE ELSE UNCHANGED session
  /\ transactionState' = "NONE"
  /\ transactionHashOption' = {"FULL"}
  /\ parseMode' = "SIGNATURE" /\ running' = "SIGNATURE"
  /\ UNCHANGED <<counters, transactionAmount, prefix, witness, request, reply, issued>>

\* The PIN is locked or P2 is wrong.
StartFirstRefused ==
  /\ Listening
  /\ transactionState' = "NONE"
  /\ transactionHashOption' = {"FULL"}
  /\ parseMode' = "SIGNATURE"
  /\ reply' = "error"
  /\ host' = Disturbed
  /\ UNCHANGED <<counters, transactionAmount, session, prefix, witness, request,
                 running, block, issued>>

\* Mutant: a next block is parsed in whatever mode its command has.
AnyMode(mode) == TRUE

\* transaction_parse runs in the mode bound by the FIRST block.
ModeBound(mode) == parseMode = mode

\* A next block of either command.
NextRuns(mode) ==
  /\ Listening
  /\ ModeBound(mode)
  /\ running' = mode
  /\ UNCHANGED <<transactionState, counters, transactionAmount, session, hashes, request,
                 parseMode, reply, issued>>

NextRefused(mode) ==
  /\ Listening
  /\ ~ModeBound(mode)
  /\ transactionState' = "NONE"
  /\ parseMode' = "none"
  /\ reply' = "error"
  /\ host' = Disturbed
  /\ UNCHANGED <<counters, transactionAmount, session, hashes, request, running, block, issued>>

\* With the bytes that follow those already sent.
NextBlock(mode, n) ==
  /\ RestartsWithFirst => transactionState # "NONE"
  /\ SendUpTo(n)
  /\ host' = [host EXCEPT !.sent = n, !.orderly = @ /\ host.mode = mode,
                          !.grouped = @ /\ host.mode = mode /\ n \in GroupCuts[host.tx][mode]]
  /\ NextRuns(mode)

\* With the beginning of a transaction no FIRST block announced.
NextAsFirst(mode, t, n) ==
  /\ RestartsWithFirst => mode # "TRUSTED_INPUT"
  /\ transactionState = "NONE"
  /\ n > 0
  /\ SendFrom(t, mode, n, FALSE)
  /\ NextRuns(mode)

\* A block that never reaches the device (bound: one for a transaction).
BlockLost(n) ==
  /\ Listening
  /\ host.tx # None /\ host.orderly
  /\ n \in Cuts(host.tx, host.mode, host.begun)
  /\ n \in host.sent + 1 .. Len(Stream[host.tx][host.mode])
  /\ host' = [Disturbed EXCEPT !.sent = n]
  /\ UNCHANGED <<transactionState, counters, transactionAmount, session, hashes, request,
                 command, block, reply, issued>>

\* An IO reset wipes btchip_context_D.
IoReset ==
  /\ Listening
  /\ transactionState' = "NONE"
  /\ transactionRemainingInputsOutputs' = 0
  /\ transactionCurrentInputOutput' = 0
  /\ scriptRemaining' = 0
  /\ transactionAmount' = 0
  /\ relaxed' = FALSE /\ consumeP2SH' = FALSE
  /\ transactionHashOption' = {}
  /\ prefix' = <<>> /\ witness' = <<>>
  /\ transactionTargetInput' = 0
  /\ trustedInputProcessed' = FALSE
  /\ parseMode' = "none"
  /\ reply' = "ok"
  /\ host' = Disturbed
  /\ UNCHANGED <<running, block, issued>>

-----------------------------------------------------------------------------
\* The turns of transaction_parse.

Turn(state) == running # "none" /\ transactionState = state

\* Mutant: an element that ends with the block is refused.
AvailableStrictly(n) == Len(block) > n

\* check_transaction_available
Available(n) == Len(block) >= n

\* dataAvailable: what the block has of the next `limit` bytes.
Portion(limit) == IF Len(block) > limit THEN limit ELSE Len(block)

\* transaction_offset: the bytes go to the hashes of the option.
Hashed(content, hash, option, bytes) == IF hash \in option THEN content \o bytes ELSE content

\* transaction_offset_increase(n)
Consume(n) ==
  /\ prefix' = Hashed(prefix, "FULL", transactionHashOption, First(n, block))
  /\ witness' = Hashed(witness, "WITNESS", transactionHashOption, First(n, block))
  /\ block' = Rest(n, block)

\* A failed check_transaction_available, or "goto fail".  What the failed turn
\* had already hashed or counted is not kept: the next parse starts from NONE,
\* which initializes all of it before anything reads it.
Fail ==
  /\ transactionState' = "NONE"
  /\ running' = "none"
  /\ block' = <<>>
  /\ reply' = "error"
  /\ UNCHANGED <<counters, transactionAmount, hashes, transactionTargetInput, parseMode,
                 host, issued>>

\* "No more data to read, ok"
Wait ==
  /\ running' = "none"
  /\ block' = <<>>
  /\ reply' = "ok"
  /\ UNCHANGED <<transactionState, counters, transactionAmount, session, hashes, request,
                 parseMode, host, issued>>

\* The version goes to both hashes, each with its serialization type.
BeginTransaction ==
  /\ Turn("NONE")
  /\ LET count == Rest(Width.version, block)
         version == First(Width.version, block)
         taken == Width.version + VarintBytes(count)
     IN  IF VarintReadable(count)
           THEN /\ transactionState' = "DEFINED_WAIT_INPUT"
                /\ transactionRemainingInputsOutputs' = VarintValue(count)
                /\ transactionCurrentInputOutput' = 0
                /\ scriptRemaining' = 0
                /\ transactionAmount' = 0
                /\ transactionHashOption' = {"FULL"}
                /\ prefix' = SetBits(version, PrefixOnly) \o First(VarintBytes(count), count)
                /\ witness' = SetBits(version, WitnessOnly) \o First(VarintBytes(count), count)
                /\ block' = Rest(taken, block)
                /\ UNCHANGED <<session, request, command, reply, host, issued>>
           ELSE Fail /\ UNCHANGED <<session, trustedInputProcessed>>

InputsDone ==
  /\ Turn("DEFINED_WAIT_INPUT")
  /\ transactionRemainingInputsOutputs = 0
  /\ transactionState' = "INPUT_HASHING_DONE"
  /\ UNCHANGED <<counters, transactionAmount, session, hashes, request, command, block,
                 reply, host, issued>>

WaitForInput ==
  /\ Turn("DEFINED_WAIT_INPUT")
  /\ transactionRemainingInputsOutputs # 0
  /\ block = <<>>
  /\ Wait

\* The three forms of an input: bytes taken, bytes hashed, amount, relaxed.
PlainInput ==
  [taken |-> Width.outpoint + Width.tree, hashed |-> First(Width.outpoint + Width.tree, block),
   amount |-> 0, relaxed |-> FALSE]

\* The tree of an untrusted input is neither read nor hashed.
UntrustedInput ==
  [taken |-> 1 + Width.outpoint, hashed |-> Slice(2, 1 + Width.outpoint, block),
   amount |-> 0, relaxed |-> TRUE]

TrustedInput ==
  LET input == TrustedInputs[block[2]]
      data == 1 + Width.trusted
  IN  [taken |-> data + Width.tree,
       hashed |-> input.outpoint \o Slice(data + 1, data + Width.tree, block),
       amount |-> input.amount, relaxed |-> FALSE]

\* The flag is known, and a trusted input is one the device issued.
InputForm(mode) ==
  CASE mode = "TRUSTED_INPUT" -> {PlainInput}
    [] mode = "SIGNATURE" /\ Available(2) /\ block[1] = 0 -> {UntrustedInput}
    [] mode = "SIGNATURE" /\ Available(2) /\ block[1] = 1 /\ block[2] \in DOMAIN TrustedInputs
         -> {TrustedInput}
    [] OTHER -> {}

\* Mutant: the carry of the sum is ignored.
WrapsAround(amount) == FALSE

\* transaction_amount_add_be returns a carry.
Overflows(amount) == transactionAmount + amount >= AmountSpan

\* An input up to the length of its script, which goes to the witness.
ReadInput ==
  /\ Turn("DEFINED_WAIT_INPUT")
  /\ transactionRemainingInputsOutputs # 0
  /\ block # <<>>
  /\ \E in \in InputForm(running) :
       LET length == Rest(in.taken, block)
       IN  /\ VarintReadable(length)
           /\ ~Overflows(in.amount)
           /\ transactionState' = "INPUT_SCRIPT"
           /\ transactionAmount' = (transactionAmount + in.amount) % AmountSpan
           /\ relaxed' = (relaxed \/ in.relaxed)
           /\ scriptRemaining' = VarintValue(length)
           /\ prefix' = Hashed(prefix, "FULL", transactionHashOption, in.hashed)
           /\ witness' = Hashed(witness, "WITNESS", transactionHashOption, in.hashed)
                           \o First(VarintBytes(length), length)
           /\ transactionHashOption' = {"WITNESS"}
           /\ block' = Rest(VarintBytes(length), length)
  /\ UNCHANGED <<transactionRemainingInputsOutputs, transactionCurrentInputOutput, consumeP2SH,
                 request, command, reply, host, issued>>

InputRejected ==
  /\ Turn("DEFINED_WAIT_INPUT")
  /\ transactionRemainingInputsOutputs # 0
  /\ block # <<>>
  /\ \A in \in InputForm(running) :
       ~VarintReadable(Rest(in.taken, block)) \/ Overflows(in.amount)
  /\ relaxed' = (relaxed \/ \E in \in InputForm(running) : in.relaxed /\ Available(in.taken))
  /\ Fail
  /\ UNCHANGED <<consumeP2SH, trustedInputProcessed>>

WaitForScript ==
  /\ Turn("INPUT_SCRIPT")
  /\ block = <<>>
  /\ Wait

\* All the bytes of the block but the last one of the script, which is kept
\* back until it can be looked at together with the sequence.
ScriptBytes ==
  /\ Turn("INPUT_SCRIPT")
  /\ scriptRemaining > 1 /\ block # <<>>
  /\ LET n == Portion(scriptRemaining - 1)
     IN  /\ Consume(n)
         /\ scriptRemaining' = scriptRemaining - n
  /\ UNCHANGED <<transactionState, transactionRemainingInputsOutputs, transactionHashOption,
                 transactionCurrentInputOutput, transactionAmount, session, request, command,
                 reply, host, issued>>

\* The last byte of the script, if it has one, then the sequence.  Whether
\* that byte is OP_CHECKMULTISIG decides consumeP2SH, script by script.
EndOfInput ==
  /\ Turn("INPUT_SCRIPT")
  /\ scriptRemaining <= 1 /\ block # <<>>
  /\ consumeP2SH' = IF scriptRemaining = 1 THEN block[1] = OP_CHECKMULTISIG ELSE consumeP2SH
  /\ LET last == First(scriptRemaining, block)
         taken == scriptRemaining + Width.sequence
     IN  IF Available(taken)
           THEN /\ transactionState' = "DEFINED_WAIT_INPUT"
                /\ scriptRemaining' = 0
                /\ transactionRemainingInputsOutputs' = transactionRemainingInputsOutputs - 1
                /\ transactionCurrentInputOutput' = transactionCurrentInputOutput + 1
                /\ prefix' = Hashed(prefix, "FULL", transactionHashOption, last)
                               \o Slice(scriptRemaining + 1, taken, block)
                /\ witness' = Hashed(witness, "WITNESS", transactionHashOption, last)
                /\ transactionHashOption' = {"FULL"}
                /\ block' = Rest(taken, block)
                /\ UNCHANGED <<transactionAmount, relaxed, request, command, reply, host, issued>>
           ELSE Fail /\ UNCHANGED <<relaxed, trustedInputProcessed>>

\* Mutant: the next state is the one the turn before came from.
PresignReadyAgain ==
  /\ Turn("INPUT_HASHING_DONE")
  /\ running = "SIGNATURE"
  /\ transactionState' = "DEFINED_WAIT_INPUT"
  /\ UNCHANGED <<counters, transactionAmount, session, hashes, request, command, block,
                 reply, host, issued>>

PresignReady ==
  /\ Turn("INPUT_HASHING_DONE")
  /\ running = "SIGNATURE"
  /\ transactionState' = "PRESIGN_READY"
  /\ UNCHANGED <<counters, transactionAmount, session, hashes, request, command, block,
                 reply, host, issued>>

ReadOutputCount ==
  /\ Turn("INPUT_HASHING_DONE")
  /\ running = "TRUSTED_INPUT"
  /\ \/ block = <<>> /\ Wait
     \/ /\ VarintReadable(block)
        /\ transactionState' = "DEFINED_WAIT_OUTPUT"
        /\ transactionRemainingInputsOutputs' = VarintValue(block)
        /\ transactionCurrentInputOutput' = 0
        /\ Consume(VarintBytes(block))
        /\ UNCHANGED <<scriptRemaining, transactionAmount, session, transactionHashOption,
                       request, command, reply, host, issued>>
     \/ block # <<>> /\ ~VarintReadable(block) /\ Fail /\ UNCHANGED <<session, trustedInputProcessed>>

OutputsDone ==
  /\ Turn("DEFINED_WAIT_OUTPUT")
  /\ transactionRemainingInputsOutputs = 0
  /\ transactionState' = "OUTPUT_HASHING_DONE"
  /\ UNCHANGED <<counters, transactionAmount, session, hashes, request, command, block,
                 reply, host, issued>>

WaitForOutput ==
  /\ Turn("DEFINED_WAIT_OUTPUT")
  /\ transactionRemainingInputsOutputs # 0
  /\ block = <<>>
  /\ Wait

\* Mutant: the outputs are counted from one.
IsTargetOffByOne ==
  running = "TRUSTED_INPUT" /\ transactionCurrentInputOutput + 1 = transactionTargetInput

IsTarget == running = "TRUSTED_INPUT" /\ transactionCurrentInputOutput = transactionTargetInput

\* The amount, the script version and the length of the script.  The amount
\* of the output asked for is kept as soon as it is there.
ReadOutput ==
  /\ Turn("DEFINED_WAIT_OUTPUT")
  /\ transactionRemainingInputsOutputs # 0
  /\ block # <<>>
  /\ LET length == Rest(Width.amount + Width.scriptVersion, block)
         taken == Width.amount + Width.scriptVersion + VarintBytes(length)
         found == IsTarget /\ Available(Width.amount)
     IN  /\ trustedInputProcessed' = (trustedInputProcessed \/ found)
         /\ IF VarintReadable(length)
              THEN /\ transactionState' = "OUTPUT_SCRIPT"
                   /\ transactionAmount' = IF found THEN LittleEndian(First(Width.amount, block))
                                                    ELSE transactionAmount
                   /\ scriptRemaining' = VarintValue(length)
                   /\ Consume(taken)
                   /\ UNCHANGED <<transactionRemainingInputsOutputs, transactionCurrentInputOutput,
                                  session, transactionHashOption, transactionTargetInput,
                                  command, reply, host, issued>>
              ELSE Fail /\ UNCHANGED session

\* The end of an output is noticed when the bytes of the next element come.
ReadOutputScript ==
  /\ Turn("OUTPUT_SCRIPT")
  /\ \/ block = <<>> /\ Wait
     \/ /\ block # <<>> /\ scriptRemaining = 0
        /\ transactionState' = "DEFINED_WAIT_OUTPUT"
        /\ transactionRemainingInputsOutputs' = transactionRemainingInputsOutputs - 1
        /\ transactionCurrentInputOutput' = transactionCurrentInputOutput + 1
        /\ UNCHANGED <<scriptRemaining, transactionAmount, session, hashes, request, command,
                       block, reply, host, issued>>
     \/ /\ block # <<>> /\ scriptRemaining # 0
        /\ LET n == Portion(scriptRemaining)
           IN  /\ Consume(n)
               /\ scriptRemaining' = scriptRemaining - n
        /\ UNCHANGED <<transactionState, transactionRemainingInputsOutputs, transactionHashOption,
                       transactionCurrentInputOutput, transactionAmount, session, request,
                       command, reply, host, issued>>

\* Lock time and expiry.  What follows them in the same block is the length
\* of extra data, which is not hashed; nothing follows: the end.
ReadLockTime ==
  /\ Turn("OUTPUT_HASHING_DONE")
  /\ block # <<>>
  /\ LET extra == Rest(Width.lockTime, block)
     IN  IF Available(Width.lockTime) /\ (extra # <<>> => VarintReadable(extra))
           THEN /\ transactionState' = IF extra = <<>> THEN "PARSED" ELSE "PROCESS_EXTRA"
                /\ scriptRemaining' = IF extra = <<>> THEN scriptRemaining ELSE VarintValue(extra)
                /\ prefix' = Hashed(prefix, "FULL", transactionHashOption, First(Width.lockTime, block))
                /\ witness' = Hashed(witness, "WITNESS", transactionHashOption, First(Width.lockTime, block))
                /\ transactionHashOption' = IF extra = <<>> THEN transactionHashOption ELSE {"FULL"}
                /\ block' = IF extra = <<>> THEN <<>> ELSE Rest(VarintBytes(extra), extra)
                /\ UNCHANGED <<transactionRemainingInputsOutputs, transactionCurrentInputOutput,
                               transactionAmount, session, request, command, reply, host, issued>>
           ELSE Fail /\ UNCHANGED <<session, trustedInputProcessed>>

WaitForLockTime ==
  /\ Turn("OUTPUT_HASHING_DONE")
  /\ block = <<>>
  /\ Wait

ReadExtra ==
  /\ Turn("PROCESS_EXTRA")
  /\ \/ /\ scriptRemaining = 0
        /\ transactionState' = "PARSED"
        /\ UNCHANGED <<counters, transactionAmount, session, hashes, request, command, block,
                       reply, host, issued>>
     \/ scriptRemaining # 0 /\ block = <<>> /\ Wait
     \/ /\ scriptRemaining # 0 /\ block # <<>>
        /\ LET n == Portion(scriptRemaining)
           IN  /\ Consume(n)
               /\ scriptRemaining' = scriptRemaining - n
        /\ UNCHANGED <<transactionState, transactionRemainingInputsOutputs, transactionHashOption,
                       transactionCurrentInputOutput, transactionAmount, session, request,
                       command, reply, host, issued>>

EndOfInputs ==
  /\ Turn("PRESIGN_READY")
  /\ Wait

\* The end of GET_TRUSTED_INPUT: the hash, the index and the amount, under
\* the key of the device, if the output asked for was there.
EndOfTransaction ==
  /\ Turn("PARSED")
  /\ running' = "none"
  /\ block' = <<>>
  /\ transactionState' = "NONE"
  /\ IF trustedInputProcessed
       THEN /\ reply' = "ok"
            /\ issued' = issued \cup {[content |-> prefix, index |-> transactionTargetInput,
                                       amount |-> transactionAmount]}
       ELSE reply' = "error" /\ UNCHANGED issued
  /\ UNCHANGED <<counters, transactionAmount, session, hashes, request, parseMode, host>>

-----------------------------------------------------------------------------
Positions == 0 .. Max({Len(Stream[t][mode]) : t \in Txs, mode \in Modes})

Receive ==
  \/ \E t \in Txs, n \in Positions :
       \/ \E target \in Targets : TrustedInputFirst(t, target, n)
       \/ \E new \in BOOLEAN : StartFirst(t, new, n)
       \/ \E mode \in Modes : NextAsFirst(mode, t, n)
  \/ \E n \in Positions : BlockLost(n) \/ \E mode \in Modes : NextBlock(mode, n)
  \/ \E target \in Targets : TrustedInputFirstRefused(target)
  \/ StartFirstRefused
  \/ \E mode \in Modes : NextRefused(mode)

ParseInputs ==
  \/ BeginTransaction
  \/ InputsDone \/ WaitForInput \/ ReadInput \/ InputRejected
  \/ WaitForScript \/ ScriptBytes \/ EndOfInput
  \/ PresignReady \/ EndOfInputs

ParseOutputs ==
  \/ ReadOutputCount
  \/ OutputsDone \/ WaitForOutput \/ ReadOutput \/ ReadOutputScript
  \/ ReadLockTime \/ WaitForLockTime \/ ReadExtra
  \/ EndOfTransaction

Parse == ParseInputs \/ ParseOutputs

Next == Receive \/ Parse \/ IoReset

Spec == Init /\ [][Next]_vars

-----------------------------------------------------------------------------
\* Properties.

\* A transaction is read in one mode from its first byte to its last: nothing
\* read to issue a trusted input ever becomes a transaction ready to be
\* signed, and the outputs of a transaction to sign are never taken for those
\* of a trusted input.
OneMode ==
  /\ running # "none" => parseMode = running
  /\ transactionState = "PRESIGN_READY" => parseMode = "SIGNATURE"
  /\ transactionState \in {"DEFINED_WAIT_OUTPUT", "OUTPUT_SCRIPT", "OUTPUT_HASHING_DONE",
                           "PROCESS_EXTRA", "PARSED"} => parseMode = "TRUSTED_INPUT"

\* The sum of the inputs that come with their amount.
TrustedAmounts(t) ==
  FoldRight(LAMBDA in, sum : sum + IF in.trusted = 0 THEN 0 ELSE TrustedInputs[in.trusted].amount,
            t.inputs, 0)

\* The tree of an input is part of what is hashed only if it is trusted.
HashedTree(in) == IF in.trusted = 0 THEN <<>> ELSE in.tree

\* Input i is the last one that came with a script.
LastScript(t, i) ==
  t.inputs[i].script # <<>> /\ \A j \in DOMAIN t.inputs : j > i => t.inputs[j].script = <<>>

\* When a transaction that arrived in order has its inputs read, the hashes
\* and the amount are those of that transaction, wherever its blocks ended
\* and whatever came before; an input without an amount is remembered, and
\* consumeP2SH tells how the last script ended.
InputsAsSent ==
  transactionState = "PRESIGN_READY" /\ host.orderly =>
    LET t == host.tx
    IN  /\ prefix = PrefixInputs(t, HashedTree)
        /\ witness = WitnessInputs(t)
        /\ transactionAmount = TrustedAmounts(t)
        /\ (\E i \in DOMAIN t.inputs : t.inputs[i].trusted = 0) => relaxed
        /\ \A i \in DOMAIN t.inputs :
             LastScript(t, i) => consumeP2SH = (Last(t.inputs[i].script) = OP_CHECKMULTISIG)

\* A transaction whose request can be met, sent in order and in blocks that
\* end where the host may end them, is never refused.
CanBeMet(t) ==
  IF host.mode = "SIGNATURE" THEN TrustedAmounts(t) < AmountSpan
                             ELSE transactionTargetInput < Len(t.outputs)

OrderlyAccepted == host.grouped /\ CanBeMet(host.tx) => reply = "ok" \/ running # "none"

\* Every trusted input states the amount of an output of the transaction it
\* hashed, and that transaction was hashed from its first byte to its last:
\* lost blocks, abandoned transactions and changes of mode never mix two.
Contract ==
  INSTANCE TrustedInputContract WITH
    Pays <- OutputPays,
    content <- IF transactionState = "NONE" THEN <<>> ELSE prefix

TrustedInputsHold == Contract!Spec

\* The output asked for was read in this very transaction when the end of the
\* transaction finds it processed.
TargetWasRead ==
  transactionState = "PARSED" /\ trustedInputProcessed =>
    transactionTargetInput < transactionCurrentInputOutput

\* The output a trusted input is for was in the transaction.
OutputWasThere ==
  \A i \in issued : OutputPays(i.content, i.index, i.amount)

\* The loop of a command comes to an end: each turn that does not leave it
\* consumes bytes of the block, or moves on towards the end of the transaction
\* or of the outputs (btchip_transaction.c:131 loops for as long as no state
\* returns).
Later ==
  [s \in States |-> CASE s \in {"OUTPUT_SCRIPT", "DEFINED_WAIT_INPUT"} -> 3
                     [] s \in {"DEFINED_WAIT_OUTPUT", "INPUT_HASHING_DONE"} -> 2
                     [] s \in {"OUTPUT_HASHING_DONE", "PRESIGN_READY", "PROCESS_EXTRA"} -> 1
                     [] OTHER -> 0]

LoopProgresses ==
  [][running # "none" /\ running' # "none" =>
       \/ Len(block') < Len(block)
       \/ Len(block') = Len(block) /\ Later[transactionState'] < Later[transactionState]]_vars
=============================================================================
