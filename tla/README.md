# A TLA+ model of the Ledger Decred application

The application runs on a hardware wallet. A host sends it commands (APDUs), one
at a time; the device answers each at once, or shows a screen and answers when
the owner pressed a button. It signs Decred transactions and text messages with
keys that never leave the device. What has to be right is the relation between
four things that change at different moments: the bytes the host sent, what the
screen showed, what the owner accepted, and what is signed.

## 1. Inventory

| Component | Source | State it keeps | Operations |
|---|---|---|---|
| Dispatcher, life cycle | `src/btchip.c`, `src/main.c`, `src/btchip_context.c`, `src/btchip_secure_value.c` | `btchip_context_D` (RAM, wiped by an IO reset or a launch), `N_btchip` (persistent) | `app_main`, `app_dispatch`, `btchip_context_init`, `autosetup` |
| Transaction parser | `src/btchip_transaction.c` | `transactionContext`: state, remaining inputs and outputs, script bytes left, amount; the BLAKE-256 contexts | `transaction_parse` in two modes: trusted input, signature |
| Trusted inputs | `src/btchip_apdu_get_trusted_input.c` | the same parser state, `transactionTargetInput`, `trustedInputProcessed` | `GET_TRUSTED_INPUT` first and next |
| Inputs of a transaction to sign | `src/btchip_apdu_hash_input_start.c` | flags of the session: `firstSigned`, `relaxed`, `consumeP2SH`; `tmpCtx.output` | `HASH_INPUT_START` first (new or continued) and next |
| Outputs and review | `src/btchip_apdu_hash_input_finalize_full.c`, `src/ui/ui_shared.c`, `src/ui/ui_transaction_*.c` | the output parser: `currentOutput`, `currentOutputOffset`, `remainingOutputs`, `discardSize`, `totalOutputs`, `totalOutputAmount`, `changeOutputFound`, `outputParsingState`; `transactionSummary.authorizationHash` | `HASH_INPUT_FINALIZE_FULL` change info, more, last; the screens; the callbacks of their buttons |
| Signature | `src/btchip_apdu_hash_sign.c` | none of its own | `HASH_SIGN` |
| Message signing | `src/btchip_apdu_sign_message.c` | `transactionSummary` (path, length), `messageBuffer`, `messageDisplayable`, `hashedMessageLength`, two SHA-256 contexts | `SIGN_MESSAGE` prepare first and next, sign; the screen and its answers |
| Public keys | `src/btchip_apdu_get_wallet_public_key.c`, `src/ui/ui_pubkey_*.c` | `last_token`, `has_valid_token` | `GET_WALLET_PUBLIC_KEY` silent, displayed, with a token |
| Settings | `src/ui/ui_main_menu_*.c` | `N_btchip.pubKeyRequestRestriction`, the blind-signing option | the menu entries |
| Helpers | `src/btchip_helpers.c` | none | script recognisers, derivation guard, path printing, addresses, key derivation |
| Pure functions | `src/btchip_bcd.c`, `src/btchip_base58.c`, `src/blake256.c`, amounts in `src/btchip_transaction.c` | none (a hash context) | text of amounts, base 58, BLAKE-256, 64-bit sums |
| Version commands | `src/btchip_apdu_get_coin_version.c`, `..._firmware_version.c` | none | constant replies |
| Host library | `js/ledger-btc.js` | the promise chain of a call: round, input, offset in the outputs, signatures | `createPaymentTransactionNew_async`, `signP2SHTransaction_async`, trusted inputs, splitting of transactions |

### How the parts interact

* Every command runs to its end before the next is received. A command that sets
  `IO_ASYNCH_REPLY` shows a screen and sends no reply: until the callback of a
  button sends it, no command is served. So there are no threads, but the command
  and the callback that ends it are two steps, between which an IO reset, a power
  cut or nothing at all may happen.
* A transaction is reviewed once, while its first input is signed; each further
  input is a complete new pass over the transaction
  (`HASH_INPUT_START`, `HASH_INPUT_FINALIZE_FULL`, `HASH_SIGN`) without a screen.
  The only bond between the passes is `authorizationHash`. The host library makes
  the passes, one per input, and tells the device in the first only that it is new.
* Components share RAM: `GET_TRUSTED_INPUT` runs through the parser state and hash
  contexts of the session; `SIGN_MESSAGE` and `HASH_INPUT_FINALIZE_FULL` both own
  `transactionSummary`; a change path and the outputs share `tmpCtx.output` over
  the passes.
* The output parser is driven from two places: the command that brings data, and
  the callback of the previous output's screen.
* A trusted input leaves the device, sealed with a key made by the automatic setup,
  and comes back in a later session with an amount the device then believes.

### What is hard

Order of commands nobody wrote a test for (any command may follow any other);
state left over by a transaction or a message that was given up; counters and
bytes kept in step across command and callback; the moment at which the
authorization hash is stored compared with the moment the owner approves; blocks
that end anywhere or never arrive; errors in the middle of a review; power cuts
between two writes of the setup; resets between any two steps; fixed fields and
byte-wise arithmetic at their limits. `PROJECT.json` lists each of these hazards at
the line where it bites, with the properties that would catch it going wrong.

### What makes each component correct

* Session: a signature is made only over the whole transaction approved last;
  the review shows every output but one change; numbers and fees on the screens
  are those of the transaction; an unusual change path was accepted before it
  hides anything; every review ends.
* Output buffer: it never overruns, the output a screen shows is the one its
  answer drops, and what was shown is to the byte what was hashed.
* Parser: amounts, flags and hashes are those of the transaction sent, wherever
  its blocks end; a request for a trusted input is answered for an output that was
  read, with its amount, in a parse that stayed in its mode; the loop ends.
* Message signing: what is signed is what was announced and shown, whole; the
  hash replaces the text only under the owner's setting.
* Public keys: none leaves without the approval the settings ask for.
* Life cycle: after a halt nothing is served until a reset; the persistent
  configuration is all there or absent; no cut undoes a setting of the owner.
* Pure functions: sums, texts, encodings and the blocks of the hash equal their
  definitions.
* Host library: a call signs the transaction it was given, fails only for a
  reason, and settles.

## 2. Modules

| Module | What it is |
|---|---|
| `SignTx` | the transaction-signing session, with the commands that share its RAM |
| `SigningContract` | what that session promises: only the content approved last is signed, and the one whose hash was offered before |
| `SampleTransactions`, `MCSignTx` | small transactions, and sessions over them, for TLC |
| `SignTxProofs` | type correctness, the change path, the buffer, the authorization hash, the contract, the review and the fees, for every host; the calls of the host library |
| `OutputBuffer`, `MCOutputBuffer`, `OutputBufferProofs` | one review, with the bytes of the outputs; small streams of outputs; theorems |
| `TransactionFormat` | a transaction as the host sends it, and what its hashes should cover: the reference |
| `TransactionParse`, `MCTransactionParse` | the parser of transactions and the two commands that feed it; small transactions |
| `TrustedInputContract` | what a trusted input promises |
| `TransactionParseProofs` | theorems about the parser, whatever bytes it is fed, and about a transaction that arrives in order |
| `Lifecycle` | launch, automatic setup under power cuts, halt, IO reset, settings |
| `PubkeyExport`, `PubkeyExportProofs` | `GET_WALLET_PUBLIC_KEY` on top of `Lifecycle`; theorems about both |
| `MessageSigning`, `MessageSigningProofs` | both phases of `SIGN_MESSAGE`, on top of both, and the transaction commands that rewrite its state; theorems |
| `MCDevice` | paths, tokens and small messages for the three of them |
| `SigningHost`, `MCSigningHost` | the signing calls of the host library, composed with `SignTx` |
| `HashBuffer`, `AmountDisplay`, `AmountSums`, `Base58`, `KeyPath` | the computations, loop by loop |
| `MCComputations` | the five of them in one run |
| `ComputationProofs` | theorems about the sums, the derivation guard, the texts of paths and amounts, and the hash |
| `Base58Proofs` | theorems about base 58, both ways |
| `Induction` | lemmas for proofs by induction over sizes, sequences and sets, and on folds, division and powers; no code |

`SigningHost` extends `SignTx`, `PubkeyExport` extends `Lifecycle` and `MessageSigning`
both: their steps are steps of the parts joined, or of one while the others rest. `SignTx`, `OutputBuffer` and `TransactionParse` look at
one session at three scales: whole sessions in units, one review in bytes, the
transaction before it in bytes.

### SignTx

State. The variables carry the names of the C fields they model; the comments in
the module give the structure each belongs to. `parser` gathers the fields of the
output parser. `hashed` is what `transactionHashPrefix` and
`transactionHashAuthorization` have absorbed: a transaction, the number of its
inputs and the number of units of its outputs. `screen` is the screen waiting for
an answer. `confirmed`, `disorder`, `marked`, `warned`, `approved`, `sealed` and `signed`
are history: what the owner accepted, how the host departed from the order, whether the
last block of outputs was a LAST (in the pass under way, and in the one that was approved),
and what was signed. No action reads them but one: bytes that are out of place by
`disorder` may spell anything, see Environment.

Data. A script is one of the change paths (an output to that address), `"other"`,
`"nulldata"` or `"unknown"`. An output is two units of the stream, so a block may
end inside it; the number of outputs is one unit, or two where a number of
several bytes matters (`CountUnits`). `BufferUnits` is the size of
`currentOutput`. Amounts are added modulo `AmountSpan`, the 2^64 of the code.

Actions. One per command outcome and one per button:

| Code | Actions |
|---|---|
| `btchip_apdu_hash_input_start` | `StartFirst`, `StartFirstRefused`, `StartNext`, `StartWithoutFirst` (a NEXT block in state `NONE`), `StartNextRefused` |
| `btchip_apdu_hash_input_finalize_full_internal` | `SetChangePath`, `ChangePathRefused`, `FinalizeFirst` (first pass, with the review), `FinalizeNext` (later passes), `FinalizeOutOfState` |
| `btchip_user_action_change_path` | `AcceptChangePath`, `RejectChangePath` |
| `btchip_bagl_user_action` | `AcceptOutput`, `AcceptTransaction`, `RejectTransaction` |
| `btchip_apdu_hash_sign` | `Sign`, `SignRefused` |
| `btchip_apdu_get_trusted_input`, `btchip_apdu_sign_message` | `TrustedInputFirst`, `TrustedInputNext`, `SignMessage` |
| `main`, `btchip_context_init` | `IoReset`, `Launch` |

`handle_output_state` is the operator `HandleOutputState`; the loops that call it
(the command's and, after a confirmation, the callback's) are folded into the
action that runs them, since nothing can come in between. An exception thrown in
a callback ends the application (`up = FALSE`), since no handler of the command is
active then.

Environment. The host sends any command at any time, and any block of outputs, marked
MORE or LAST, wherever it ends. A pass in order begins with a FIRST block, names the
change path before the outputs, sends their number whole, ends the outputs with the
first block marked LAST, and brings nothing behind them. What departs from that is served
as the code serves it, and noted in `disorder`:

| Departure | What the code does |
|---|---|
| `"next"` | a NEXT block in state `NONE` begins a transaction (`src/btchip_transaction.c:135`) without the resets of a FIRST block: bytes, state and totals of the output parser stay |
| `"change"` | CHANGEINFO after output data is taken, and with an unusual path it sends the parser back to the number of outputs (line 459) |
| `"number"` | a block ends inside the number of outputs: none remain as it seems, and the last screen comes up (line 347) |
| `"early"` | a LAST block that does not end the outputs stores the hash of what was received so far |
| `"beyond"` | bytes behind the outputs are hashed, and parsed if the parser still looks at any |

Ending the outputs with a MORE block is no departure: the number of outputs, not the mark of the
block, ends a review. It leaves `marked` false. After `"next"`, `"change"` or `"beyond"` the
bytes in the buffer are not those the parser takes them for. What they spell is then open: an
output of a transaction in `Spelled`, or none, and the parser may also refuse
(`Readings`, `FullReadings`). `Spelled` is a constant, any subset of the transactions; the hash
is over the bytes that were sent, whatever they spell.

What the model leaves out of the host's and the device's freedom:

* FIRST of `HASH_INPUT_START` brings the header, each NEXT one input. (`TransactionParse`
  cuts the blocks anywhere.)
* Errors of P1, P2 and lengths that change nothing are stutters. The PIN check and
  the option bits are nondeterministic refusals.
* What a failed parse leaves in the hash contexts and in the amount is not kept:
  both are initialised again before they are read.
* Lock time, expiry and the witness data are not part of the content.
* `io_exchange` and the screens are the SDK's: no command is received while a
  screen waits, and a reset can come at any moment.

### OutputBuffer

The same commands and callbacks as in `SignTx`, but with the bytes: `currentOutput`,
the sizes read out of it, `discardSize` set when an output is shown and used when it
is accepted. `HandleOutputState` returns what the C function returns (wait for data,
processed, display, or throw), with the buffer after it; `ParseOutputs` is the loop
over it. `FullOutputReviewable` is `prepare_full_output`. `reviewed` is history: the
bytes of each output that was on a screen or hidden as change. `disorder` is history:
whether the host named a change path after output data, or began with a NEXT block.
Amounts count only as zero or not; whether the fees can be shown and whether the
inputs allow one screen are free choices, which the code makes from data that is not
kept here. Script versions other than zero stand for an unknown script.

### TransactionFormat and TransactionParse

`TransactionFormat` says what bytes a host sends for a transaction in each of the two
modes and what the two hashes of it should have absorbed; it is written from the
format, not from the parser, except for the variable-length integers both need.

In `TransactionParse` a command starts with `running` set and `block` holding what it
was sent; each turn of the loop of `transaction_parse` is an action that takes bytes
from `block` and moves `transactionState` as one `case` of the switch does. A
fall-through is a turn of its own. The state of the hash option, both hash contexts
(as the sequences they absorbed), the amount, the flags and the counters are kept, and
nothing else ties one block to the next. `host` is history: the transaction sent since
the last FIRST block, how far, whether every block arrived in order (`orderly`) and
whether each ended where the documentation lets it end (`grouped`). Blocks may be lost
(`BlockLost`), the device may be reset, a transaction may be given up for another, and
either command may interrupt the other. With `RestartsWithFirst = FALSE` a request for
a trusted input may also begin with a NEXT block. What a host sends are bytes, whatever
they mean (`StreamAssumption`). `FormatAssumption` says what a transaction of the format
is: elements of their widths, and lists and scripts whose length the short forms of a
variable-length integer can tell (below 253, or below 256 for scripts in a transaction
that is `wide`, whose lengths are written in three bytes). It is a bound on the
transactions, used only where the parser is compared with them.

### MessageSigning

The module extends `PubkeyExport`, and with it `Lifecycle`: one screen is up at a time, the
blind-signing setting is the persistent one, and a reset, an exit or a power cut loses the
message. A message is a sequence of bytes. The hash to be signed covers a header with the
declared length and then the bytes; the hash that may be shown covers the bytes
alone; `messageBuffer` is a function of its positions, so that a block written at
the wrong place, or past the end, can be told. `PrepareFirst` and `PrepareNext`
share the tail `Take`, as the two branches of the code do. `Discard` is the label
`discard` of the source, which only the error paths reach. `ChangeInfo` and
`FinalizeLast` are what `HASH_INPUT_FINALIZE_FULL` does to `transactionSummary`;
they may come between any two blocks. `claim` is history: what the first block of
the current message announced.

### PubkeyExport

A request is a record of what the host chose and of the setting at that moment.
`ScreenFor` is the chain of conditions at the end of the handler; the reply, which
the code puts together in the APDU buffer before it asks anybody, is `request`
while it waits. `AcceptWarning` leads from the warning of an unusual path to its
address; `Approve` and `Reject` are `btchip_bagl_user_action_display`, the one
callback all these screens end in. Errors before the reply is built (P1, P2,
length, PIN, a path the OS refuses) change nothing and are stutters. The setting
can be changed from the menu of the BAGL devices only; the model allows it always.

`DeviceSpec` joins these steps with those of `Lifecycle`: requests are served only by a
configured application that is not halted, the setting they read is the persistent
one, and a reset or a power cut takes the request, the screen and the token with it.
`wanted` in `sent` is what the owner wanted when the key left, so that
`RestrictedKeysApproved` is about the owner's wish and not about the byte in memory.

### Lifecycle

The persistent fields are variables of their own, since each is written by its own
`nvm_write` and the power may fail between two of them; a failing write of the key
leaves `Torn`, a write of one byte is done or not (assumption on the SDK). The
writes are phases of the start; `Following` and `AfterConfig` give their order.
`wantBlind`, `wantRestriction` and `issued` are history: what the owner chose, and
the keys trusted inputs were issued with. The coin configuration, a constant of
the build that passes its length checks, is left out.

### SigningContract and TrustedInputContract

Three variables, `offered`, `authorized` and `signed`. A host offers a content, and the
offer stands until it is replaced or withdrawn: a refusal of the owner does not withdraw it.
Approving a content, while nothing is authorized, authorizes it and, if another one is offered at that moment, that one
too; when the approved content is the one offered, it alone. Anything may revoke, a signature
needs an authorization. `SignTx` is shown to implement it for every host under the mapping
`Offered`, the content whose authorization hash is stored, and `Authorized`, that content once
a review has passed, and the content that is `SIGN_READY`. This is what the device
promises, and less than an owner may expect: an approval may extend to a content that was
refused before, if the host ends the outputs of the approved one with MORE (run `more_ends`).
When the review was sealed by a LAST block (`sealed`) the offer is what was approved, and
`SignReadyApproved` says that nothing else gets to be signed.

`TrustedInputContract` is what a trusted input is: the device's word that it hashed
a transaction from its first byte on, and that one output of what it hashed pays
the amount stated. Content is only absorbed or forgotten; a trusted input names the
content of that moment. `TransactionParse` implements it with `content` mapped to
the bytes its prefix hash took.

### SigningHost

`pc` is the place in the promise chain; `sentInputs`, `offset` and `signatures` are the
variables its closures share. One step is one exchange: the host's part of it joined
with the action of `SignTx` that serves the command, or with the refusal the code
gives in that state. A command that raised a screen leaves the host `"pending"` until
the owner's last answer, or a reset, sends or loses the reply. `SendFails` is an
exchange with no application to listen. `SendInput` joins the exchanges of one input (its
header, then its script in blocks) in one step: what happens between them is the parser's,
and modelled with blocks cut anywhere in `TransactionParse`. `NextCall` starts another call on whatever the
one before left in the device; the histories of warnings and signatures start anew. Blocks have `BlockUnits` units at most, as `MAX_SCRIPT_BLOCK`
has it; `BlockAssumption` says that such a block, of 50 bytes, holds the number of outputs, of
at most 9, and fits the buffer of 200. Trusted inputs are taken as given, and the
transaction is already split.

### The computations

Each is a small state machine whose steps are turns of the loop in the code:

* `HashBuffer`: pieces of any size go into the buffer of BLAKE-256; the counter, its
  carry and the three forms of padding are those of the code. The compression function
  is external: a context is the list of blocks and counters it was given, which the
  property compares with those of the definition.
* `AmountDisplay`: bytes shifted into decimal digits, with the moving window
  `smin`, and the printing. The reference keeps the value beside it.
* `AmountSums`: addition with carry and subtraction with borrow, byte by byte, in the
  order the parser and the review make them.
* `Base58`: the two loops, with the early stop of the encoder and the moving start of
  the decoder. Numbers are too large for the checker and are compared modulo
  pairwise coprime numbers whose product exceeds them (`SameNumber`). The app itself
  calls the encoder; the decoder is in the same file and called by nobody, and its
  address form tests a SHA-256 checksum where the encoder of addresses uses BLAKE-256.
* `KeyPath`: the derivation guard with its flipped hardening bits, and the printing of
  a path into its buffer.

## 3. Runs

| Run | Instance | What it shows |
|---|---|---|
| `signing` | ten batches of transactions in any number of sessions, with all other commands, answers and resets in between; four of the batches for hosts that depart from the order | types; `SignReadyApproved`, `ReviewedHashStored`, `BufferIsFresh`, `ReviewCovered`, `FeesAddUp`, `OutputNumbering`, `UnusualChangeWarned`; the contract; `ReviewEnds` |
| `buffer` | eight streams of outputs, cut into blocks in every way; the short ones from a host that sends its commands in any order | types (the buffer never overruns); `ShownOutputWaits`, `ReviewIsHashed`, `WaitingBytesHashed` |
| `parse` | five transactions for either command, cut anywhere, with lost blocks, then a second one | `OneMode`, `TargetWasRead`, `InputsAsSent`, `OrderlyAccepted`, `TrustedInputsHold` (the contract), `LoopProgresses` |
| `device` | either two paths, one unusual, two tokens, every form of request, three keys, any number of power cuts; or messages of one to three bytes, blocks of up to two, a buffer of two, in the same life of the application | `ServingIsConfigured`, `OwnerSettingsKept`, `TrustedInputsStayGood`, `RestrictedKeysApproved`, `DisplayedKeysSeen`; `ScreenIsWhole`, `SignedAsAnnounced`, `BufferBound`, `HashScreenWanted` |
| `computations` | the five computations, one kind in a behaviour | `HashesMessage`, `DisplayExact`, `SumsExact`, `FeesExact`, `PrefixEncoded`, `RoundTrip`, `PathShown`, `UsualIsBip44` |
| `host` | eight transactions, a change path of either kind or none, any number of calls | `SignedAsReviewed`, `RejectedForReason`, `CallSettles` |
| `wrap` | two outputs whose sum wraps | violation of `OutputsCovered`, see Findings |
| `more_ends` | the batches of `signing` whose passes are in order: all their hosts may do is end the outputs with MORE | violation of `SignReadyReviewed`, see Findings |
| `late_change` | the short streams, any order of commands | violation of `VerifiedOnScreen`, see Findings |
| `parse_restart` | two transactions, requests that begin with a NEXT block | violation of `OutputWasThere`, see Findings |
| `amount_field` | amounts of bytes 0, 1 and 255, the sizes of the code | violation of `AmountFits`, see Findings |
| `token_again` | as `device` | violation of `TokenAskedOnce`, see Findings |

### Bounds and why they are enough

* `signing`. A buffer of six units holds a transaction of two outputs whole and one
  of three only if outputs are dropped from it as they are shown, so both ways of the
  review and the full buffer occur; blocks of every size from one unit to one more
  than the buffer are sent, so that every cut and the refusal of a block too long
  occur. A behaviour keeps to one batch (`Batches` in `MCSignTx`, a named bound): two
  transactions with one change path, a single transaction with both, or a small transaction
  and a host that departs from the order in the ways the batch names. Two are what
  it takes to mix one with another; a third adds nothing, since the device keeps at
  most one authorization and one parse. Two change paths, one usual and one not, give
  every answer of the derivation guard. Amounts below 16 are enough for one overflow of
  a sum and for positive, zero and negative fees. A host sends at most one unit behind the
  outputs (`ExtraUnits`), a pass out of order counts at most one output more than it
  announced (`ExtraOutputs`): each further one repeats the step. Trusted inputs are
  asked for between the sessions of two transactions, which is where their interleaving matters. What bytes out of place spell
  (`Spelled`) is one payment, one change output or no output. Signatures over one content
  (`MaxSigned`) are kept apart from those over a second. `"number"` does not occur, since a
  number of one unit cannot be cut: the theorems cover it.
* `more_ends` and `wrap` start from the same bounds without departures (`MCInOrder`).
* `buffer`. Headers of two bytes and scripts of one keep every boundary inside an
  output; numbers take one or three bytes (the header of the number of outputs, and
  the size of a script); the buffer of eleven bytes is filled by the longest streams.
  Batches again: short streams for a host that observes no order, a single longer
  stream, or two, otherwise.
* `parse`. Elements of fixed length have one or two bytes (`MCWidth`), enough for a
  block to end inside them; scripts have none to three. `Cuts` is the named bound:
  `Small`, which has one of everything, is cut anywhere, the other transactions between
  groups; a second transaction may follow, and it is `Small` again. One block is lost
  for a transaction: after it the rest is out of order however many more are.
* `device`. Two tokens let one replace the other; three keys are that of a setup cut
  short, that of its repetition and one that would replace a key in use. A buffer of two bytes has
  messages that fit, fill it and exceed it; the three bytes tell printable from not and
  one printable from another, so that a block out of place shows. A behaviour serves either
  the keys or the messages (`served`), with one key of the setup for the latter: what the
  two share are the settings, the loop and the one screen.
* `computations`. The hash has blocks of eight bytes, a length field of two and a
  counter that wraps after two blocks; messages of up to 22 bytes (`MaxMessage`) in
  pieces of up to 17 (`MaxPiece`) meet every form of padding, exactly full blocks and
  the carry of the counter. Amounts on the screen have the sizes of the code, with
  bytes out of `BytesSeen` = {0, 1, 255}. Sums have three bytes of three values and up
  to two inputs and outputs (`MaxInputs`, `MaxOutputs`): all carries and borrows. Base
  58 gets every string of up to three telling bytes and payloads of 26, the length of
  an address. Paths go up to ten levels of the shortest and the longest text, and around
  every limit of the guard.
* `host`. Blocks of four units and a buffer of five: a transaction of three outputs
  takes two blocks, the first of which ends inside an output, and the buffer has room
  for the rest that waits and a block, as the sizes of the code do.

Deadlock is checked in every run: a device that can do nothing at all would show.

### Fairness

* `ReviewEnds` (`signing`): weak fairness of the owner's answers, and nothing of the
  host. Every screen has a button for each of its answers that stays enabled until it
  is pressed, and the event loop of the SDK delivers it.
* `CallSettles` (`host`): weak fairness of the library's next step and of the answers.
  The library sends its next command in the continuation of the reply before, which
  the promise queue runs; a step that finds no application fails, it does not wait.
* The termination of the loop of `transaction_parse` is stated without fairness:
  `LoopProgresses` says that every turn that stays in the loop takes bytes off the
  block, or leaves them and lowers a rank of the state.

Each property of a passing run has a mutant in `PROJECT.json`: a definition
changed as a plausible bug would change it, which TLC finds by that property. The
mutated forms stand next to the definitions they replace, under the word Mutant;
no specification uses them.

## 4. Findings

* `wrap` (`src/btchip_apdu_hash_input_finalize_full.c:66`): the sum of the input amounts
  is refused when it overflows, the carry of the sum of the outputs is ignored. Outputs
  whose sum wraps pass the test "Error : Fees not consistent", and the last screen
  shows fees. Such a transaction is not valid on the network.
* `more_ends` (same file, line 355): the last screen comes up as soon as no output remains,
  in a MORE block as well, but a MORE block returns before the authorization hash is computed,
  which only a LAST block stores (line 394), before the owner answers; a refusal does not wipe
  it and neither does a new session. So: B is reviewed up to its LAST block and refused; A,
  whose outputs all come in MORE blocks, is approved; a pass over B, as if it were the next input,
  matches at line 399 and becomes `SIGN_READY`. The comment at line 389 says "Check that the
  input being signed is part of the same transaction, otherwise abort". What holds is
  `SignReadyApproved`: after a review that a LAST block sealed, only what was approved is
  ready to be signed.
* `late_change` (same file, line 459): CHANGEINFO with an unusual path, sent after
  output data, sets the output parser back to the number of outputs; the bytes that
  follow are parsed as another list of outputs than the one that is hashed. The
  documentation says "This transaction can be verified by the user on screen". Under a
  host that names the path first the run `buffer` shows that what was on the screen is
  what is hashed (`ReviewIsHashed`).
* `parse_restart` (`src/btchip_transaction.c:135`): a NEXT block of `GET_TRUSTED_INPUT`
  in state `NONE` begins a transaction with the flag `trustedInputProcessed` of the one
  before, so that a trusted input may be issued for an output the transaction does not
  have. With requests that begin with a FIRST block, `TargetWasRead` holds (run `parse`,
  and a theorem).
* `amount_field` (`src/ui/ui_shared.h:82`): a field of twenty characters holds the name
  of the coin, a space, the amount and its end; an amount from a million coins on that
  has eight decimals needs more.
* `token_again` (`src/ui/ui_pubkey_bagl.c:117`): the documentation says the last
  token approved is saved and spares further validations; the code that would note
  the approval, `io_seproxyhal_touch_display_token_ok`, is called by nobody, so the
  owner is asked every time.

### Where properties speak of an order

Some properties are about passes in order, or about a review that a LAST block sealed,
because in the others the code does not keep them:

* `SignReadyApproved` and `ReviewedHashStored` ask for the LAST block (`sealed`, `marked`):
  see `more_ends`. `SignReadyReviewed` is the first without that condition.
* `BufferIsFresh` leaves out a transaction begun by a NEXT block in state `NONE` (`"next"`):
  `src/btchip_transaction.c:135` begins it without the parser reset of
  `src/btchip_apdu_hash_input_start.c:37`, so bytes of the review before may still wait.
* `ReviewCovered`, `FeesAddUp`, `OutputsCovered` and `OutputNumbering` are about passes in
  order (`disorder = {}`). A block that ends inside the number of outputs meets
  `remainingOutputs == 0` (line 347) before the number was read, and the last screen comes up
  with nothing shown; a path named late is the finding `late_change`; after `"next"` stale
  bytes are taken for the number of outputs; a LAST block that is early leaves the later
  blocks without a hash stored, and bytes behind the outputs are hashed without a screen.
  `SignReadyApproved`, `ReviewedHashStored` and the contract hold in all of these passes.
* `OutputBuffer`, byte by byte, has the number of outputs in one block and LAST on the block that
  ends them; it has late paths and NEXT blocks in state `NONE`.

Other places where the code does less than a reader of the documentation may expect,
all modelled as they are: the last byte of an input script is kept back and read with the
sequence number behind it, so these five bytes must arrive together, although
`doc/btc.asc` lets scripts be sent over several APDUs; `consumeP2SH` is decided by the last script alone; the tree of an input that is
not trusted is not hashed; the coin type is no part of the derivation guard, whose
limits are inclusive (100 and 50000); a BitID path is asked about like any other, where
`doc/btc.asc:322` says it signs without confirmation.

## 5. Proofs

All theorems hold for every set of transactions, paths, bytes and blocks, every
buffer size and every amount span that satisfy the named assumptions of the modules
(`SignTxAssumption`, `NoneIsNoContent`, `BlockAssumption`, `OutputBufferAssumption`,
`MessageAssumption`, `PubkeyAssumption`, `LifecycleAssumption`, `ParseAssumption`,
`FormatAssumption`, `StreamAssumption`, `WidthAssumption`, `SumsAssumption`, `KeyPathAssumption`,
`HashAssumption`, `AmountAssumption`, `BaseAssumption`); these ask for types, for `None` (`Erased`, `Torn`) to be no value, for
amounts below the span, for transactions of the format (used only
for transactions that arrive in order), and for a counter word that holds whole blocks with room for the
length in one. `KeyPathAssumption` asks for numbers of 31 bits and for the room the header
gives a path (`MAX_DERIV_PATH_ASCII_LENGTH`), `AmountAssumption` for a scratch with room for
the bits of an amount, at thirteen bits in four digits (64 bits and 21 digits in the code), `BaseAssumption` for two
bases of which the digits have the smaller one, and for a digit reserved per byte at least. `ParseAssumption` also says that the amount span, a power, is a positive
number: `^` has no meaning for the provers. TLC evaluates them in every run. A theorem that needs more says so with a
hypothesis of its own, of which there are five, none of them about the order in which a host sends
the commands of a signing session:

| Hypothesis | Why |
|---|---|
| `OutputsFit` | the outputs of a transaction add up to an amount of 64 bits; the device does not check it, see `wrap` in section 4 |
| `RestFits` | a block of the library fits beside what waits in `currentOutput`, less than an output: 50 bytes (`MAX_SCRIPT_BLOCK`), 200 in all (`MAX_OUTPUT_TO_CHECK`), so outputs of up to 150 bytes; with blocks as long as the buffer a payment of seven outputs in blocks of five units is refused on its third block |
| `Serialized` (in `OutputBufferProofs`) | the stream is a number and that many outputs, with nothing behind them |
| `RestartsWithFirst` | a request for a trusted input begins with a FIRST block, see `parse_restart` |
| `RoomHolds` (in `Base58Proofs`) | some number of bytes fits digits of which `Per / Of` per byte are no fewer: what an estimate of the size must grant, and without which digits are lost; `RoomOfTheCode` proves it of 138/100 for 256 and 58, where 8 bytes fit 11 digits |

The configurations of the passing runs satisfy all of them.

### The arguments

`SignTxProofs`, all of it for every host. `TypeInv` strengthens `TypeOK` with what the types need: while
inputs are parsed one is missing; past them the hash holds all inputs; a screen is up only
in a review. `TypeInvariance` proves it action by action, `TypeCorrect` follows.
`UnusualChangeIsWarned` needs that a change path and its acceptance never outlive the session
that warned about them (the reset in `MasterReset`), and that the screen of a path is up exactly
between the command and the answer. `BufferStaysFresh` is inductive with the empty buffer of a
transaction whose inputs are being parsed; a turn of the output parser only ever consumes, whatever
it takes the bytes for, so that the departures make no difference but for `"next"`.

`AuthorizationInv` is what makes the comparison at line 399 worth something. It says of the
three things that change at different moments, the stored hash, the approval and the content
that is ready, that after a sealed review the stored hash, if there is one, is that of the
approved content until another session begins, and that what is `SIGN_READY` then is the
approved content. No property of the review is needed, so it holds wherever the blocks end and
whatever the parser makes of them. `ReviewedHashIsStored` and `OnlyApprovedIsReady` are parts of
it. `SessionImplementsContract` needs the types alone: the initial state maps to the initial state
of `SigningContract` and every step to a step or a stutter, the last answer to `Approve`, a LAST
block to `Offer`.

`SigningInv` adds `ReviewInv`, which ties the four quantities of a review together as long as its
pass is in order: the bytes left in the buffer, the units hashed, the outputs still counted and the
outputs confirmed or hidden. `ReviewCovered` and `OutputNumbering` are not inductive
because they only speak of states with a screen, while the step that raises the
screen is computed from the state in between. A pass begins in order only at a FIRST block, whose
reset is what `ReviewInv` starts from, so that nothing need be known of the passes before.
From it follow `ReviewIsComplete` and `NumberingIsRight`. The invariants were model-checked
before they were proved.

Fees. `FeesInv` says in every state what the running sums are sums of:
`transactionAmount` of the trusted inputs parsed so far (`InputsSummed`),
`totalOutputAmount` of the outputs the parser is done with, modulo the span, and a
screen that ends the review shows their difference (`OutputsSummed`). It leans on
`ReviewInv` for which outputs those are. `FeesExactButCarry` is what the device
guarantees whatever the outputs; `FeesAreExact` and `OutputsAreCovered` add
`OutputsFit`, without which the run `wrap` refutes the second.

Calls of the host library. `HostInv` follows one call of `SigningHost`: past its first
command the device holds the transaction of the call, or nothing after a reset, and the
session counts as reviewed only if the user reviewed it in this call. That the library sends
a pass in order is not assumed but part of it (`OrderInv`): its pass has no departure, its last
block of outputs is marked, and what becomes ready is the whole transaction. With `SigningInv`
it gives `CallsSignWhatWasReviewed`, without a hypothesis. `CallsFailForReason` is about the other end of a call:
`CallReady` says, for each phase of a call that nobody interfered with and whose transaction
is `Payable`, that the device is in the state the next command needs. Its parts are the
inputs sent so far and a bound on their sum, which cannot overflow (`InputsReady`), a
change path not set before its command (`PathReady`), the outputs received, and that the
parser notes a change output only when it met one (`OutputsReady`, `ChangeSeen`), so that it
never takes the only change for a second. The fees come out consistent by `FeesInv`, and
the blocks fit by `RestFits`.

`OutputBufferProofs`. `BufferInv` adds to the types that an output on a screen is whole at
the head of the buffer (`ScreenInv`), that the bytes of the buffer are the last ones
hashed (`WaitingInv`), and where the parser is in the bytes hashed (`ParsedInv`): what was
hashed is the number of outputs, the outputs reviewed, and the bytes that wait. It is
proved for any bytes in any blocks; a host that names a change path late or goes on
after an error loses only the part that depends on its order. `BufferTypes` includes
that `currentOutput` never holds more than its size. From `ParsedInv` follows
`ReviewIsFirstHashed`: the last screen closes a list of well-formed outputs whose bytes
are a prefix of what was hashed. `ReviewShowsTheHashed` needs one fact about the format in
addition, proved in the same module: outputs are read in one way only, so that when a
host sends serialized outputs a prefix of complete outputs with the right number is all
of it.

`TransactionParseProofs`. `TransactionsKeepTheirMode` needs that between two commands the
state of the parser tells the mode it was reached in: states of outputs belong to
trusted inputs only. `TrustedOutputWasRead` assumes `RestartsWithFirst`; its invariant
is about all states of the output loop, where the property only speaks of the end.
`TheLoopEnds` is an action property with one step per turn of the loop: each takes at
least one byte, since a number of variable length and every fixed element have one, or
lowers the rank of the state. Its invariant `LoopInv` says that the block holds bytes, that a
length read from it is a natural number (by induction over the bytes of the number), and
that the history of the host names a transaction.

`TheDeviceKeepsItsWord` is the refinement of `TrustedInputContract`, again for a host that
starts with a FIRST block (`RestartsWithFirst`). The content of the contract is the content
of `transactionHashPrefix`, empty in the state `NONE`. A turn of the parser maps to
`Absorb` (what it hashes is appended, `ParseGrows`) or, if it fails, to `Forget`; commands
and resets map to `Forget` or to a stutter (`ReceiveForgets`), the end of the transaction to
`Issue`. That an issued amount is what the output pays needs to know where the parser is in
the bytes it hashed, although it never looks back at them: `ReadingInv` says so state by
state. While inputs are read, the hash is the version, the number of inputs and so many
inputs of fixed width, the scripts having gone to the other hash; while outputs are
read it ends where output number `transactionCurrentInputOutput` begins (`OutputAt`), or
inside the script of that output; and once the output asked for is processed, it is there
and pays `transactionAmount` (`TargetPaid`), and bytes that come later change neither
(`PaymentStays`). Where an output starts is a recursion over the bytes before it, shown
to exist first (`StartsExist`) and used by its equation (`NextAtIs`). From the same invariant
follows `VouchedOutputsWereThere`, which the run `parse_restart` refutes for a host that
may go on without a FIRST block. TLC checked `ReadingInv` on the instance of `parse` first.

The second half of `TransactionParseProofs` is what the parser is for. `TheInputsAreReadAsSent`: when a
transaction that arrived in order has its inputs read, both hashes, the total and the two
flags are those of that transaction. `TransactionsInOrderAreTaken`: a transaction in order,
in blocks that end where they may end, whose request can be met is not refused. Both assume
`RestartsWithFirst`, and hold for any transactions of the format, any number of inputs and
outputs, any ends of blocks, and whatever was lost, refused or abandoned before.

The parser keeps a state and three counters; a transaction is groups of elements, and no
relation between the two is written anywhere in the code. `Follows` is that relation: the
groups of the transaction are cut in two, and what lies between the groups already read and
what the host has sent so far is exactly the block. `FollowInv` says for each state which
groups are still ahead: the inputs after the current one and the end of the transaction
(`AtInput`), in addition the unread bytes of a script and the sequence number behind it
(`AtScript`), the outputs that are left (`AtOutput`, `AtOutputScript`), the lock time and
the extra bytes (`AtTail`, `AtExtra`). Beside it go the hashes of the inputs that were
read (`InputsHash`), the total (`InputsSum`: what was added and what is to come make up the
amounts of the transaction, so it overflows only if these do) and the flags
(`RelaxedUpto`, `ConsumeUpto`). `SentInv` joins them with what is known of the host:
an end of a block in order is among the ends of the groups, and between commands the block
is empty.

A turn of the parser then is one of two things. If the block is long enough, it takes
the next element and the groups ahead become fewer; the lemmas `...Follows` show it turn
by turn. They rest on what the format says of each element: its width, and for a variable
integer that its first byte tells its length and its bytes its value (`VarintTold`).
If the block is too short the turn fails, and that contradicts `grouped`: two ways to cut
the same groups, of which one ends inside an element (`TwoCuts`, `GroupsBegin`). So
the one invariant carries both theorems. The
code keeps the last byte of an input script back for `consumeP2SH`, so in `AtScript`
unread bytes are missing only if the script is empty. The lists are flattened by a recursion of
the community modules; `FlattenAppend`, `FlattenConcat` and `FlattenFew` in `Induction` are
the facts on it. TLC checked `SentInv` on the instance of `parse` before it was proved.

`MessageSigningProofs`. `MessageInv` says that a summary that holds a length is
that of the message being hashed (`PreparedInv`: no transaction command leaves a
length there), that a text that can be shown equals, so far, the hashed bytes
(`TextInv`), and that a message on the screen is still complete (`MessageScreenInv`).
`ScreenIsWhole` and `SignedAsAnnounced` are not inductive without the first two.
`MessagesImplementDevice` says that the application with its messages refines `DeviceSpec`, so that
all theorems about keys and the setup hold beside them; `BlindOnlyAsWanted` rests on it: the
screen of a hash is raised under the setting in memory, which `OwnerSettingsKept` makes the
owner's choice, and no step under a screen changes that choice.
The lemmas on `Written` and `Take` say what a block does to the buffer and to the
hashes; they are about all offsets and lengths.

`PubkeyExportProofs`. Life cycle: `LifeInv` says that `config_valid` vouches for a complete
configuration and that no write of the setup happens while it is set (`ConfigInv`),
which settings are the owner's in each phase (`SettingsInv`), and that nothing was
issued before the first configuration (`IssuedInv`). Cuts may come any number of
times, between any two writes. Exports: `ExportInv` ties the screen to the waiting
request: an address of an unusual path is up only after its warning, a token or export
screen only for a request without display, and a token counts as known only if it was
approved. `RestrictedKeysApproved` speaks of replies that were sent; what makes it
inductive is what holds of the request while it waits. `DeviceImplementsLifecycle` says
that the device with its exports refines `Lifecycle`, so that the theorems about the
setup hold for it as well.

`ComputationProofs`. `TotalsAreSums` and `FeesAreDifferences` are about the loops over bytes
of the addition and the subtraction, for amounts of any width in any base: `AddBeSums` and
`SubBeSubtracts` show, by induction over the bytes from the least significant on, that the
result and the carry (borrow) are those of the values; `SumsInv` carries it through the
sums of a transaction. `UsualPathsAreBip44` unfolds the derivation guard for every path:
what it lets pass without a warning has the five levels of BIP 44, hardened where they
must be, and its account, chain and index are within the limits.

`PathsAreShown` says that `bip32_print_path` prints every path of up to `MAX_BIP32_PATH`
levels whole and that its text gives the levels back. `PathInv` holds between two turns of
its loop: the text so far, read from the left, gives the levels printed so far (`Told`: the
function that `ReadBack` computes exists and ends there), it ends in a slash, and it has at
most twelve characters for each level. A turn appends the digits of a number (`DigitsTold`,
by induction over the digits: after the first i of them the reading stands at the number
without its other digits, `Part`, which the next digit carries on, `PartStep`), then the mark
and the slash. Ten digits are enough for 31 bits (`WidthIs`), and with the room the header
gives nothing is cut and the exception of `src/btchip_helpers.c:345` is never thrown; the
end of the text cuts the last slash. Powers of ten up to the width of a word are a table in
the model, and a number is a natural up to 2147483647, both in the form the provers can use.

`AmountsAreShown` says that the text of every amount gives it back to the last atom. The
digits come from 64 turns of the inner loop of `src/src/btchip_bcd.c`, and `SameAmount` holds
between two turns: the scratch holds the decimal digits of the bits read so far, the digits
before the window (`smin`) are zero, and the number is below the power of two of those bits.
A turn doubles (`BitShifted`): correcting and shifting a digit is doubling it modulo ten
with a carry from its right (`DigitDoubled`); the digits of the doubled reference are found
limb by limb and digit by digit (`LimbDoubled`, `DigitsDoubled`); a digit outside the window
needs no correction and no carry passes it by, since the window grows as soon as its first
digit carries (`ShiftDoubles`); and no carry leaves the first digit, because the number is
too small for that (`FirstIsSmall`: thirteen bits fit four digits). The fold over the bits of
a byte takes them in order (`ListShifted`), and the coins and decimals printed are found
again in the text around its one point (`TextParts`).

`HashIsOfTheMessage` says that `blake256_Final` leaves exactly the blocks and counters of
the padded message, for pieces of any lengths. Between two calls (`HashInv`) a context
holds the whole message (`Whole`): the blocks compressed are the first blocks of it and
each went in with the number of bytes up to its end (`Reads`), the bytes that wait follow
them (`InPlace`), and nothing is missing. `PieceRead` follows `blake256_Update` through its
three parts, the block that the buffer starts, the whole blocks and the rest; the loop
over whole blocks is a fold, shown to be defined before it is reasoned about. For the end
of a message the proof goes once through each branch of `blake256_Final` (`FinishOne`,
`FinishSame`, `FinishTwo`): padding is absorbed with the same function as the message, so
each write is again a piece of the padded message, while the counter runs behind by what
is taken from it before the write; `CounterIs` says that what it shows at each block is
what the definition asks for. The second word of the counter is not bounded in the model:
a message of 2^61 bytes is out of reach.

`Base58Proofs` is about inputs of every length. `DigitsAreTheBytes`: the number of a list of
digits is a function that `Counts` describes, one value for each prefix; the residues that the
property compares are remainders of it (`ResidueIs`), so equal numbers are equal modulo
anything. Between two bytes (`ByteHolds`) the digits have the number of the bytes read, and those
before `stopAt` are zero; inside a byte (`DigitHolds`) what the buffer holds, the carry at its
place, and what the digits still to be multiplied gain by it make up the new number. A turn
keeps that sum, and the early stop is right because what is then left unmultiplied is zero.
Nothing is carried off the front of the buffer, since the bytes read are too few for that: the number is below a
power of 256 (`CountsBelow`) and that is below the power of 58 the buffer holds
(`RoomEnough`, from `RoomHolds`: powers that compare go on to compare when both are raised).
Hence `stopAt` and `j` stay in the buffer: with that size the loop always ends at its `break`,
and no index wraps but that of the comparison with `stopAt - 1`.

`WhatIsEncodedIsDecoded` goes on from there with `CodeInv`. The text has the zeros and the number
of the bytes (`TextHolds`). Between two passes of the decoder (`PassHolds`) the digits that are
left, times the power of 256 of the bytes written, plus these bytes are that number, and both
the digits before `startAt` and the bytes before `j` are zero. A pass divides
(`DivisionDivides`, by induction over the digits, the fold being shown to exist first) and moves the
remainder over (`DecodePassKeeps`); the digit it starts at is always used up, because it
is below 58 and the divisor is 256, so that the passes are as many as the digits. At the end no digit is left; what
`btchip_decode_base58` cuts off in front leaves the zeros there were, and bytes with the
same number and the same zeros in front are the same (`SameBytes`).

### Induction over data

The induction theorems of the proof library take a predicate as a parameter, which the
installed provers cannot instantiate. `Induction` states what is needed with sets and
functions instead: a set of naturals that holds zero and every successor holds all
(`NaturalsIn`); a function given by recursion over the naturals, or by a fold over a
finite set, exists (`RecursionExists`, `SubsetRecursion`), and what holds of the empty
set and climbs element by element holds of all subsets (`SubsetInduction`). A recursive
function of the model, which is a `CHOOSE`, is then first shown to exist and afterwards
known only by its equation. The folds of the community modules are reached the same way,
through their definitions.

### Model-checked only

* `ReviewEnds` and `CallSettles`: liveness under fairness is out of the prover's reach.

## 6. Not modelled, and the plan

Not modelled:
* the version commands (constant replies), memory layout files and tables (no
  behaviour), drawing and wording of screens;
* the SDK: cryptography, IO, key derivation, `nvm_write` (assumed to do one byte whole);
* the compression function of BLAKE-256: rounds without control;
* the byte patterns of the script recognisers, each a comparison with a constant, and
  the composition of addresses from their parts;
* `btchip_secure_value.c`, a redundant coding against faults of the hardware;
* of the host library: obtaining trusted inputs and splitting a serialized transaction.

Every safety property that a passing run checks is also a theorem. What is left to prove
are the two liveness properties named in section 5, which need another prover.
