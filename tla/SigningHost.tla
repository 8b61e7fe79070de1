----------------------------- MODULE SigningHost -----------------------------
(***************************************************************************)
(* The host library (js/ledger-btc.js) driving the device: the promise     *)
(* chains of createPaymentTransactionNew_async and signP2SHTransaction_    *)
(* async, composed with the signing session of SignTx.  For every input    *)
(* the library sends the whole transaction again (HASH_INPUT_START), the   *)
(* change path if it has one, the outputs in blocks, and asks for the      *)
(* signature; the user reviews the transaction once, for the first input.  *)
(*                                                                         *)
(* One command is one step of the host joined with the handler of SignTx   *)
(* that serves it.  A command that raises a screen is answered when the    *)
(* user is done with it.  The trusted inputs are taken as given.           *)
(***************************************************************************)
EXTENDS SignTx, FiniteSetsExt

CONSTANT
  BlockUnits        \* MAX_SCRIPT_BLOCK: units of outputs in a block

\* 50 bytes: more than the number of outputs (a varint of at most 9), less than
\* the 200 of MAX_OUTPUT_TO_CHECK.
ASSUME BlockAssumption ==
  BlockUnits \in Nat \ {0} /\ CountUnits <= BlockUnits /\ BlockUnits <= BufferUnits

VARIABLES
  tx, changePath,   \* the arguments of the call
  pc,               \* what the chain does next
  sentInputs,       \* inputs of the transaction sent in this round
  offset,           \* units of the outputs sent in this round
  signatures,       \* what the device signed, one per round
  reviews,          \* history: reviews the user passed in this call
  trouble           \* history: a refusal, a reset, a lock, or no application at first

call == <<tx, changePath>>
host == <<call, pc, sentInputs, offset, signatures, reviews, trouble>>
hostVars == <<vars, host>>

firstRun == signatures = <<>>
Settled == pc \in {"resolved", "rejected"}

HostInit ==
  /\ Init
  /\ tx \in Txs /\ changePath \in Paths \cup {None}
  /\ pc = "start" /\ sentInputs = 0 /\ offset = 0
  /\ signatures = <<>> /\ reviews = 0 /\ trouble = FALSE

-----------------------------------------------------------------------------
\* Mutant: the promise of a failed exchange is left pending.
FailureForgotten == "pending"

\* Every fail(...) of the chains rejects the promise of the call.
Failure == "rejected"

\* Mutant: the session of the call before is continued.
OpensNever == FALSE

\* newTransaction: only the first round opens a session.
OpensSession == firstRun

\* startUntrustedHashTransactionInput_async: the version and the number of inputs.
SendStart ==
  /\ pc = "start"
  /\ \/ /\ StartFirst(OpensSession, tx)
        /\ pc' = IF tx.inputs = <<>> THEN "change" ELSE "inputs"
        /\ UNCHANGED trouble
     \/ /\ firstRun
        /\ ~firstSigned                        \* the PIN is asked for
        /\ StartFirstRefused(TRUE)
        /\ pc' = Failure
        /\ trouble' = TRUE
  /\ sentInputs' = 0 /\ offset' = 0
  /\ UNCHANGED <<call, signatures, reviews>>

\* One input with its script and its sequence: the library sends its header and
\* its script in several blocks, which the parser takes in turn (TransactionParse).
SendInput ==
  /\ pc = "inputs"
  /\ \/ StartNext
     \/ parseMode # "SIGNATURE" /\ StartNextRefused
  /\ pc' = IF transactionState' = "NONE" THEN Failure
           ELSE IF sentInputs + 1 = Len(tx.inputs) THEN "change" ELSE "inputs"
  /\ sentInputs' = sentInputs + 1
  /\ UNCHANGED <<call, offset, signatures, reviews, trouble>>

\* "Already validated, should be prevented on the client side"
ChangePathIgnored ==
  /\ Listening
  /\ transactionState = "PRESIGN_READY" /\ ~firstSigned
  /\ UNCHANGED vars

NoCommand == changePath = None /\ Listening /\ UNCHANGED vars

\* provideOutputFullChangePath_async, in every round.
SendChangePath ==
  /\ pc = "change"
  /\ \/ NoCommand
     \/ changePath # None /\ (SetChangePath(changePath) \/ ChangePathIgnored \/ FinalizeOutOfState)
  /\ pc' = IF transactionState' = "NONE" THEN Failure
           ELSE IF screen' # NoScreen THEN "pending" ELSE "outputs"
  /\ UNCHANGED <<call, sentInputs, offset, signatures, reviews, trouble>>

\* Mutant: the blocks are as long as a command may be.
BlockSizeOfCommand(left) == Min({BufferUnits + 1, left})

BlockSize(left) == Min({BlockUnits, left})

\* hashOutputFull_async
SendOutputs ==
  /\ pc = "outputs"
  /\ LET n == BlockSize(StreamUnits(tx) - offset)
         last == offset + n = StreamUnits(tx)       \* p1: the block that ends the outputs
     IN  /\ \/ FinalizeFirst(last, n)
            \/ FinalizeNext(last, n)
            \/ FinalizeOutOfState
         /\ offset' = offset + n
         /\ pc' = IF transactionState' = "NONE" THEN Failure
                  ELSE IF screen' # NoScreen THEN "pending"
                  ELSE IF offset + n = StreamUnits(tx) THEN "sign" ELSE "outputs"
  /\ UNCHANGED <<call, sentInputs, signatures, reviews, trouble>>

\* signTransaction_async, and the next round.
SendSign ==
  /\ pc = "sign"
  /\ \/ /\ Sign
        /\ signatures' = Append(signatures, hashed)
        /\ pc' = IF Len(signatures) + 1 = Len(tx.inputs) THEN "resolved" ELSE "start"
     \/ /\ transactionState # "SIGN_READY"
        /\ SignRefused
        /\ pc' = Failure
        /\ UNCHANGED signatures
  /\ UNCHANGED <<call, sentInputs, offset, reviews, trouble>>

\* The exchange fails while no application listens.
SendFails ==
  /\ ~up /\ ~Settled /\ pc # "pending"
  /\ pc' = Failure
  /\ UNCHANGED <<vars, call, sentInputs, offset, signatures, reviews, trouble>>

\* The next call of the application that uses the library, perhaps while no
\* application listens; the histories of the device start anew with it.
NextCall ==
  /\ Settled
  /\ tx' \in Txs /\ changePath' \in Paths \cup {None}
  /\ pc' = "start" /\ sentInputs' = 0 /\ offset' = 0
  /\ signatures' = <<>> /\ reviews' = 0 /\ trouble' = ~up
  /\ warned' = {} /\ signed' = {}
  /\ UNCHANGED <<transactionState, parseMode, flags, hashed, parser, change,
                 authorizationHash, screen, up, pass, approved, sealed>>

HostStep ==
  SendStart \/ SendInput \/ SendChangePath \/ SendOutputs \/ SendSign \/ SendFails

\* The user's last answer sends the reply of the command that waits for it.
Answer ==
  /\ UserAnswers
  /\ pc' = IF screen' # NoScreen THEN "pending"
           ELSE IF transactionState' = "NONE" \/ ~up' THEN Failure
           ELSE IF offset = StreamUnits(tx) THEN "sign" ELSE "outputs"
  /\ reviews' = IF firstSigned' # firstSigned THEN reviews + 1 ELSE reviews
  /\ trouble' = (trouble \/ RejectChangePath \/ RejectTransaction)
  /\ UNCHANGED <<call, sentInputs, offset, signatures>>

\* A reset loses the reply that is due; otherwise the host notices later.
Reset ==
  /\ IoReset
  /\ trouble' = TRUE
  /\ pc' = IF pc = "pending" THEN Failure ELSE pc
  /\ UNCHANGED <<call, sentInputs, offset, signatures, reviews>>

Relaunch == Launch /\ UNCHANGED host

HostNext == HostStep \/ NextCall \/ Answer \/ Reset \/ Relaunch

\* The library sends its next command as soon as it has the reply to the one
\* before, and the user answers every screen.
HostSpec == HostInit /\ [][HostNext]_hostVars /\ WF_hostVars(HostStep) /\ WF_hostVars(Answer)

-----------------------------------------------------------------------------
\* Every signature of a call is over the whole transaction the library was
\* called with, and the user reviewed that transaction in this call, once,
\* however many inputs it has and whatever the calls before left in the device
\* (btchip_apdu_hash_input_finalize_full.c:362).
SignedAsReviewed ==
  /\ \A k \in DOMAIN signatures : signatures[k] = WholeTx(tx)
  /\ signatures # <<>> => reviews = 1
  /\ reviews <= 1

\* A transaction the device can show: every output is of a known kind, at most
\* one is change, and the outputs are covered where the inputs are known.
Amount(f) == SumFunction([i \in DOMAIN f |-> f[i].amount])

Payable ==
  /\ Amount(tx.inputs) < AmountSpan
  /\ \A i \in DOMAIN tx.outputs : Recognised(tx.outputs[i])
  /\ Cardinality({i \in DOMAIN tx.outputs : tx.outputs[i].script = changePath}) <= 1
  /\ \/ \E i \in DOMAIN tx.inputs : ~tx.inputs[i].trusted
     \/ Amount(tx.outputs) <= Amount(tx.inputs)

\* A call fails for a reason: the library's blocks, wherever they cut the
\* outputs, never make the device refuse a transaction it can show.
RejectedForReason == pc = "rejected" => trouble \/ ~Payable

\* Every call settles: its promise is resolved or rejected.
CallSettles == pc = "start" ~> Settled
=============================================================================
