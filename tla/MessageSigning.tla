--------------------------- MODULE MessageSigning ---------------------------
(***************************************************************************)
(* SIGN_MESSAGE: a message is prepared in blocks (P1 = 00, first and next),*)
(* then a command (P1 = 80) shows it and the user's answer signs it.  The  *)
(* path and the length of the message live in transactionSummary, which    *)
(* HASH_INPUT_FINALIZE_FULL wipes and rewrites for its own purposes; the   *)
(* text lives in messageBuffer, filled block by block as long as every     *)
(* byte can be shown.                                                      *)
(*                                                                         *)
(* A message is a sequence of bytes.  The hash to be signed covers a header*)
(* with the declared length, then the bytes (messageHashPrefix); the hash  *)
(* that is shown covers the bytes alone (messageHashWitness).              *)
(*                                                                         *)
(* The command is served beside GET_WALLET_PUBLIC_KEY (PubkeyExport), in   *)
(* the life of the application (Lifecycle) that the blind-signing setting  *)
(* outlives: one screen is up at a time, and a reset, an exit or a power   *)
(* cut loses the message.                                                  *)
(***************************************************************************)
EXTENDS PubkeyExport, Integers, Sequences

CONSTANTS
  Bytes,            \* the bytes a message is made of
  Printable,        \* those that can be shown
  Lengths,          \* lengths a host may declare
  Chunks,           \* blocks of a message a host may send
  MaxDisplayable    \* MAX_DISPLAYABLE_MESSAGE_LENGTH

MessageAssumption ==
  /\ Printable \subseteq Bytes
  /\ Lengths \subseteq Nat
  /\ Chunks \subseteq Seq(Bytes)
  /\ MaxDisplayable \in Nat
  /\ None \notin Bytes
  /\ None \notin [path : Paths, length : Lengths]

ASSUME MessageAssumption

VARIABLES
  keyPath,              \* transactionSummary.summarydata.keyPath
  messageLength,        \* transactionSummary.messageLength
  hashedMessageLength,  \* bytes hashed so far
  messageHashPrefix,    \* content of the hash to be signed
  messageHashWitness,   \* content of the hash to be shown
  messageBuffer,        \* the text, None where nothing was written
  messageDisplayable,   \* every byte so far can be shown
  messageScreen,        \* the screen waiting for an answer
  claim,                \* history: what the last first block announced
  signature             \* history: the last signature

summary == <<keyPath, messageLength>>
hashes == <<messageHashPrefix, messageHashWitness>>
text == <<messageBuffer, messageDisplayable>>
messageHistory == <<claim, signature>>
messageVars == <<summary, hashedMessageLength, hashes, text, messageScreen, messageHistory>>

Prefixes == [length : Lengths \cup {0}, bytes : Seq(Bytes)]
Claims == [path : Paths, length : Lengths]
Buffers == [1..MaxDisplayable -> Bytes \cup {None}]
MessageScreens == [kind : {"text", "hash"}, content : Seq(Bytes \cup {None})]
Signatures == [path : Paths, content : Prefixes, shown : MessageScreens, claim : Claims]

NoScreen == [kind |-> "none"]
NoPrefix == [length |-> 0, bytes |-> <<>>]     \* a hash context used up or wiped
EmptyBuffer == [i \in 1..MaxDisplayable |-> None]

MessageTypeOK ==
  /\ keyPath \in Paths \cup {None}
  /\ messageLength \in Lengths \cup {0}
  /\ hashedMessageLength \in Nat
  /\ messageHashPrefix \in Prefixes
  /\ messageHashWitness \in Seq(Bytes)
  /\ messageBuffer \in Buffers
  /\ messageDisplayable \in BOOLEAN
  /\ messageScreen \in MessageScreens \cup {NoScreen}
  /\ claim \in Claims \cup {None}
  /\ signature \in Signatures \cup {None}

MessageInit ==
  /\ DeviceInit
  /\ keyPath = None /\ messageLength = 0
  /\ hashedMessageLength = 0
  /\ messageHashPrefix = NoPrefix /\ messageHashWitness = <<>>
  /\ messageBuffer = EmptyBuffer /\ messageDisplayable = FALSE
  /\ messageScreen = NoScreen
  /\ claim = None /\ signature = None

-----------------------------------------------------------------------------
AllPrintable(chunk) == \A i \in DOMAIN chunk : chunk[i] \in Printable

\* Mutant: only the last byte of a block is looked at.
ShowsLast(displayable, chunk) ==
  displayable /\ (chunk # <<>> => chunk[Len(chunk)] \in Printable)

\* buffer_message_chunk: one byte that cannot be shown spoils the message.
StillDisplayable(displayable, chunk) == displayable /\ AllPrintable(chunk)

Written(buffer, offset, chunk) ==
  [i \in DOMAIN buffer |->
     IF i - offset \in DOMAIN chunk THEN chunk[i - offset] ELSE buffer[i]]

\* The blocks of a message share their tail: hash, buffer, count.
Take(displayable, offset, prefix, witness, chunk) ==
  /\ messageHashPrefix' = [prefix EXCEPT !.bytes = @ \o chunk]
  /\ messageHashWitness' = witness \o chunk
  /\ messageDisplayable' = StillDisplayable(displayable, chunk)
  /\ messageBuffer' = IF messageDisplayable' THEN Written(messageBuffer, offset, chunk)
                                             ELSE messageBuffer
  /\ hashedMessageLength' = offset + Len(chunk)

\* transactionSummary is wiped.
SummaryWiped == keyPath' = None /\ messageLength' = 0

TextWiped == messageBuffer' = EmptyBuffer /\ messageDisplayable' = FALSE

\* Every error of the command.
Discard == SummaryWiped /\ TextWiped

Idle == Serves /\ messageScreen = NoScreen

\* Mutant: a message of any length is buffered.
AlwaysFits(length) == TRUE

\* Only a message that fits messageBuffer is kept to be shown.
Fits(length) == length <= MaxDisplayable

\* The first block, whose declared length must be positive and not below what
\* the block brings.  A block too long is refused after the hashes started.
PrepareFirst(path, length, chunk) ==
  /\ Idle
  /\ length # 0 /\ Len(chunk) <= length
  /\ keyPath' = path /\ messageLength' = length
  /\ Take(Fits(length), 0, [length |-> length, bytes |-> <<>>], <<>>, chunk)
  /\ claim' = [path |-> path, length |-> length]
  /\ UNCHANGED <<messageScreen, signature>>

PrepareFirstTooLong(length, chunk) ==
  /\ Idle
  /\ length # 0 /\ Len(chunk) > length
  /\ Discard
  /\ hashedMessageLength' = 0
  /\ messageHashPrefix' = [length |-> length, bytes |-> <<>>]
  /\ messageHashWitness' = <<>>
  /\ claim' = None
  /\ UNCHANGED <<messageScreen, signature>>

\* A path too long, a block too short, no length.
PrepareFirstMalformed ==
  /\ Idle
  /\ Discard
  /\ claim' = None
  /\ UNCHANGED <<hashedMessageLength, hashes, messageScreen, signature>>

PrepareNext(chunk) ==
  /\ Idle
  /\ chunk # <<>>                            \* the dispatcher refuses an empty block
  /\ \/ /\ hashedMessageLength + Len(chunk) > messageLength
        /\ Discard
        /\ claim' = None
        /\ UNCHANGED <<hashedMessageLength, hashes>>
     \/ /\ hashedMessageLength + Len(chunk) <= messageLength
        /\ Take(messageDisplayable, hashedMessageLength, messageHashPrefix,
                messageHashWitness, chunk)
        /\ UNCHANGED <<summary, claim>>
  /\ UNCHANGED <<messageScreen, signature>>

-----------------------------------------------------------------------------
\* Mutant: the setting is not looked at.
BlindAllowedAlways == TRUE

Complete == messageLength # 0 /\ hashedMessageLength = messageLength
BlindAllowed == blindSigning

ShownMessage ==
  IF messageDisplayable
    THEN [kind |-> "text", content |-> SubSeq(messageBuffer, 1, messageLength)]
    ELSE [kind |-> "hash", content |-> messageHashWitness]

\* P1 = 80: the message is shown, in full or by its hash.
AskSignature ==
  /\ Idle
  /\ IF Complete /\ (messageDisplayable \/ BlindAllowed)
       THEN /\ messageScreen' = ShownMessage
            /\ UNCHANGED <<summary, text, claim>>
       ELSE /\ Discard
            /\ claim' = None
            /\ UNCHANGED messageScreen
  /\ UNCHANGED <<hashedMessageLength, hashes, signature>>

\* btchip_compute_hash signs with the path of the summary, or fails; either
\* way the message is used up.
AcceptMessage ==
  /\ messageScreen # NoScreen
  /\ \/ signature' = [path |-> keyPath, content |-> messageHashPrefix,
                      shown |-> messageScreen, claim |-> claim]
     \/ UNCHANGED signature
  /\ messageHashPrefix' = NoPrefix
  /\ Discard
  /\ claim' = None
  /\ messageScreen' = NoScreen
  /\ UNCHANGED <<hashedMessageLength, messageHashWitness>>

RejectMessage ==
  /\ messageScreen # NoScreen
  /\ Discard
  /\ hashedMessageLength' = 0
  /\ messageHashPrefix' = NoPrefix /\ messageHashWitness' = <<>>
  /\ claim' = None
  /\ messageScreen' = NoScreen
  /\ UNCHANGED signature

-----------------------------------------------------------------------------
\* Mutant: CHANGEINFO writes its path over the one of the message.
ChangeInfoOverwrites(path) == keyPath' = path /\ UNCHANGED messageLength

\* CHANGEINFO of HASH_INPUT_FINALIZE_FULL: the summary is wiped, then the
\* path of the change is written into the same field.
ChangeInfoSummary(path) == keyPath' = path /\ messageLength' = 0

ChangeInfo(path) ==
  /\ Idle
  /\ ChangeInfoSummary(path)
  /\ UNCHANGED <<hashedMessageLength, hashes, text, messageScreen, messageHistory>>

\* LAST of a first pass: the summary is wiped unless a change path was given.
FinalizeLast ==
  /\ Idle
  /\ SummaryWiped
  /\ UNCHANGED <<hashedMessageLength, hashes, text, messageScreen, messageHistory>>

\* RAM after btchip_context_init, or after the power was gone.
MessageWiped ==
  /\ Discard
  /\ hashedMessageLength' = 0
  /\ messageHashPrefix' = NoPrefix /\ messageHashWitness' = <<>>
  /\ claim' = None
  /\ messageScreen' = NoScreen
  /\ UNCHANGED signature

Prepare ==
  \/ \E path \in Paths, length \in Lengths, chunk \in Chunks : PrepareFirst(path, length, chunk)
  \/ \E length \in Lengths, chunk \in Chunks : PrepareFirstTooLong(length, chunk)
  \/ PrepareFirstMalformed
  \/ \E chunk \in Chunks : PrepareNext(chunk)

TransactionCommands == FinalizeLast \/ \E path \in Paths \cup {None} : ChangeInfo(path)

SignMessage ==
  /\ Prepare \/ AskSignature \/ AcceptMessage \/ RejectMessage \/ TransactionCommands
  /\ UNCHANGED deviceVars

\* The other commands, their screens and the main menu: never under a screen of
\* this one.
OtherCommands ==
  /\ messageScreen = NoScreen
  /\ Uninterrupted
  /\ UNCHANGED messageVars

MessageNext == SignMessage \/ OtherCommands \/ (Interrupted /\ MessageWiped)

MessageSpec == MessageInit /\ [][MessageNext]_<<deviceVars, messageVars>>

-----------------------------------------------------------------------------
\* Properties.

\* The screen that asks for a signature shows a message that is complete, all
\* of it: as text only if every byte of it can be shown, else by the hash of
\* the very bytes that will be signed.  Blocks, errors and transaction
\* commands in between make no difference.
ScreenIsWhole ==
  messageScreen # NoScreen =>
    /\ messageScreen.content = messageHashPrefix.bytes
    /\ Len(messageScreen.content) = messageHashPrefix.length
    /\ messageScreen.kind = "text" => AllPrintable(messageScreen.content)

\* A signature is made with the path and over the length that the host
\* announced in the first block of that very message, over the bytes that
\* were shown, and once: the next one needs a new first block.
SignedAsAnnounced ==
  signature # None =>
    /\ signature.claim # None
    /\ signature.path = signature.claim.path
    /\ signature.content.length = signature.claim.length
    /\ signature.content.bytes = signature.shown.content

\* What is written to messageBuffer stays inside it.
BufferBound == messageDisplayable => hashedMessageLength <= MaxDisplayable

\* A message that cannot be shown in full is put to the user only while the
\* owner's latest choice allows it: no setup, cut, reset or menu after that
\* choice, and no message prepared before it, brings up the screen of a hash.
HashScreenWanted ==
  messageScreen # NoScreen /\ messageScreen.kind = "hash" => wantBlind
=============================================================================
