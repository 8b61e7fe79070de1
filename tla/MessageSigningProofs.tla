------------------------ MODULE MessageSigningProofs ------------------------
(***************************************************************************)
(* Proofs about MessageSigning, for every alphabet, every set of blocks and*)
(* paths, and every size of messageBuffer.  The last takes over what       *)
(* PubkeyExportProofs says of the settings.                                *)
(***************************************************************************)
EXTENDS MessageSigning, PubkeyExportProofs

\* A summary that holds a length is that of the message being hashed: nobody
\* else leaves a length there.
PreparedInv ==
  messageLength # 0 =>
    /\ claim \in Claims
    /\ claim.path = keyPath /\ claim.length = messageLength
    /\ messageHashPrefix.length = messageLength
    /\ messageHashPrefix.bytes = messageHashWitness
    /\ Len(messageHashWitness) = hashedMessageLength
    /\ hashedMessageLength <= messageLength

\* A text that can be shown is, so far, the bytes that were hashed.
TextInv ==
  messageDisplayable =>
    /\ hashedMessageLength <= MaxDisplayable
    /\ messageLength # 0 =>
         /\ messageLength <= MaxDisplayable
         /\ \A i \in 1..hashedMessageLength :
              /\ messageBuffer[i] = messageHashWitness[i]
              /\ messageHashWitness[i] \in Printable

\* While a screen waits, the message it was made from is still there, complete.
MessageScreenInv ==
  messageScreen # NoScreen =>
    /\ messageLength # 0
    /\ hashedMessageLength = messageLength
    /\ messageScreen = ShownMessage

MessageInv == MessageTypeOK /\ PreparedInv /\ TextInv /\ MessageScreenInv /\ SignedAsAnnounced

-----------------------------------------------------------------------------
\* The parts of the assumption on the constants, one by one.
LEMMA Constants ==
  /\ Printable \subseteq Bytes
  /\ Lengths \subseteq Nat /\ Chunks \subseteq Seq(Bytes)
  /\ MaxDisplayable \in Nat
  /\ None \notin Paths /\ None \notin Bytes /\ None \notin Claims
  BY MessageAssumption, PubkeyAssumption DEF MessageAssumption, PubkeyAssumption, Claims

\* Writing a block into the buffer keeps its type and what came before, and
\* puts the block where it was to go.
LEMMA WrittenProperties ==
  ASSUME NEW buffer \in Buffers, NEW offset \in Nat, NEW chunk \in Seq(Bytes)
  PROVE  /\ Written(buffer, offset, chunk) \in Buffers
         /\ \A i \in 1..MaxDisplayable :
              i <= offset => Written(buffer, offset, chunk)[i] = buffer[i]
         /\ \A i \in 1..MaxDisplayable :
              offset < i /\ i <= offset + Len(chunk) =>
                Written(buffer, offset, chunk)[i] = chunk[i - offset]
  <1>1. DOMAIN buffer = 1..MaxDisplayable /\ DOMAIN chunk = 1..Len(chunk) /\ Len(chunk) \in Nat
    BY DEF Buffers
  <1>2. \A i \in 1..MaxDisplayable :
          Written(buffer, offset, chunk)[i] =
            IF i - offset \in 1..Len(chunk) THEN chunk[i - offset] ELSE buffer[i]
    BY <1>1 DEF Written
  <1>3. \A i \in 1..MaxDisplayable : Written(buffer, offset, chunk)[i] \in Bytes \cup {None}
    <2> TAKE i \in 1..MaxDisplayable
    <2>1. CASE i - offset \in 1..Len(chunk)
      <3>1. chunk[i - offset] \in Bytes
        BY <2>1, <1>1
      <3>2. QED
        BY <2>1, <3>1, <1>2
    <2>2. CASE i - offset \notin 1..Len(chunk)
      BY <2>2, <1>2 DEF Buffers
    <2>3. QED
      BY <2>1, <2>2
  <1>4. Written(buffer, offset, chunk) \in Buffers
    BY <1>1, <1>3 DEF Written, Buffers
  <1>5. QED
    BY <1>1, <1>2, <1>4, Constants

\* What is shown is the message, whole, and as text only if it can be.
LEMMA ShownIsWhole ==
  ASSUME MessageInv, messageScreen # NoScreen
  PROVE  /\ messageScreen \in MessageScreens
         /\ messageScreen.content = messageHashPrefix.bytes
         /\ Len(messageScreen.content) = messageHashPrefix.length
         /\ messageScreen.kind = "text" => AllPrintable(messageScreen.content)
  <1>1. /\ messageLength # 0 /\ hashedMessageLength = messageLength
        /\ messageScreen = ShownMessage
    BY DEF MessageInv, MessageScreenInv
  <1>2. /\ messageHashPrefix.length = messageLength
        /\ messageHashPrefix.bytes = messageHashWitness
        /\ Len(messageHashWitness) = messageLength
    BY <1>1 DEF MessageInv, PreparedInv
  <1>3. messageHashWitness \in Seq(Bytes) /\ messageLength \in Nat
    BY Constants DEF MessageInv, MessageTypeOK
  <1>4. messageScreen \in MessageScreens
    BY DEF MessageInv, MessageTypeOK
  <1>5. CASE messageDisplayable
    <2>1. /\ messageLength <= MaxDisplayable
          /\ \A i \in 1..messageLength : /\ messageBuffer[i] = messageHashWitness[i]
                                         /\ messageHashWitness[i] \in Printable
      BY <1>1, <1>5 DEF MessageInv, TextInv
    <2>2. messageBuffer \in Seq(Bytes \cup {None}) /\ Len(messageBuffer) = MaxDisplayable
      BY Constants DEF MessageInv, MessageTypeOK, Buffers
    <2>3. /\ messageScreen.kind = "text"
          /\ messageScreen.content = SubSeq(messageBuffer, 1, messageLength)
      BY <1>1, <1>5 DEF ShownMessage
    <2>4. /\ DOMAIN messageScreen.content = 1..messageLength
          /\ \A i \in 1..messageLength : messageScreen.content[i] = messageBuffer[i]
          /\ Len(messageScreen.content) = messageLength
      BY <2>1, <2>2, <2>3, <1>3, Constants
    <2>5. messageScreen.content \in Seq(Bytes \cup {None})
      BY <1>4, <2>3 DEF MessageScreens
    <2>6. messageScreen.content = messageHashWitness
      BY <2>1, <2>4, <2>5, <1>2, <1>3
    <2>7. QED
      BY <1>2, <1>4, <2>1, <2>4, <2>6 DEF AllPrintable
  <1>6. CASE ~messageDisplayable
    BY <1>1, <1>2, <1>4, <1>6 DEF ShownMessage
  <1>7. QED
    BY <1>5, <1>6

-----------------------------------------------------------------------------
\* The tail of a block: the hashes grow by the block, and a buffer that held
\* what was hashed so far still does.
LEMMA TakeProperties ==
  ASSUME MessageTypeOK, NEW displayable \in BOOLEAN, NEW offset \in Nat,
         NEW prefix \in Prefixes, NEW witness \in Seq(Bytes), NEW chunk \in Seq(Bytes),
         Take(displayable, offset, prefix, witness, chunk)
  PROVE  /\ messageHashPrefix' \in Prefixes
         /\ messageHashPrefix'.length = prefix.length
         /\ messageHashPrefix'.bytes = prefix.bytes \o chunk
         /\ messageHashWitness' \in Seq(Bytes)
         /\ messageHashWitness' = witness \o chunk
         /\ Len(messageHashWitness') = Len(witness) + Len(chunk)
         /\ messageBuffer' \in Buffers
         /\ messageDisplayable' \in BOOLEAN
         /\ messageDisplayable' => displayable
         /\ hashedMessageLength' \in Nat
         /\ hashedMessageLength' = offset + Len(chunk)
  <1>1. /\ messageHashPrefix' = [prefix EXCEPT !.bytes = prefix.bytes \o chunk]
        /\ messageHashWitness' = witness \o chunk
        /\ messageDisplayable' = StillDisplayable(displayable, chunk)
        /\ messageBuffer' = IF messageDisplayable' THEN Written(messageBuffer, offset, chunk)
                                                   ELSE messageBuffer
        /\ hashedMessageLength' = offset + Len(chunk)
    BY DEF Take
  <1>2. prefix.bytes \o chunk \in Seq(Bytes) /\ prefix.length \in Lengths \cup {0}
    BY DEF Prefixes
  <1>3. /\ messageHashPrefix' \in Prefixes
        /\ messageHashPrefix'.length = prefix.length
        /\ messageHashPrefix'.bytes = prefix.bytes \o chunk
    BY <1>1, <1>2 DEF Prefixes
  <1>4. messageBuffer' \in Buffers
    BY <1>1, WrittenProperties DEF MessageTypeOK
  <1>5. messageDisplayable' \in BOOLEAN /\ (messageDisplayable' => displayable)
    BY <1>1 DEF StillDisplayable
  <1>6. Len(chunk) \in Nat /\ Len(witness \o chunk) = Len(witness) + Len(chunk)
        /\ witness \o chunk \in Seq(Bytes)
    OBVIOUS
  <1>7. QED
    BY <1>1, <1>3, <1>4, <1>5, <1>6

\* What the buffer holds after a block is what was hashed, all of it printable.
LEMMA TakeText ==
  ASSUME MessageTypeOK, NEW displayable \in BOOLEAN, NEW offset \in Nat,
         NEW prefix \in Prefixes, NEW witness \in Seq(Bytes), NEW chunk \in Seq(Bytes),
         Take(displayable, offset, prefix, witness, chunk),
         Len(witness) = offset, offset + Len(chunk) <= MaxDisplayable,
         messageDisplayable',
         \A i \in 1..offset : messageBuffer[i] = witness[i] /\ witness[i] \in Printable
  PROVE  \A i \in 1..hashedMessageLength' :
           /\ messageBuffer'[i] = messageHashWitness'[i]
           /\ messageHashWitness'[i] \in Printable
  <1>1. /\ messageHashWitness' = witness \o chunk
        /\ AllPrintable(chunk)
        /\ messageBuffer' = Written(messageBuffer, offset, chunk)
        /\ hashedMessageLength' = offset + Len(chunk)
    BY DEF Take, StillDisplayable
  <1>2. /\ messageBuffer \in Buffers /\ Len(chunk) \in Nat /\ MaxDisplayable \in Nat
        /\ DOMAIN chunk = 1..Len(chunk)
    BY Constants DEF MessageTypeOK
  <1> SUFFICES ASSUME NEW i \in 1..(offset + Len(chunk))
               PROVE  /\ messageBuffer'[i] = (witness \o chunk)[i]
                      /\ (witness \o chunk)[i] \in Printable
    BY <1>1
  <1>3. i \in 1..MaxDisplayable /\ i \in Int
    BY <1>2
  <1>4. CASE i <= offset
    <2>1. (witness \o chunk)[i] = witness[i]
      BY <1>4, <1>3
    <2>2. messageBuffer'[i] = messageBuffer[i]
      BY <1>1, <1>2, <1>3, <1>4, WrittenProperties
    <2>3. QED
      BY <2>1, <2>2, <1>4, <1>3
  <1>5. CASE i > offset
    <2>1. (witness \o chunk)[i] = chunk[i - offset] /\ i - offset \in DOMAIN chunk
      BY <1>5, <1>3, <1>2
    <2>2. messageBuffer'[i] = chunk[i - offset]
      <3>1. offset < i /\ i <= offset + Len(chunk)
        BY <1>5, <1>3
      <3>2. QED
        BY <3>1, <1>1, <1>2, <1>3, WrittenProperties
    <2>3. chunk[i - offset] \in Printable
      BY <1>1, <2>1 DEF AllPrintable
    <2>4. QED
      BY <2>1, <2>2, <2>3
  <1>6. QED
    BY <1>3, <1>4, <1>5

-----------------------------------------------------------------------------
\* Every error of the command, and every end of a message, leaves nothing to
\* be signed and nothing to be shown.
LEMMA DiscardProperties ==
  ASSUME Discard
  PROVE  /\ keyPath' = None /\ messageLength' = 0
         /\ messageBuffer' = EmptyBuffer /\ messageBuffer' \in Buffers
         /\ messageDisplayable' = FALSE
  BY Constants DEF Discard, SummaryWiped, TextWiped, EmptyBuffer, Buffers

\* A first block starts a message that fits the invariant.
LEMMA PrepareFirstKeeps ==
  ASSUME MessageInv, NEW path \in Paths, NEW length \in Lengths, NEW chunk \in Chunks,
         PrepareFirst(path, length, chunk)
  PROVE  MessageInv'
  <1> DEFINE prefix == [length |-> length, bytes |-> <<>>]
  <1>1. /\ MessageTypeOK /\ chunk \in Seq(Bytes) /\ length \in Nat /\ prefix \in Prefixes
        /\ <<>> \in Seq(Bytes) /\ Len(<<>>) = 0 /\ Fits(length) \in BOOLEAN /\ 0 \in Nat
        /\ Len(chunk) \in Nat /\ MaxDisplayable \in Nat
    BY Constants DEF MessageInv, Prefixes, Fits
  <1>2. /\ length # 0 /\ Len(chunk) <= length
        /\ keyPath' = path /\ messageLength' = length
        /\ Take(Fits(length), 0, prefix, <<>>, chunk)
        /\ claim' = [path |-> path, length |-> length]
        /\ messageScreen = NoScreen /\ messageScreen' = NoScreen
        /\ signature' = signature
    BY DEF PrepareFirst, Idle
  <1>3. /\ messageHashPrefix' \in Prefixes /\ messageHashPrefix'.length = length
        /\ messageHashPrefix'.bytes = <<>> \o chunk
        /\ messageHashWitness' \in Seq(Bytes) /\ messageHashWitness' = <<>> \o chunk
        /\ Len(messageHashWitness') = Len(chunk)
        /\ messageBuffer' \in Buffers /\ messageDisplayable' \in BOOLEAN
        /\ messageDisplayable' => Fits(length)
        /\ hashedMessageLength' \in Nat /\ hashedMessageLength' = Len(chunk)
    <2> HIDE DEF prefix
    <2>1. prefix.length = length /\ prefix.bytes = <<>>
      BY DEF prefix
    <2>2. Take(Fits(length), 0, prefix, <<>>, chunk)
      BY <1>2
    <2>3. /\ messageHashPrefix' \in Prefixes /\ messageHashPrefix'.length = prefix.length
          /\ messageHashPrefix'.bytes = prefix.bytes \o chunk
          /\ messageHashWitness' \in Seq(Bytes) /\ messageHashWitness' = <<>> \o chunk
          /\ Len(messageHashWitness') = Len(<<>>) + Len(chunk)
          /\ messageBuffer' \in Buffers /\ messageDisplayable' \in BOOLEAN
          /\ messageDisplayable' => Fits(length)
          /\ hashedMessageLength' \in Nat /\ hashedMessageLength' = 0 + Len(chunk)
      <3> DEFINE nothing == <<>>
      <3>1. nothing \in Seq(Bytes) /\ Take(Fits(length), 0, prefix, nothing, chunk)
        BY <2>2
      <3> HIDE DEF nothing
      <3>2. /\ messageHashPrefix' \in Prefixes /\ messageHashPrefix'.length = prefix.length
            /\ messageHashPrefix'.bytes = prefix.bytes \o chunk
            /\ messageHashWitness' \in Seq(Bytes) /\ messageHashWitness' = nothing \o chunk
            /\ Len(messageHashWitness') = Len(nothing) + Len(chunk)
            /\ messageBuffer' \in Buffers /\ messageDisplayable' \in BOOLEAN
            /\ messageDisplayable' => Fits(length)
            /\ hashedMessageLength' \in Nat /\ hashedMessageLength' = 0 + Len(chunk)
        BY <1>1, <3>1, TakeProperties
      <3>3. QED
        BY <3>2 DEF nothing
    <2>4. QED
      BY <1>1, <2>1, <2>3
  <1>4. MessageTypeOK'
    BY <1>1, <1>2, <1>3 DEF MessageTypeOK, Claims
  <1>5. PreparedInv'
    BY <1>1, <1>2, <1>3 DEF PreparedInv, Claims
  <1>6. TextInv'
    <2> SUFFICES ASSUME messageDisplayable'
                 PROVE  /\ hashedMessageLength' <= MaxDisplayable
                        /\ messageLength' <= MaxDisplayable
                        /\ \A i \in 1..hashedMessageLength' :
                             /\ messageBuffer'[i] = messageHashWitness'[i]
                             /\ messageHashWitness'[i] \in Printable
      BY DEF TextInv
    <2>1. length <= MaxDisplayable /\ 0 + Len(chunk) <= MaxDisplayable
      BY <1>1, <1>2, <1>3 DEF Fits
    <2>2. \A i \in 1..0 : messageBuffer[i] = <<>>[i] /\ <<>>[i] \in Printable
      OBVIOUS
    <2>3. \A i \in 1..hashedMessageLength' :
             /\ messageBuffer'[i] = messageHashWitness'[i]
             /\ messageHashWitness'[i] \in Printable
      <3> HIDE DEF prefix
      <3>1. Take(Fits(length), 0, prefix, <<>>, chunk)
        BY <1>2
      <3>2. QED
        BY <1>1, <2>1, <2>2, <3>1, TakeText
    <2>4. QED
      BY <1>1, <1>2, <1>3, <2>1, <2>3
  <1>7. MessageScreenInv' /\ SignedAsAnnounced'
    BY <1>2 DEF MessageInv, MessageScreenInv, SignedAsAnnounced
  <1>8. QED
    BY <1>4, <1>5, <1>6, <1>7 DEF MessageInv

\* A block that fits extends the message, one that does not ends it.
LEMMA PrepareNextKeeps ==
  ASSUME MessageInv, NEW chunk \in Chunks, PrepareNext(chunk)
  PROVE  MessageInv'
  <1>1. /\ MessageTypeOK /\ chunk \in Seq(Bytes) /\ Len(chunk) \in Nat /\ Len(chunk) # 0
        /\ messageLength \in Nat /\ hashedMessageLength \in Nat /\ MaxDisplayable \in Nat
        /\ messageHashPrefix \in Prefixes /\ messageHashWitness \in Seq(Bytes)
        /\ messageDisplayable \in BOOLEAN
    BY Constants DEF MessageInv, MessageTypeOK, PrepareNext
  <1>2. /\ messageScreen = NoScreen /\ messageScreen' = NoScreen
        /\ signature' = signature
    BY DEF PrepareNext, Idle
  <1>3. CASE Discard /\ claim' = None /\ UNCHANGED <<hashedMessageLength, hashes>>
    BY <1>1, <1>2, <1>3, DiscardProperties
    DEF MessageInv, MessageTypeOK, PreparedInv, TextInv, MessageScreenInv, SignedAsAnnounced, hashes
  <1>4. CASE /\ hashedMessageLength + Len(chunk) <= messageLength
             /\ Take(messageDisplayable, hashedMessageLength, messageHashPrefix,
                     messageHashWitness, chunk)
             /\ UNCHANGED <<summary, claim>>
    <2>1. /\ messageHashPrefix' \in Prefixes
          /\ messageHashPrefix'.length = messageHashPrefix.length
          /\ messageHashPrefix'.bytes = messageHashPrefix.bytes \o chunk
          /\ messageHashWitness' \in Seq(Bytes)
          /\ messageHashWitness' = messageHashWitness \o chunk
          /\ Len(messageHashWitness') = Len(messageHashWitness) + Len(chunk)
          /\ messageBuffer' \in Buffers /\ messageDisplayable' \in BOOLEAN
          /\ messageDisplayable' => messageDisplayable
          /\ hashedMessageLength' \in Nat
          /\ hashedMessageLength' = hashedMessageLength + Len(chunk)
      BY <1>1, <1>4, TakeProperties
    <2>2. /\ keyPath' = keyPath /\ messageLength' = messageLength /\ claim' = claim
          /\ messageLength # 0 /\ hashedMessageLength' <= messageLength
      BY <1>1, <1>4, <2>1 DEF summary
    <2>3. PreparedInv'
      BY <2>1, <2>2, <1>1 DEF MessageInv, PreparedInv
    <2>4. MessageTypeOK'
      BY <2>1, <2>2, <1>2 DEF MessageInv, MessageTypeOK
    <2>5. TextInv'
      <3> SUFFICES ASSUME messageDisplayable'
                   PROVE  /\ hashedMessageLength' <= MaxDisplayable
                          /\ messageLength' <= MaxDisplayable
                          /\ \A i \in 1..hashedMessageLength' :
                               /\ messageBuffer'[i] = messageHashWitness'[i]
                               /\ messageHashWitness'[i] \in Printable
        BY DEF TextInv
      <3>1. /\ messageLength <= MaxDisplayable
            /\ \A i \in 1..hashedMessageLength :
                 messageBuffer[i] = messageHashWitness[i] /\ messageHashWitness[i] \in Printable
        BY <2>1, <2>2 DEF MessageInv, TextInv
      <3>2. hashedMessageLength + Len(chunk) <= MaxDisplayable
        BY <1>1, <1>4, <3>1
      <3>3. Len(messageHashWitness) = hashedMessageLength
        BY <2>2 DEF MessageInv, PreparedInv
      <3>4. \A i \in 1..hashedMessageLength' :
              /\ messageBuffer'[i] = messageHashWitness'[i]
              /\ messageHashWitness'[i] \in Printable
        BY <1>1, <1>4, <3>1, <3>2, <3>3, TakeText
      <3>5. QED
        BY <2>1, <2>2, <3>1, <3>2, <3>4
    <2>6. QED
      BY <2>3, <2>4, <2>5, <1>2 DEF MessageInv, MessageScreenInv, SignedAsAnnounced
  <1>5. QED
    BY <1>3, <1>4 DEF PrepareNext

\* The refused first blocks leave no message.
LEMMA PrepareRefusedKeeps ==
  ASSUME MessageInv,
         \/ PrepareFirstMalformed
         \/ \E length \in Lengths, chunk \in Chunks : PrepareFirstTooLong(length, chunk)
  PROVE  MessageInv'
  <1>1. /\ Discard /\ claim' = None /\ messageScreen = NoScreen /\ messageScreen' = NoScreen
        /\ signature' = signature
    BY DEF PrepareFirstMalformed, PrepareFirstTooLong, Idle
  <1>2. hashedMessageLength' \in Nat /\ messageHashPrefix' \in Prefixes
        /\ messageHashWitness' \in Seq(Bytes)
    <2>1. CASE PrepareFirstMalformed
      BY <2>1 DEF PrepareFirstMalformed, MessageInv, MessageTypeOK, hashes
    <2>2. CASE \E length \in Lengths, chunk \in Chunks : PrepareFirstTooLong(length, chunk)
      BY <2>2 DEF PrepareFirstTooLong, Prefixes
    <2>3. QED
      BY <2>1, <2>2
  <1>3. QED
    BY <1>1, <1>2, DiscardProperties
    DEF MessageInv, MessageTypeOK, PreparedInv, TextInv, MessageScreenInv, SignedAsAnnounced

-----------------------------------------------------------------------------
\* The screen comes up with a complete message; a refusal leaves none.
LEMMA AskSignatureKeeps ==
  ASSUME MessageInv, AskSignature
  PROVE  MessageInv'
  <1>1. /\ messageScreen = NoScreen
        /\ hashedMessageLength' = hashedMessageLength
        /\ signature' = signature
        /\ messageHashPrefix' = messageHashPrefix /\ messageHashWitness' = messageHashWitness
    BY DEF AskSignature, Idle, hashes
  <1>2. CASE Complete /\ (messageDisplayable \/ BlindAllowed)
    <2>1. /\ messageScreen' = ShownMessage
          /\ keyPath' = keyPath /\ messageLength' = messageLength /\ claim' = claim
          /\ messageBuffer' = messageBuffer /\ messageDisplayable' = messageDisplayable
          /\ messageLength # 0 /\ hashedMessageLength = messageLength
      BY <1>2 DEF AskSignature, summary, text, Complete
    <2>2. ShownMessage' = ShownMessage
      BY <1>1, <2>1 DEF ShownMessage
    <2>3. ShownMessage \in MessageScreens
      <3>1. CASE messageDisplayable
        <4>1. messageLength <= MaxDisplayable /\ messageLength \in Nat /\ MaxDisplayable \in Nat
          BY <2>1, <3>1, Constants DEF MessageInv, TextInv, MessageTypeOK
        <4>2. messageBuffer \in Seq(Bytes \cup {None}) /\ Len(messageBuffer) = MaxDisplayable
          BY Constants DEF MessageInv, MessageTypeOK, Buffers
        <4>3. SubSeq(messageBuffer, 1, messageLength) \in Seq(Bytes \cup {None})
          BY <4>1, <4>2
        <4>4. QED
          BY <3>1, <4>3 DEF ShownMessage, MessageScreens
      <3>2. CASE ~messageDisplayable
        <4>1. messageHashWitness \in Seq(Bytes \cup {None})
          BY DEF MessageInv, MessageTypeOK
        <4>2. QED
          BY <3>2, <4>1 DEF ShownMessage, MessageScreens
      <3>3. QED
        BY <3>1, <3>2
    <2>4. MessageTypeOK'
      BY <1>1, <2>1, <2>3 DEF MessageInv, MessageTypeOK
    <2>5. PreparedInv' /\ TextInv' /\ SignedAsAnnounced'
      BY <1>1, <2>1 DEF MessageInv, PreparedInv, TextInv, SignedAsAnnounced
    <2>6. MessageScreenInv'
      BY <1>1, <2>1, <2>2 DEF MessageScreenInv
    <2>7. QED
      BY <2>4, <2>5, <2>6 DEF MessageInv
  <1>3. CASE ~(Complete /\ (messageDisplayable \/ BlindAllowed))
    <2>1. Discard /\ claim' = None /\ messageScreen' = messageScreen
      BY <1>3 DEF AskSignature
    <2>2. QED
      BY <1>1, <2>1, DiscardProperties
      DEF MessageInv, MessageTypeOK, PreparedInv, TextInv, MessageScreenInv, SignedAsAnnounced
  <1>4. QED
    BY <1>2, <1>3

\* A signature is made of the message that was shown; then nothing is left.
LEMMA AcceptKeeps ==
  ASSUME MessageInv, AcceptMessage
  PROVE  MessageInv'
  <1>1. /\ Discard /\ claim' = None /\ messageScreen # NoScreen /\ messageScreen' = NoScreen
        /\ messageHashPrefix' = NoPrefix
        /\ hashedMessageLength' = hashedMessageLength
        /\ messageHashWitness' = messageHashWitness
    BY DEF AcceptMessage
  <1>2. signature' \in Signatures \cup {None} /\ SignedAsAnnounced'
    <2>1. CASE signature' = signature
      BY <2>1 DEF MessageInv, MessageTypeOK, SignedAsAnnounced
    <2>2. CASE signature' = [path |-> keyPath, content |-> messageHashPrefix,
                             shown |-> messageScreen, claim |-> claim]
      <3>1. /\ messageScreen \in MessageScreens /\ messageScreen.content = messageHashPrefix.bytes
        BY <1>1, ShownIsWhole
      <3>2. /\ claim \in Claims /\ claim.path = keyPath
            /\ claim.length = messageHashPrefix.length
        BY <1>1 DEF MessageInv, MessageScreenInv, PreparedInv
      <3>3. keyPath \in Paths /\ messageHashPrefix \in Prefixes /\ claim # None
        BY <3>2, Constants DEF MessageInv, MessageTypeOK, Claims
      <3>4. signature' \in Signatures
        BY <2>2, <3>1, <3>2, <3>3 DEF Signatures
      <3>5. QED
        BY <2>2, <3>1, <3>2, <3>3, <3>4 DEF SignedAsAnnounced
    <2>3. QED
      BY <2>1, <2>2 DEF AcceptMessage
  <1>3. NoPrefix \in Prefixes
    BY DEF NoPrefix, Prefixes
  <1>4. QED
    BY <1>1, <1>2, <1>3, DiscardProperties
    DEF MessageInv, MessageTypeOK, PreparedInv, TextInv, MessageScreenInv

\* A refusal and a reset leave nothing.
LEMMA WipedKeeps ==
  ASSUME MessageInv, RejectMessage \/ MessageWiped
  PROVE  MessageInv'
  <1>1. /\ Discard /\ hashedMessageLength' = 0
        /\ messageHashPrefix' = NoPrefix /\ messageHashWitness' = <<>>
        /\ claim' = None /\ messageScreen' = NoScreen
        /\ signature' = signature
    BY DEF RejectMessage, MessageWiped
  <1>2. NoPrefix \in Prefixes /\ <<>> \in Seq(Bytes)
    BY DEF NoPrefix, Prefixes
  <1>3. QED
    BY <1>1, <1>2, DiscardProperties
    DEF MessageInv, MessageTypeOK, PreparedInv, TextInv, MessageScreenInv, SignedAsAnnounced

\* Transaction commands take the length away, so no message can end on them.
LEMMA TransactionCommandsKeep ==
  ASSUME MessageInv, TransactionCommands
  PROVE  MessageInv'
  <1>1. /\ messageLength' = 0 /\ keyPath' \in Paths \cup {None}
        /\ messageScreen = NoScreen
        /\ UNCHANGED <<hashedMessageLength, hashes, text, messageScreen, messageHistory>>
    BY DEF TransactionCommands, FinalizeLast, ChangeInfo, ChangeInfoSummary, SummaryWiped, Idle
  <1>2. QED
    BY <1>1 DEF MessageInv, MessageTypeOK, PreparedInv, TextInv, MessageScreenInv,
                SignedAsAnnounced, hashes, text, messageHistory

\* What the rest of the device does belongs to no message.
LEMMA OthersLeaveMessages ==
  ASSUME MessageInv, UNCHANGED messageVars
  PROVE  MessageInv'
  BY DEF messageVars, summary, hashes, text, messageHistory, MessageInv, MessageTypeOK,
         PreparedInv, TextInv, MessageScreenInv, SignedAsAnnounced, ShownMessage

-----------------------------------------------------------------------------
\* The inductive invariant holds in every reachable state.
THEOREM MessageInvariance == MessageSpec => []MessageInv
  <1>1. MessageInit => MessageInv
    <2> SUFFICES ASSUME MessageInit
                 PROVE  MessageInv
      OBVIOUS
    <2>1. /\ NoPrefix \in Prefixes /\ EmptyBuffer \in Buffers /\ <<>> \in Seq(Bytes)
      BY DEF NoPrefix, Prefixes, EmptyBuffer, Buffers
    <2>2. MessageTypeOK
      BY <2>1 DEF MessageInit, MessageTypeOK
    <2>3. QED
      BY <2>2 DEF MessageInit, MessageInv, PreparedInv, TextInv, MessageScreenInv, SignedAsAnnounced
  <1>2. MessageInv /\ [MessageNext]_<<deviceVars, messageVars>> => MessageInv'
    <2> SUFFICES ASSUME MessageInv, [MessageNext]_<<deviceVars, messageVars>>
                 PROVE  MessageInv'
      OBVIOUS
    <2>1. CASE SignMessage
      BY <2>1, PrepareFirstKeeps, PrepareNextKeeps, PrepareRefusedKeeps, AskSignatureKeeps,
         AcceptKeeps, WipedKeeps, TransactionCommandsKeep DEF SignMessage, Prepare
    <2>2. CASE OtherCommands
      BY <2>2, OthersLeaveMessages DEF OtherCommands
    <2>3. CASE Interrupted /\ MessageWiped
      BY <2>3, WipedKeeps
    <2>4. CASE UNCHANGED <<deviceVars, messageVars>>
      BY <2>4, OthersLeaveMessages
    <2>5. QED
      BY <2>1, <2>2, <2>3, <2>4 DEF MessageNext
  <1>3. QED
    BY <1>1, <1>2, PTL DEF MessageSpec

\* The screen that asks for a signature shows the whole message, as text only
\* if all of it can be shown, whatever blocks and commands came before.
THEOREM MessageIsShownWhole == MessageSpec => []ScreenIsWhole
  <1>1. MessageInv => ScreenIsWhole
    BY ShownIsWhole DEF ScreenIsWhole
  <1>2. QED
    BY <1>1, MessageInvariance, PTL

\* A signature uses the path and the length announced in the first block of
\* the message, and signs the bytes that were shown.
THEOREM OnlyTheAnnouncedIsSigned == MessageSpec => []SignedAsAnnounced
  <1>1. MessageInv => SignedAsAnnounced
    BY DEF MessageInv
  <1>2. QED
    BY <1>1, MessageInvariance, PTL

\* No block is written beyond the end of messageBuffer.
THEOREM BufferIsBounded == MessageSpec => []BufferBound
  <1>1. MessageInv => BufferBound
    BY DEF MessageInv, TextInv, BufferBound
  <1>2. QED
    BY <1>1, MessageInvariance, PTL

-----------------------------------------------------------------------------
\* Whatever the signing of messages adds to it, the device behaves as
\* PubkeyExport says, so that the theorems about it and Lifecycle hold.
THEOREM MessagesImplementDevice == MessageSpec => DeviceSpec
  <1>1. MessageInit => DeviceInit
    BY DEF MessageInit
  <1>2. [MessageNext]_<<deviceVars, messageVars>> => [DeviceNext]_deviceVars
    BY DEF MessageNext, SignMessage, OtherCommands, DeviceNext
  <1>3. QED
    BY <1>1, <1>2, PTL DEF MessageSpec, DeviceSpec

\* The screen of a hash comes up under the setting, which is the owner's latest
\* choice, and nobody changes the setting under a screen.
LEMMA HashScreenStep ==
  ASSUME HashScreenWanted, OwnerSettingsKept, [MessageNext]_<<deviceVars, messageVars>>
  PROVE  HashScreenWanted'
  <1>1. CASE SignMessage
    <2>1. wantBlind' = wantBlind
      BY <1>1 DEF SignMessage, deviceVars, vars, history
    <2>2. CASE AskSignature
      <3>1. phase = "serving" /\ messageScreen = NoScreen
        BY <2>2 DEF AskSignature, Idle, Serves
      <3>2. CASE Complete /\ (messageDisplayable \/ BlindAllowed)
        <4>1. messageScreen' = ShownMessage
          BY <2>2, <3>2 DEF AskSignature
        <4>2. CASE messageDisplayable
          BY <4>1, <4>2 DEF ShownMessage, HashScreenWanted
        <4>3. CASE BlindAllowed
          BY <2>1, <3>1, <4>3 DEF BlindAllowed, OwnerSettingsKept, HashScreenWanted
        <4>4. QED
          BY <3>2, <4>2, <4>3
      <3>3. CASE ~(Complete /\ (messageDisplayable \/ BlindAllowed))
        BY <2>2, <3>1, <3>3 DEF AskSignature, HashScreenWanted
      <3>4. QED
        BY <3>2, <3>3
    <2>3. CASE Prepare \/ TransactionCommands
      BY <2>3, <2>1 DEF Prepare, PrepareFirst, PrepareFirstTooLong, PrepareFirstMalformed,
                        PrepareNext, TransactionCommands, FinalizeLast, ChangeInfo, HashScreenWanted
    <2>4. CASE AcceptMessage \/ RejectMessage
      BY <2>4 DEF AcceptMessage, RejectMessage, HashScreenWanted
    <2>5. QED
      BY <1>1, <2>2, <2>3, <2>4 DEF SignMessage
  <1>2. CASE OtherCommands
    BY <1>2 DEF OtherCommands, messageVars, HashScreenWanted
  <1>3. CASE Interrupted /\ MessageWiped
    BY <1>3 DEF MessageWiped, HashScreenWanted
  <1>4. CASE UNCHANGED <<deviceVars, messageVars>>
    BY <1>4 DEF deviceVars, vars, history, messageVars, HashScreenWanted
  <1>5. QED
    BY <1>1, <1>2, <1>3, <1>4 DEF MessageNext

\* The hash of a message is put to the user only while the owner's latest choice
\* allows it, wherever the power was cut since.
THEOREM BlindOnlyAsWanted == MessageSpec => []HashScreenWanted
  <1>1. MessageInit => HashScreenWanted
    BY DEF MessageInit, HashScreenWanted
  <1>2. MessageSpec => []OwnerSettingsKept
    BY MessagesImplementDevice, DeviceImplementsLifecycle, SettingsAreTheOwners, PTL
  <1>3. HashScreenWanted /\ OwnerSettingsKept /\ [MessageNext]_<<deviceVars, messageVars>>
          => HashScreenWanted'
    BY HashScreenStep
  <1>4. QED
    BY <1>1, <1>2, <1>3, PTL DEF MessageSpec
=============================================================================
