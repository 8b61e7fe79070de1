------------------------ MODULE TransactionParseProofs ------------------------
(***************************************************************************)
(* Two invariants of the transaction parser, the end of its loop, and that *)
(* it implements TrustedInputContract, for every set of transactions,      *)
(* every place where a block may end, and every length of the elements of  *)
(* a transaction.  Then that the device follows the host: a transaction    *)
(* that arrives in order is read as it was sent, and is not refused if its *)
(* request can be met.                                                     *)
(***************************************************************************)
EXTENDS TransactionParse, Induction, SequenceTheorems

\* Each action by the kinds of state it leads to.
LEMMA OneModeInductive ==
  ASSUME OneMode, [Next]_vars
  PROVE  OneMode'
<1> USE DEF OneMode
<1>1. CASE UNCHANGED vars
  BY <1>1 DEF vars, command
<1>2. CASE Receive
  <2>1. ASSUME NEW t \in Txs, NEW n \in Positions, NEW target \in Targets,
               TrustedInputFirst(t, target, n)
        PROVE  OneMode'
    BY <2>1 DEF TrustedInputFirst
  <2>2. ASSUME NEW t \in Txs, NEW n \in Positions, NEW new \in BOOLEAN, StartFirst(t, new, n)
        PROVE  OneMode'
    BY <2>2 DEF StartFirst
  <2>3. ASSUME NEW mode \in Modes, NextRuns(mode)
        PROVE  OneMode'
    BY <2>3 DEF NextRuns, ModeBound
  <2>4. ASSUME NEW n \in Positions, BlockLost(n)
        PROVE  OneMode'
    BY <2>4 DEF BlockLost, command
  <2>5. ASSUME NEW target \in Targets, TrustedInputFirstRefused(target)
        PROVE  OneMode'
    BY <2>5 DEF TrustedInputFirstRefused, Listening
  <2>6. CASE StartFirstRefused
    BY <2>6 DEF StartFirstRefused, Listening
  <2>7. ASSUME NEW mode \in Modes, NextRefused(mode)
        PROVE  OneMode'
    BY <2>7 DEF NextRefused, Listening
  <2> QED
    BY <1>2, <2>1, <2>2, <2>3, <2>4, <2>5, <2>6, <2>7 DEF Receive, NextAsFirst, NextBlock
<1>3. ASSUME Fail
      PROVE  OneMode'
  BY <1>3 DEF Fail
<1>4. ASSUME Wait
      PROVE  OneMode'
  BY <1>4 DEF Wait
<1>5. CASE ParseInputs
  <2>1. CASE BeginTransaction
    BY <2>1, <1>3 DEF BeginTransaction, command
  <2>2. CASE InputsDone
    BY <2>2 DEF InputsDone, command
  <2>3. CASE ReadInput
    BY <2>3 DEF ReadInput, command
  <2>4. CASE ScriptBytes
    BY <2>4 DEF ScriptBytes, command
  <2>5. CASE EndOfInput
    BY <2>5, <1>3 DEF EndOfInput, command
  <2>6. CASE PresignReady
    BY <2>6 DEF PresignReady, Turn, command
  <2> QED
    BY <1>5, <1>3, <1>4, <2>1, <2>2, <2>3, <2>4, <2>5, <2>6
       DEF ParseInputs, WaitForInput, InputRejected, WaitForScript, EndOfInputs
<1>6. CASE ParseOutputs
  <2>1. CASE ReadOutputCount
    BY <2>1, <1>3, <1>4 DEF ReadOutputCount, Turn, command
  <2>2. CASE OutputsDone
    BY <2>2 DEF OutputsDone, Turn, command
  <2>3. CASE ReadOutput
    BY <2>3, <1>3 DEF ReadOutput, Turn, command
  <2>4. CASE ReadOutputScript
    BY <2>4, <1>4 DEF ReadOutputScript, Turn, command
  <2>5. CASE ReadLockTime
    BY <2>5, <1>3 DEF ReadLockTime, Turn, command
  <2>6. CASE ReadExtra
    BY <2>6, <1>4 DEF ReadExtra, Turn, command
  <2>7. CASE EndOfTransaction
    BY <2>7 DEF EndOfTransaction
  <2> QED
    BY <1>6, <1>4, <2>1, <2>2, <2>3, <2>4, <2>5, <2>6, <2>7
       DEF ParseOutputs, WaitForOutput, WaitForLockTime
<1>7. CASE IoReset
  BY <1>7 DEF IoReset, Listening
<1> QED
  BY <1>1, <1>2, <1>5, <1>6, <1>7 DEF Next, Parse

\* No transaction is read in two modes: nothing read for a trusted input ever
\* gets ready to be signed (transaction_parse runs in the mode of the FIRST
\* block, whatever commands come in between).
THEOREM TransactionsKeepTheirMode == Spec => []OneMode
<1>1. Init => OneMode
  BY DEF Init, OneMode
<1>2. OneMode /\ [Next]_vars => OneMode'
  BY OneModeInductive
<1> QED
  BY <1>1, <1>2, PTL DEF Spec

-----------------------------------------------------------------------------
\* For a host that starts every request for a trusted input with a FIRST block.

\* The output asked for is not read before the outputs, and then it is the
\* current one or an earlier one.
TargetInv ==
  /\ transactionCurrentInputOutput \in Nat
  /\ transactionTargetInput \in Nat
  /\ transactionState = "NONE" /\ running = "TRUSTED_INPUT" => ~trustedInputProcessed
  /\ transactionState \in {"DEFINED_WAIT_INPUT", "INPUT_SCRIPT", "INPUT_HASHING_DONE"}
       /\ parseMode = "TRUSTED_INPUT" => ~trustedInputProcessed
  /\ trustedInputProcessed =>
       /\ transactionState = "OUTPUT_SCRIPT" =>
            transactionTargetInput <= transactionCurrentInputOutput
       /\ transactionState \in {"DEFINED_WAIT_OUTPUT", "OUTPUT_HASHING_DONE", "PROCESS_EXTRA",
                                "PARSED"} =>
            transactionTargetInput < transactionCurrentInputOutput

LEMMA TargetInductive ==
  ASSUME RestartsWithFirst, OneMode, TargetInv, [Next]_vars
  PROVE  TargetInv'
<1> USE DEF TargetInv, OneMode
<1>0. Targets \subseteq Nat
  BY ParseAssumption DEF ParseAssumption
<1>1. CASE UNCHANGED vars
  BY <1>1 DEF vars, counters, request, command
<1>2. CASE Receive
  <2>1. ASSUME NEW t \in Txs, NEW n \in Positions, NEW target \in Targets,
               TrustedInputFirst(t, target, n)
        PROVE  TargetInv'
    BY <1>0, <2>1 DEF TrustedInputFirst, NewRequest, counters
  <2>2. ASSUME NEW t \in Txs, NEW n \in Positions, NEW new \in BOOLEAN, StartFirst(t, new, n)
        PROVE  TargetInv'
    BY <2>2 DEF StartFirst, counters, request
  <2>3. ASSUME NEW mode \in Modes, NEW n \in Positions, NextBlock(mode, n)
        PROVE  TargetInv'
    BY <2>3 DEF NextBlock, NextRuns, counters, request
  <2>4. ASSUME NEW n \in Positions, BlockLost(n)
        PROVE  TargetInv'
    BY <2>4 DEF BlockLost, counters, request, command
  <2>5. ASSUME NEW target \in Targets, TrustedInputFirstRefused(target)
        PROVE  TargetInv'
    BY <1>0, <2>5 DEF TrustedInputFirstRefused, NewRequest, Listening, counters
  <2>6. CASE StartFirstRefused
    BY <2>6 DEF StartFirstRefused, Listening, counters, request
  <2>7. ASSUME NEW mode \in Modes, NextRefused(mode)
        PROVE  TargetInv'
    BY <2>7 DEF NextRefused, Listening, counters, request
  <2>8. ASSUME NEW mode \in Modes, NEW t \in Txs, NEW n \in Positions, NextAsFirst(mode, t, n)
        PROVE  TargetInv'
    BY <2>8 DEF NextAsFirst, NextRuns, counters, request
  <2> QED
    BY <1>2, <2>1, <2>2, <2>3, <2>4, <2>5, <2>6, <2>7, <2>8 DEF Receive
<1>3. ASSUME Fail
      PROVE  TargetInv'
  BY <1>3 DEF Fail, counters
<1>4. ASSUME Wait
      PROVE  TargetInv'
  BY <1>4 DEF Wait, counters, request
<1>5. CASE ParseInputs
  <2>1. CASE BeginTransaction
    BY <2>1, <1>3 DEF BeginTransaction, Turn, command, request, Modes
  <2>2. CASE InputsDone
    BY <2>2 DEF InputsDone, Turn, command, counters, request
  <2>3. CASE ReadInput
    BY <2>3 DEF ReadInput, Turn, command, request
  <2>4. CASE ScriptBytes
    BY <2>4 DEF ScriptBytes, Turn, command, request
  <2>5. CASE EndOfInput
    BY <2>5, <1>3 DEF EndOfInput, Turn, command, request
  <2>6. CASE PresignReady
    BY <2>6 DEF PresignReady, Turn, command, counters, request
  <2> QED
    BY <1>5, <1>3, <1>4, <2>1, <2>2, <2>3, <2>4, <2>5, <2>6
       DEF ParseInputs, WaitForInput, InputRejected, WaitForScript, EndOfInputs
<1>6. CASE ParseOutputs
  <2>1. CASE ReadOutputCount
    BY <2>1, <1>3, <1>4 DEF ReadOutputCount, Turn, command, request
  <2>2. CASE OutputsDone
    BY <2>2 DEF OutputsDone, Turn, command, counters, request
  <2>3. CASE ReadOutput
    <3>1. CASE Fail
      BY <1>3, <3>1
    <3>2. CASE ~Fail
      <4>1. /\ transactionState = "DEFINED_WAIT_OUTPUT" /\ transactionState' = "OUTPUT_SCRIPT"
            /\ UNCHANGED <<transactionCurrentInputOutput, transactionTargetInput>>
            /\ trustedInputProcessed' => trustedInputProcessed \/ IsTarget
        BY <2>3, <3>2 DEF ReadOutput, Turn
      <4> QED
        BY <4>1 DEF IsTarget
    <3> QED
      BY <3>1, <3>2
  <2>4. CASE ReadOutputScript
    BY <2>4, <1>4 DEF ReadOutputScript, Turn, command, request
  <2>5. CASE ReadLockTime
    BY <2>5, <1>3 DEF ReadLockTime, Turn, command, request
  <2>6. CASE ReadExtra
    BY <2>6, <1>4 DEF ReadExtra, Turn, command, counters, request
  <2>7. CASE EndOfTransaction
    BY <2>7 DEF EndOfTransaction, counters, request
  <2> QED
    BY <1>6, <1>4, <2>1, <2>2, <2>3, <2>4, <2>5, <2>6, <2>7
       DEF ParseOutputs, WaitForOutput, WaitForLockTime
<1>7. CASE IoReset
  BY <1>7 DEF IoReset
<1> QED
  BY <1>1, <1>2, <1>5, <1>6, <1>7 DEF Next, Parse

\* When the end of a transaction finds its output processed, that output was
\* read in this transaction: the flag of an earlier request, or of a request
\* that failed, is never what issues a trusted input.
THEOREM TrustedOutputWasRead ==
  ASSUME RestartsWithFirst
  PROVE  Spec => []TargetWasRead
<1>1. Init => OneMode /\ TargetInv
  BY DEF Init, OneMode, TargetInv
<1>2. OneMode /\ TargetInv /\ [Next]_vars => (OneMode /\ TargetInv)'
  BY OneModeInductive, TargetInductive
<1>3. OneMode /\ TargetInv => TargetWasRead
  BY DEF TargetInv, TargetWasRead
<1> QED
  BY <1>1, <1>2, <1>3, PTL DEF Spec

-----------------------------------------------------------------------------
\* The loop of transaction_parse ends.

\* The recursion of LittleEndian, a fold from the right.
Numbers(g, s) ==
  g = [d \in SUBSET DOMAIN s |->
         IF d = {} THEN 0 ELSE s[Min(d)] + 256 * g[d \ {Min(d)}]]

\* The places of a sequence: the first of them is one of them.
LEMMA FirstPlace ==
  ASSUME NEW s \in Seq(Nat)
  PROVE  /\ IsFiniteSet(DOMAIN s)
         /\ Picks([d \in SUBSET DOMAIN s |-> Min(d)], DOMAIN s)
         /\ \A i \in DOMAIN s : s[i] \in Nat
  <1>1. DOMAIN s = 1 .. Len(s) /\ Len(s) \in Nat /\ s \in [1 .. Len(s) -> Nat]
    BY LenProperties
  <1>2. IsFiniteSet(DOMAIN s)
    BY <1>1, FS_Interval
  <1>3. ASSUME NEW d \in SUBSET DOMAIN s, d # {}
        PROVE  Min(d) \in d
    <2>1. d \subseteq Nat
      BY <1>1
    <2>2. \E x \in d : \A y \in d : x <= y
      BY <1>3, <2>1, LeastNatural
    <2>3. QED
      BY <2>2 DEF Min
  <1>4. QED
    BY <1>1, <1>2, <1>3 DEF Picks

LEMMA NumbersExist ==
  ASSUME NEW s \in Seq(Nat)
  PROVE  \E g : Numbers(g, s)
  <1> DEFINE pick == [d \in SUBSET DOMAIN s |-> Min(d)]
             step == [p \in (DOMAIN s) \X Nat |-> s[p[1]] + 256 * p[2]]
  <1>1. IsFiniteSet(DOMAIN s) /\ Picks(pick, DOMAIN s) /\ \A i \in DOMAIN s : s[i] \in Nat
    BY FirstPlace
  <1>2. step \in [(DOMAIN s) \X Nat -> Nat]
    BY <1>1
  <1>3. \A i \in DOMAIN s, n \in Nat : step[<<i, n>>] = s[i] + 256 * n
    OBVIOUS
  <1>4. \A d \in SUBSET DOMAIN s : pick[d] = Min(d)
    OBVIOUS
  <1> HIDE DEF pick, step
  <1>5. PICK g \in [SUBSET DOMAIN s -> Nat] : Folded(g, 0, step, pick, DOMAIN s)
    <2>1. 0 \in Nat
      OBVIOUS
    <2>2. QED
      BY <1>1, <1>2, <2>1, SubsetRecursion, Zenon
  <1>6. ASSUME NEW d \in SUBSET DOMAIN s
        PROVE  g[d] = IF d = {} THEN 0 ELSE s[Min(d)] + 256 * g[d \ {Min(d)}]
    <2>1. g[d] = IF d = {} THEN 0 ELSE step[<<Min(d), g[d \ {Min(d)}]>>]
      BY <1>4, <1>5 DEF Folded
    <2>2. CASE d = {}
      BY <2>1, <2>2
    <2>3. CASE d # {}
      <3>1. Min(d) \in DOMAIN s
        BY <1>1, <1>4, <2>3 DEF Picks
      <3>2. g[d \ {Min(d)}] \in Nat
        BY <1>5
      <3>3. step[<<Min(d), g[d \ {Min(d)}]>>] = s[Min(d)] + 256 * g[d \ {Min(d)}]
        <4> DEFINE i == Min(d)
                   n == g[d \ {i}]
        <4>1. i \in DOMAIN s /\ n \in Nat
          BY <3>1, <3>2
        <4> HIDE DEF i, n
        <4>2. step[<<i, n>>] = s[i] + 256 * n
          BY <1>3, <4>1
        <4>3. QED
          BY <4>2 DEF i, n
      <3>4. QED
        BY <2>1, <2>3, <3>3
    <2>4. QED
      BY <2>2, <2>3
  <1>7. g = [d \in SUBSET DOMAIN s |-> g[d]]
    BY <1>5
  <1>8. Numbers(g, s)
    BY <1>6, <1>7, Zenon DEF Numbers
  <1>9. QED
    BY <1>8

LEMMA LittleEndianType ==
  ASSUME NEW s \in Seq(Nat)
  PROVE  LittleEndian(s) \in Nat
  <1> DEFINE D == DOMAIN s
             g == CHOOSE g : Numbers(g, s)
             pick == [d \in SUBSET D |-> Min(d)]
             T == {d \in SUBSET D : g[d] \in Nat}
  <1>1. Numbers(g, s)
    BY NumbersExist
  <1>2. LittleEndian(s) = g[D]
    BY Zenon DEF LittleEndian, FoldRight, MapThenFoldSet, Numbers
  <1> HIDE DEF g
  <1>3. IsFiniteSet(D) /\ Picks(pick, D) /\ \A i \in D : s[i] \in Nat
    BY FirstPlace
  <1>4. ASSUME NEW d \in SUBSET D
        PROVE  g[d] = IF d = {} THEN 0 ELSE s[Min(d)] + 256 * g[d \ {Min(d)}]
    BY <1>1, Zenon DEF Numbers
  <1> HIDE DEF D
  <1>5. {} \in T
    <2>1. {} \in SUBSET D
      OBVIOUS
    <2>2. g[{}] = 0
      BY <1>4, <2>1
    <2>3. QED
      BY <2>1, <2>2
  <1>6. ASSUME NEW d \in SUBSET D, d # {}, d \ {pick[d]} \in T
        PROVE  d \in T
    <2>1. pick[d] = Min(d) /\ Min(d) \in D
      BY <1>3, <1>6 DEF Picks
    <2>2. g[d \ {Min(d)}] \in Nat /\ s[Min(d)] \in Nat
      BY <1>3, <1>6, <2>1
    <2>3. g[d] = s[Min(d)] + 256 * g[d \ {Min(d)}]
      BY <1>4, <1>6
    <2>4. g[d] \in Nat
      BY <2>2, <2>3
    <2>5. QED
      BY <2>4
  <1> HIDE DEF T, pick
  <1>7. SUBSET D \subseteq T
    <2>1. Climbs(T, pick, D)
      BY <1>6 DEF Climbs
    <2>2. QED
      BY <1>3, <1>5, <2>1, SubsetInduction, Zenon
  <1>8. QED
    BY <1>2, <1>7 DEF T

\* Parts of a block.
LEMMA RestIs ==
  ASSUME NEW b \in Seq(Bytes), NEW n \in Nat
  PROVE  /\ Rest(n, b) \in Seq(Bytes)
         /\ Len(b) \in Nat
         /\ Len(Rest(n, b)) = IF n <= Len(b) THEN Len(b) - n ELSE 0
         /\ Rest(n, b) # <<>> => n < Len(b)
  <1>1. Len(b) \in Nat
    BY LenProperties
  <1>2. \A i \in n + 1 .. Len(b) : b[i] \in Bytes
    BY <1>1, ElementOfSeq
  <1>3. Rest(n, b) \in Seq(Bytes)
        /\ Len(Rest(n, b)) = IF n + 1 <= Len(b) THEN Len(b) - (n + 1) + 1 ELSE 0
    BY <1>1, <1>2, SubSeqProperties DEF Rest
  <1>4. Len(Rest(n, b)) = IF n <= Len(b) THEN Len(b) - n ELSE 0
    BY <1>1, <1>3
  <1>5. Rest(n, b) # <<>> => Len(Rest(n, b)) \in Nat \ {0}
    BY <1>3, EmptySeq
  <1>6. QED
    BY <1>1, <1>3, <1>4, <1>5

LEMMA SliceIs ==
  ASSUME NEW b \in Seq(Bytes), NEW m \in Nat \ {0}, NEW n \in Int
  PROVE  Slice(m, n, b) \in Seq(Bytes)
  <1>1. Len(b) \in Nat
    BY LenProperties
  <1> DEFINE k == IF n <= Len(b) THEN n ELSE Len(b)
  <1>2. k \in Int /\ k <= Len(b)
    BY <1>1
  <1>3. Slice(m, n, b) = SubSeq(b, m, k)
    BY DEF Slice
  <1> HIDE DEF k
  <1>4. \A i \in m .. k : b[i] \in Bytes
    BY <1>1, <1>2, ElementOfSeq
  <1>5. SubSeq(b, m, k) \in Seq(Bytes)
    BY <1>2, <1>4, SubSeqProperties
  <1>6. QED
    BY <1>3, <1>5

\* A number of variable length at the head of a block.
LEMMA VarintIs ==
  ASSUME NEW b \in Seq(Bytes), VarintReadable(b)
  PROVE  VarintBytes(b) \in {1, 3, 5} /\ VarintBytes(b) <= Len(b) /\ VarintValue(b) \in Nat
  <1>1. b # <<>> /\ Len(b) >= VarintBytes(b)
    BY DEF VarintReadable
  <1>2. Len(b) \in Nat \ {0}
    BY <1>1, EmptySeq
  <1>3. b[1] \in Bytes
    BY <1>2, ElementOfSeq
  <1>4. VarintBytes(b) \in {1, 3, 5}
    BY DEF VarintBytes
  <1>5. Slice(2, VarintBytes(b), b) \in Seq(Bytes)
    <2>1. 2 \in Nat \ {0} /\ VarintBytes(b) \in Int
      BY <1>4
    <2>2. QED
      BY <2>1, SliceIs, Zenon
  <1>6. Slice(2, VarintBytes(b), b) \in Seq(Nat)
    <2>1. Bytes \subseteq Nat
      BY DEF Bytes
    <2>2. QED
      BY <1>5, <2>1, SeqMonotonic, Zenon
  <1>7. VarintValue(b) \in Nat
    <2>1. LittleEndian(Slice(2, VarintBytes(b), b)) \in Nat
      BY <1>6, LittleEndianType
    <2>2. Bytes \subseteq Nat
      BY DEF Bytes
    <2>3. b[1] \in Nat
      BY <1>3, <2>2, Zenon
    <2>4. QED
      BY <2>1, <2>3, Zenon DEF VarintValue
  <1>8. VarintBytes(b) <= Len(b)
    BY <1>1, <1>2, <1>4
  <1>9. QED
    BY <1>4, <1>7, <1>8

\* Taking bytes from a block makes it shorter.
LEMMA Shorter ==
  ASSUME NEW b \in Seq(Bytes), NEW n \in Nat \ {0}, b # <<>>
  PROVE  Rest(n, b) \in Seq(Bytes) /\ Len(Rest(n, b)) < Len(b) /\ Len(b) \in Nat
                                   /\ Len(Rest(n, b)) \in Nat
  <1>1. Len(b) \in Nat \ {0}
    BY EmptySeq
  <1>2. n \in Nat
    OBVIOUS
  <1>3. /\ Rest(n, b) \in Seq(Bytes)
        /\ Len(Rest(n, b)) = IF n <= Len(b) THEN Len(b) - n ELSE 0
    BY <1>2, RestIs, Zenon
  <1>4. QED
    BY <1>1, <1>3

\* So does taking bytes and then a number of variable length.
LEMMA ShorterByNumber ==
  ASSUME NEW b \in Seq(Bytes), NEW n \in Nat, VarintReadable(Rest(n, b))
  PROVE  /\ VarintValue(Rest(n, b)) \in Nat
         /\ n + VarintBytes(Rest(n, b)) \in Nat \ {0}
         /\ b # <<>>
         /\ LET r == Rest(VarintBytes(Rest(n, b)), Rest(n, b))
            IN  r \in Seq(Bytes) /\ Len(r) < Len(b)
  <1> DEFINE s == Rest(n, b)
  <1>1. s \in Seq(Bytes) /\ Len(b) \in Nat /\ s # <<>> => n < Len(b)
    BY RestIs
  <1>2. Len(s) = IF n <= Len(b) THEN Len(b) - n ELSE 0
    BY RestIs
  <1>3. s # <<>>
    BY DEF VarintReadable
  <1>4. s \in Seq(Bytes) /\ Len(b) \in Nat /\ n < Len(b)
    BY <1>3, RestIs
  <1> HIDE DEF s
  <1>5. VarintReadable(s)
    BY DEF s
  <1>6. VarintBytes(s) \in {1, 3, 5} /\ VarintValue(s) \in Nat
    BY <1>4, <1>5, VarintIs
  <1>7. VarintBytes(s) \in Nat \ {0}
    BY <1>6
  <1>8. Rest(VarintBytes(s), s) \in Seq(Bytes) /\ Len(Rest(VarintBytes(s), s)) < Len(s)
        /\ Len(Rest(VarintBytes(s), s)) \in Nat
    BY <1>3, <1>4, <1>7, Shorter
  <1>9. Len(s) <= Len(b) /\ Len(s) \in Nat
    BY <1>2, <1>4
  <1>10. Len(Rest(VarintBytes(s), s)) < Len(b)
    BY <1>4, <1>8, <1>9
  <1>11. n + VarintBytes(s) \in Nat \ {0}
    BY <1>7
  <1>12. b # <<>>
    BY <1>4, EmptySeq
  <1>13. QED
    BY <1>6, <1>8, <1>10, <1>11, <1>12 DEF s

\* What the turns of the loop need to know of what they read.
BlockInv == block \in Seq(Bytes) /\ scriptRemaining \in Nat /\ transactionState \in States

\* What is known of the transaction being sent.
SendingInv ==
  /\ host = [f \in {"tx", "mode", "sent", "orderly", "grouped", "begun"} |-> host[f]]
  /\ host.sent \in Nat
  /\ host.tx # None => host.tx \in Txs /\ host.mode \in Modes

\* Either the command is over, or its loop came closer to its end.
Progress ==
  running' # "none" =>
    \/ Len(block') < Len(block)
    \/ Len(block') = Len(block) /\ Later[transactionState'] < Later[transactionState]

LEMMA FailOrWait ==
  ASSUME BlockInv, Fail \/ Wait
  PROVE  BlockInv' /\ Progress /\ host' = host
  <1>1. CASE Fail
    BY <1>1, EmptySeq DEF BlockInv, Fail, Progress, counters, States
  <1>2. CASE Wait
    BY <1>2, EmptySeq DEF BlockInv, Wait, Progress, counters
  <1>3. QED
    BY <1>1, <1>2

\* Consume takes bytes of the block.
LEMMA ConsumeShortens ==
  ASSUME BlockInv, NEW n \in Nat \ {0}, block # <<>>, Consume(n)
  PROVE  block' \in Seq(Bytes) /\ Len(block') < Len(block)
  <1>1. block' = Rest(n, block)
    BY DEF Consume
  <1>2. QED
    BY <1>1, Shorter DEF BlockInv

LEMMA PortionIs ==
  ASSUME BlockInv, block # <<>>, NEW limit \in Nat \ {0}
  PROVE  Portion(limit) \in Nat \ {0} /\ Portion(limit) <= limit
  <1>1. Len(block) \in Nat \ {0}
    BY EmptySeq DEF BlockInv
  <1>2. QED
    BY <1>1 DEF Portion

LEMMA LaterIs ==
  /\ Later["OUTPUT_SCRIPT"] = 3 /\ Later["DEFINED_WAIT_INPUT"] = 3
  /\ Later["DEFINED_WAIT_OUTPUT"] = 2 /\ Later["INPUT_HASHING_DONE"] = 2
  /\ Later["OUTPUT_HASHING_DONE"] = 1 /\ Later["PRESIGN_READY"] = 1
  /\ Later["PROCESS_EXTRA"] = 1 /\ Later["PARSED"] = 0
  BY DEF Later, States

\* The turns that read the inputs.
LEMMA InputsProgress ==
  ASSUME BlockInv, ParseInputs
  PROVE  BlockInv' /\ Progress /\ host' = host
<1> USE WidthAssumption DEF WidthAssumption
<1>1. CASE Fail \/ Wait
  BY <1>1, FailOrWait
<1>2. CASE BeginTransaction /\ ~Fail
  <2>1. /\ VarintReadable(Rest(Width.version, block))
        /\ block' = Rest(Width.version + VarintBytes(Rest(Width.version, block)), block)
        /\ scriptRemaining' = 0 /\ transactionState' = "DEFINED_WAIT_INPUT" /\ host' = host
    BY <1>2 DEF BeginTransaction
  <2>2. Width.version + VarintBytes(Rest(Width.version, block)) \in Nat \ {0} /\ block # <<>>
    BY <2>1, ShorterByNumber DEF BlockInv
  <2>3. block' \in Seq(Bytes) /\ Len(block') < Len(block)
    BY <2>1, <2>2, Shorter DEF BlockInv
  <2>4. QED
    BY <2>1, <2>3 DEF BlockInv, Progress, States
<1>3. CASE InputsDone
  BY <1>3, LaterIs DEF InputsDone, Turn, BlockInv, Progress, States, counters, command
<1>4. CASE ReadInput
  <2>1. PICK in \in InputForm(running) :
          /\ VarintReadable(Rest(in.taken, block))
          /\ transactionState' = "INPUT_SCRIPT"
          /\ scriptRemaining' = VarintValue(Rest(in.taken, block))
          /\ block' = Rest(VarintBytes(Rest(in.taken, block)), Rest(in.taken, block))
    BY <1>4 DEF ReadInput
  <2>2. in.taken \in Nat
    <3>1. in \in {PlainInput, UntrustedInput, TrustedInput}
      BY <2>1 DEF InputForm
    <3>2. PlainInput.taken \in Nat /\ UntrustedInput.taken \in Nat /\ TrustedInput.taken \in Nat
      BY DEF PlainInput, UntrustedInput, TrustedInput
    <3>3. QED
      BY <3>1, <3>2
  <2>3. /\ VarintValue(Rest(in.taken, block)) \in Nat
        /\ block' \in Seq(Bytes) /\ Len(block') < Len(block)
    BY <2>1, <2>2, ShorterByNumber DEF BlockInv
  <2>4. host' = host
    BY <1>4 DEF ReadInput
  <2>5. QED
    BY <2>1, <2>3, <2>4 DEF BlockInv, Progress, States
<1>5. CASE ScriptBytes
  <2>1. /\ block # <<>> /\ scriptRemaining > 1 /\ host' = host
        /\ transactionState' = transactionState
        /\ Consume(Portion(scriptRemaining - 1))
        /\ scriptRemaining' = scriptRemaining - Portion(scriptRemaining - 1)
    BY <1>5 DEF ScriptBytes
  <2>2. scriptRemaining - 1 \in Nat \ {0}
    BY <2>1 DEF BlockInv
  <2>3. Portion(scriptRemaining - 1) \in Nat \ {0}
        /\ Portion(scriptRemaining - 1) <= scriptRemaining - 1
    BY <2>1, <2>2, PortionIs
  <2>4. block' \in Seq(Bytes) /\ Len(block') < Len(block)
    BY <2>1, <2>3, ConsumeShortens
  <2>5. QED
    BY <2>1, <2>3, <2>4 DEF BlockInv, Progress
<1>6. CASE EndOfInput /\ ~Fail
  <2>1. /\ block # <<>> /\ host' = host /\ transactionState' = "DEFINED_WAIT_INPUT"
        /\ scriptRemaining' = 0 /\ block' = Rest(scriptRemaining + Width.sequence, block)
    BY <1>6 DEF EndOfInput
  <2>2. scriptRemaining + Width.sequence \in Nat \ {0}
    BY DEF BlockInv
  <2>3. block' \in Seq(Bytes) /\ Len(block') < Len(block)
    BY <2>1, <2>2, Shorter DEF BlockInv
  <2>4. QED
    BY <2>1, <2>3 DEF BlockInv, Progress, States
<1>7. CASE PresignReady
  BY <1>7, LaterIs DEF PresignReady, Turn, BlockInv, Progress, States, counters, command
<1>8. QED
  BY <1>1, <1>2, <1>3, <1>4, <1>5, <1>6, <1>7
     DEF ParseInputs, WaitForInput, InputRejected, WaitForScript, EndOfInputs

\* The turns that read the outputs, and what follows them.
LEMMA OutputsProgress ==
  ASSUME BlockInv, ParseOutputs
  PROVE  BlockInv' /\ Progress /\ host' = host
<1> USE WidthAssumption DEF WidthAssumption
<1>1. CASE Fail \/ Wait
  BY <1>1, FailOrWait
<1>2. CASE ReadOutputCount /\ ~(Fail \/ Wait)
  <2>1. /\ VarintReadable(block) /\ Consume(VarintBytes(block)) /\ host' = host
        /\ transactionState' = "DEFINED_WAIT_OUTPUT" /\ scriptRemaining' = scriptRemaining
    BY <1>2 DEF ReadOutputCount
  <2>2. VarintBytes(block) \in Nat \ {0} /\ block # <<>>
    <3>1. block \in Seq(Bytes)
      BY DEF BlockInv
    <3>2. VarintBytes(block) \in {1, 3, 5} /\ block # <<>>
      BY <2>1, <3>1, VarintIs DEF VarintReadable
    <3>3. QED
      BY <3>2
  <2>3. block' \in Seq(Bytes) /\ Len(block') < Len(block)
    BY <2>1, <2>2, ConsumeShortens
  <2>4. QED
    BY <2>1, <2>3 DEF BlockInv, Progress, States
<1>3. CASE OutputsDone
  BY <1>3, LaterIs DEF OutputsDone, Turn, BlockInv, Progress, States, counters, command
<1>4. CASE ReadOutput /\ ~Fail
  <2> DEFINE head == Width.amount + Width.scriptVersion
  <2>1. /\ VarintReadable(Rest(head, block)) /\ host' = host
        /\ scriptRemaining' = VarintValue(Rest(head, block))
        /\ Consume(head + VarintBytes(Rest(head, block)))
        /\ transactionState' = "OUTPUT_SCRIPT"
    BY <1>4 DEF ReadOutput
  <2>2. head \in Nat
    OBVIOUS
  <2>3. /\ VarintValue(Rest(head, block)) \in Nat /\ block # <<>>
        /\ head + VarintBytes(Rest(head, block)) \in Nat \ {0}
    BY <2>1, <2>2, ShorterByNumber DEF BlockInv
  <2>4. block' \in Seq(Bytes) /\ Len(block') < Len(block)
    BY <2>1, <2>3, ConsumeShortens
  <2>5. QED
    BY <2>1, <2>3, <2>4 DEF BlockInv, Progress, States
<1>5. ASSUME scriptRemaining # 0, block # <<>>, Consume(Portion(scriptRemaining)), host' = host,
             scriptRemaining' = scriptRemaining - Portion(scriptRemaining),
             transactionState' = transactionState
      PROVE  BlockInv' /\ Progress /\ host' = host
  <2>1. scriptRemaining \in Nat \ {0}
    BY <1>5 DEF BlockInv
  <2>2. Portion(scriptRemaining) \in Nat \ {0} /\ Portion(scriptRemaining) <= scriptRemaining
    BY <1>5, <2>1, PortionIs
  <2>3. block' \in Seq(Bytes) /\ Len(block') < Len(block)
    BY <1>5, <2>2, ConsumeShortens
  <2>4. QED
    BY <1>5, <2>1, <2>2, <2>3 DEF BlockInv, Progress
<1>6. CASE ReadOutputScript /\ ~Wait
  <2>1. CASE scriptRemaining = 0
    BY <1>6, <2>1, LaterIs DEF ReadOutputScript, Turn, BlockInv, Progress, States, command
  <2>2. CASE scriptRemaining # 0
    BY <1>5, <1>6, <2>2 DEF ReadOutputScript
  <2>3. QED
    BY <2>1, <2>2
<1>7. CASE ReadLockTime /\ ~Fail
  <2> DEFINE extra == Rest(Width.lockTime, block)
  <2>1. /\ block # <<>> /\ host' = host /\ (extra # <<>> => VarintReadable(extra))
        /\ transactionState' = IF extra = <<>> THEN "PARSED" ELSE "PROCESS_EXTRA"
        /\ scriptRemaining' = IF extra = <<>> THEN scriptRemaining ELSE VarintValue(extra)
        /\ block' = IF extra = <<>> THEN <<>> ELSE Rest(VarintBytes(extra), extra)
    BY <1>7 DEF ReadLockTime
  <2>2. CASE extra = <<>>
    <3>1. Len(block) \in Nat \ {0} /\ <<>> \in Seq(Bytes) /\ Len(<<>>) = 0
      BY <2>1, EmptySeq DEF BlockInv
    <3>2. QED
      BY <2>1, <2>2, <3>1 DEF BlockInv, Progress, States
  <2>3. CASE extra # <<>>
    <3>1. Width.lockTime \in Nat
      OBVIOUS
    <3>2. VarintValue(extra) \in Nat /\ block' \in Seq(Bytes) /\ Len(block') < Len(block)
      BY <2>1, <2>3, <3>1, ShorterByNumber DEF BlockInv
    <3>3. QED
      BY <2>1, <2>3, <3>2 DEF BlockInv, Progress, States
  <2>4. QED
    BY <2>2, <2>3
<1>8. CASE ReadExtra /\ ~Wait
  <2>1. CASE scriptRemaining = 0
    BY <1>8, <2>1, LaterIs DEF ReadExtra, Turn, BlockInv, Progress, States, counters, command
  <2>2. CASE scriptRemaining # 0
    BY <1>5, <1>8, <2>2 DEF ReadExtra
  <2>3. QED
    BY <2>1, <2>2
<1>9. CASE EndOfTransaction
  BY <1>9, EmptySeq DEF EndOfTransaction, BlockInv, Progress, States, counters
<1>10. QED
  BY <1>1, <1>2, <1>3, <1>4, <1>6, <1>7, <1>8, <1>9
     DEF ParseOutputs, WaitForOutput, WaitForLockTime

\* What a host sends are bytes.
LEMMA SentBytes ==
  ASSUME NEW s \in Seq(Bytes), NEW n, NEW m \in Nat
  PROVE  /\ n \in 0 .. Len(s) => n \in Nat /\ First(n, s) \in Seq(Bytes)
         /\ n \in m + 1 .. Len(s) => n \in Nat /\ SubSeq(s, m + 1, n) \in Seq(Bytes)
<1>1. Len(s) \in Nat
  BY LenProperties
<1>2. ASSUME n \in 0 .. Len(s)
      PROVE  n \in Nat /\ First(n, s) \in Seq(Bytes)
  <2>1. n \in Nat /\ n \in Int /\ 1 \in Nat \ {0}
    BY <1>1, <1>2
  <2>2. QED
    BY <2>1, SliceIs, Zenon DEF First
<1>3. ASSUME n \in m + 1 .. Len(s)
      PROVE  n \in Nat /\ SubSeq(s, m + 1, n) \in Seq(Bytes)
  <2>1. n \in Nat /\ n \in Int /\ m + 1 \in Nat \ {0}
    BY <1>1, <1>3
  <2>2. Slice(m + 1, n, s) = SubSeq(s, m + 1, n)
    BY <1>1, <1>3 DEF Slice
  <2>3. QED
    BY <2>1, <2>2, SliceIs, Zenon
<1>4. QED
  BY <1>2, <1>3

\* What the history of the host says of the transaction and of the place is
\* not touched by what it says of the order.
StillSending(h, n) ==
  /\ h = [f \in {"tx", "mode", "sent", "orderly", "grouped", "begun"} |-> h[f]]
  /\ h.tx = host.tx /\ h.mode = host.mode /\ h.sent = n

LEMMA HostKeeps ==
  ASSUME SendingInv, NEW a \in BOOLEAN, NEW b \in BOOLEAN, NEW n \in Nat
  PROVE  /\ StillSending([host EXCEPT !.orderly = a, !.grouped = b], host.sent)
         /\ StillSending([host EXCEPT !.sent = n, !.orderly = a, !.grouped = b], n)
  BY DEF SendingInv, StillSending

LoopInv == BlockInv /\ SendingInv

\* What comes from the host, and a reset.
LEMMA ReceiveKeepsLoop ==
  ASSUME LoopInv, Receive \/ IoReset
  PROVE  LoopInv' /\ running = "none"
<1> USE DEF LoopInv, Listening
<1>0. \A t \in Txs, mode \in Modes : Stream[t][mode] \in Seq(Bytes)
  BY StreamAssumption
<1>1. ASSUME NEW t \in Txs, NEW mode \in Modes, NEW n, NEW first, SendFrom(t, mode, n, first)
      PROVE  block' \in Seq(Bytes) /\ SendingInv'
  <2>1. 0 \in Nat
    OBVIOUS
  <2>2. n \in Nat /\ First(n, Stream[t][mode]) \in Seq(Bytes)
    BY <1>0, <1>1, <2>1, SentBytes, Zenon DEF SendFrom
  <2>3. /\ block' = First(n, Stream[t][mode])
        /\ host' = [tx |-> t, mode |-> mode, sent |-> n, orderly |-> first,
                    grouped |-> first /\ n \in GroupCuts[t][mode], begun |-> host.begun + 1]
    BY <1>1, Zenon DEF SendFrom
  <2> DEFINE grouped == first /\ n \in GroupCuts[t][mode]
  <2>4. host' = [tx |-> t, mode |-> mode, sent |-> n, orderly |-> first,
                 grouped |-> grouped, begun |-> host.begun + 1]
    BY <2>3
  <2> HIDE DEF grouped
  <2>5. SendingInv'
    BY <2>2, <2>4 DEF SendingInv
  <2>6. block' \in Seq(Bytes)
    BY <2>2, <2>3, Zenon
  <2>7. QED
    BY <2>5, <2>6
<1>2. ASSUME host' = Disturbed
      PROVE  SendingInv'
  <2>1. 0 \in Nat /\ FALSE \in BOOLEAN
    OBVIOUS
  <2>2. StillSending(host', host.sent)
    BY <1>2, <2>1, HostKeeps, Zenon DEF Disturbed
  <2>3. QED
    BY <2>2 DEF SendingInv, StillSending
<1>3. ASSUME NEW n, host.tx # None, n \in host.sent + 1 .. Len(Stream[host.tx][host.mode])
      PROVE  /\ n \in Nat
             /\ SubSeq(Stream[host.tx][host.mode], host.sent + 1, n) \in Seq(Bytes)
  <2>1. host.tx \in Txs /\ host.mode \in Modes /\ host.sent \in Nat
    BY <1>3 DEF SendingInv
  <2>2. Stream[host.tx][host.mode] \in Seq(Bytes)
    BY <1>0, <2>1, Zenon
  <2>3. QED
    BY <1>3, <2>1, <2>2, SentBytes, Zenon
<1>4. ASSUME NEW t \in Txs, NEW n \in Positions, NEW target \in Targets,
             TrustedInputFirst(t, target, n)
      PROVE  LoopInv' /\ running = "none"
  <2>1. "TRUSTED_INPUT" \in Modes
    BY DEF Modes
  <2>2. block' \in Seq(Bytes) /\ SendingInv'
    BY <1>1, <1>4, <2>1 DEF TrustedInputFirst
  <2>3. QED
    BY <1>4, <2>2 DEF TrustedInputFirst, BlockInv, counters, States
<1>5. ASSUME NEW t \in Txs, NEW n \in Positions, NEW new \in BOOLEAN, StartFirst(t, new, n)
      PROVE  LoopInv' /\ running = "none"
  <2>1. "SIGNATURE" \in Modes
    BY DEF Modes
  <2>2. block' \in Seq(Bytes) /\ SendingInv'
    BY <1>1, <1>5, <2>1 DEF StartFirst
  <2>3. QED
    BY <1>5, <2>2 DEF StartFirst, BlockInv, counters, States
<1>6. ASSUME NEW mode \in Modes, NEW t \in Txs, NEW n \in Positions, NextAsFirst(mode, t, n)
      PROVE  LoopInv' /\ running = "none"
  <2>1. block' \in Seq(Bytes) /\ SendingInv'
    BY <1>1, <1>6 DEF NextAsFirst
  <2>2. QED
    BY <1>6, <2>1 DEF NextAsFirst, NextRuns, BlockInv, counters
<1>7. ASSUME NEW mode \in Modes, NEW n \in Positions, NextBlock(mode, n)
      PROVE  LoopInv' /\ running = "none"
  <2>1. /\ host.tx # None /\ n \in host.sent + 1 .. Len(Stream[host.tx][host.mode])
        /\ block' = SubSeq(Stream[host.tx][host.mode], host.sent + 1, n)
    BY <1>7, Zenon DEF NextBlock, SendUpTo
  <2>2. n \in Nat /\ block' \in Seq(Bytes)
    BY <1>3, <2>1, Zenon
  <2> DEFINE a == host.orderly /\ host.mode = mode
             b == host.grouped /\ host.mode = mode /\ n \in GroupCuts[host.tx][mode]
  <2>3. host' = [host EXCEPT !.sent = n, !.orderly = a, !.grouped = b]
    BY <1>7 DEF NextBlock
  <2>4. a \in BOOLEAN /\ b \in BOOLEAN
    OBVIOUS
  <2> HIDE DEF a, b
  <2>5. StillSending(host', n)
    BY <2>2, <2>3, <2>4, HostKeeps, Zenon
  <2>6. SendingInv'
    BY <2>1, <2>2, <2>5 DEF SendingInv, StillSending
  <2>7. QED
    BY <1>7, <2>2, <2>6 DEF NextBlock, NextRuns, BlockInv, counters
<1>8. ASSUME NEW n \in Positions, BlockLost(n)
      PROVE  LoopInv' /\ running = "none"
  <2>1. n \in Nat /\ FALSE \in BOOLEAN
    BY <1>3, <1>8, Zenon DEF BlockLost
  <2>2. StillSending(Disturbed, host.sent)
    BY <2>1, HostKeeps, Zenon DEF Disturbed
  <2>3. host' = [Disturbed EXCEPT !.sent = n]
    BY <1>8 DEF BlockLost
  <2> HIDE DEF Disturbed
  <2>4. SendingInv'
    BY <2>1, <2>2, <2>3 DEF SendingInv, StillSending
  <2>5. QED
    BY <1>8, <2>4 DEF BlockLost, BlockInv, counters
<1>9. ASSUME NEW target \in Targets, TrustedInputFirstRefused(target)
      PROVE  LoopInv' /\ running = "none"
  BY <1>2, <1>9 DEF TrustedInputFirstRefused, BlockInv, counters, States
<1>10. CASE StartFirstRefused
  BY <1>2, <1>10 DEF StartFirstRefused, BlockInv, counters, States
<1>11. ASSUME NEW mode \in Modes, NextRefused(mode)
       PROVE  LoopInv' /\ running = "none"
  BY <1>2, <1>11 DEF NextRefused, BlockInv, counters, States
<1>12. CASE IoReset
  BY <1>2, <1>12 DEF IoReset, BlockInv, States
<1>13. QED
  BY <1>4, <1>5, <1>6, <1>7, <1>8, <1>9, <1>10, <1>11, <1>12 DEF Receive

LEMMA LoopInvariance == Spec => []LoopInv
<1>1. Init => LoopInv
  BY EmptySeq DEF Init, LoopInv, BlockInv, SendingInv, States
<1>2. LoopInv /\ [Next]_vars => LoopInv'
  <2> SUFFICES ASSUME LoopInv, [Next]_vars
               PROVE  LoopInv'
    OBVIOUS
  <2>1. CASE UNCHANGED vars
    BY <2>1 DEF vars, counters, LoopInv, BlockInv, SendingInv
  <2>2. CASE Receive \/ IoReset
    BY <2>2, ReceiveKeepsLoop
  <2>3. CASE Parse
    <3>1. BlockInv' /\ host' = host
      BY <2>3, InputsProgress, OutputsProgress DEF Parse, LoopInv
    <3>2. QED
      BY <3>1 DEF LoopInv, SendingInv
  <2>4. QED
    BY <2>1, <2>2, <2>3 DEF Next
<1>3. QED
  BY <1>1, <1>2, PTL DEF Spec

\* The loop of transaction_parse, which has no bound of its own, ends for every
\* block the device may be sent: a turn that does not leave it takes bytes of
\* the block, or goes on to a later state of the transaction or the output.
THEOREM TheLoopEnds == Spec => LoopProgresses
<1> DEFINE Turns == running # "none" /\ running' # "none" =>
                      \/ Len(block') < Len(block)
                      \/ Len(block') = Len(block) /\ Later[transactionState'] < Later[transactionState]
<1>1. LoopInv /\ [Next]_vars => [Turns]_vars
  <2> SUFFICES ASSUME LoopInv, Next, running # "none", running' # "none"
               PROVE  Turns
    OBVIOUS
  <2>1. Parse
    BY ReceiveKeepsLoop DEF Next
  <2>2. QED
    BY <2>1, InputsProgress, OutputsProgress DEF Parse, LoopInv, Progress
<1>2. QED
  BY <1>1, LoopInvariance, PTL DEF Spec, LoopProgresses

-----------------------------------------------------------------------------
\* Bytes that follow bytes.

\* The first bytes of a sequence.
LEMMA FirstIs ==
  ASSUME NEW s \in Seq(Nat), NEW n \in Nat, n <= Len(s)
  PROVE  /\ First(n, s) \in Seq(Nat)
         /\ Len(First(n, s)) = n
         /\ \A i \in 1 .. n : First(n, s)[i] = s[i]
<1>1. Len(s) \in Nat /\ \A i \in 1 .. Len(s) : s[i] \in Nat
  BY LenProperties, ElementOfSeq
<1>2. First(n, s) = SubSeq(s, 1, n)
  BY DEF First, Slice
<1>3. \A i \in 1 .. n : s[i] \in Nat
  BY <1>1
<1>4. QED
  BY <1>1, <1>2, <1>3, SubSeqProperties

\* What follows the first bytes.
LEMMA AfterIs ==
  ASSUME NEW s \in Seq(Nat), NEW n \in Nat, n <= Len(s)
  PROVE  /\ Rest(n, s) \in Seq(Nat)
         /\ Len(Rest(n, s)) = Len(s) - n
         /\ \A i \in 1 .. Len(s) - n : Rest(n, s)[i] = s[n + i]
<1>1. Len(s) \in Nat /\ \A i \in 1 .. Len(s) : s[i] \in Nat
  BY LenProperties, ElementOfSeq
<1>2. Rest(n, s) = SubSeq(s, n + 1, Len(s))
  BY DEF Rest
<1>3. \A i \in n + 1 .. Len(s) : s[i] \in Nat
  BY <1>1
<1>4. n + 1 <= Len(s) + 1 /\ n + 1 \in Nat /\ n + 1 \in Int
  BY <1>1
<1>5. /\ SubSeq(s, n + 1, Len(s)) \in Seq(Nat)
      /\ Len(SubSeq(s, n + 1, Len(s))) =
           IF n + 1 <= Len(s) THEN Len(s) - (n + 1) + 1 ELSE 0
      /\ \A i \in 1 .. Len(s) - (n + 1) + 1 : SubSeq(s, n + 1, Len(s))[i] = s[n + 1 + i - 1]
  BY <1>1, <1>3, <1>4, SubSeqProperties
<1>6. \A i \in 1 .. Len(s) - n : i \in 1 .. Len(s) - (n + 1) + 1 /\ n + 1 + i - 1 = n + i
  BY <1>1
<1>7. QED
  BY <1>1, <1>2, <1>5, <1>6

\* Bytes that follow a sequence do not change what is in it.
LEMMA FollowedBy ==
  ASSUME NEW s \in Seq(Nat), NEW x \in Seq(Nat), NEW n \in Nat, n <= Len(s)
  PROVE  /\ s \o x \in Seq(Nat) /\ Len(s \o x) = Len(s) + Len(x)
         /\ First(n, s \o x) = First(n, s)
         /\ Rest(n, s \o x) = Rest(n, s) \o x
<1>1. /\ Len(s) \in Nat /\ Len(x) \in Nat
      /\ s \o x \in Seq(Nat) /\ Len(s \o x) = Len(s) + Len(x)
      /\ \A i \in 1 .. Len(s) : (s \o x)[i] = s[i]
      /\ \A i \in 1 .. Len(x) : (s \o x)[Len(s) + i] = x[i]
  BY LenProperties, ConcatProperties
<1>2. n <= Len(s \o x)
  BY <1>1
<1> DEFINE t == s \o x
<1> HIDE DEF t
<1>3. First(n, t) = First(n, s)
  <2>1. /\ First(n, s) \in Seq(Nat) /\ Len(First(n, s)) = n
        /\ \A i \in 1 .. n : First(n, s)[i] = s[i]
    BY FirstIs
  <2>2. /\ First(n, t) \in Seq(Nat) /\ Len(First(n, t)) = n
        /\ \A i \in 1 .. n : First(n, t)[i] = t[i]
    BY <1>1, <1>2, FirstIs DEF t
  <2>3. \A i \in 1 .. n : t[i] = s[i]
    BY <1>1 DEF t
  <2>4. QED
    BY <2>1, <2>2, <2>3, SeqEqual
<1>4. Rest(n, t) = Rest(n, s) \o x
  <2>1. /\ Rest(n, s) \in Seq(Nat) /\ Len(Rest(n, s)) = Len(s) - n
        /\ \A i \in 1 .. Len(s) - n : Rest(n, s)[i] = s[n + i]
    BY AfterIs
  <2>2. /\ Rest(n, t) \in Seq(Nat) /\ Len(Rest(n, t)) = Len(t) - n
        /\ \A i \in 1 .. Len(t) - n : Rest(n, t)[i] = t[n + i]
    BY <1>1, <1>2, AfterIs DEF t
  <2> DEFINE r == Rest(n, s)
             q == Rest(n, t)
  <2> HIDE DEF r, q
  <2>3. /\ r \o x \in Seq(Nat) /\ Len(r \o x) = Len(r) + Len(x)
        /\ \A i \in 1 .. Len(r) : (r \o x)[i] = r[i]
        /\ \A i \in 1 .. Len(x) : (r \o x)[Len(r) + i] = x[i]
    <3>1. r \in Seq(Nat)
      BY <2>1 DEF r
    <3>2. QED
      BY <3>1, ConcatProperties
  <2>4. Len(q) = Len(r \o x)
    BY <1>1, <2>1, <2>2, <2>3 DEF r, q, t
  <2>5. ASSUME NEW i \in 1 .. Len(q)
        PROVE  q[i] = (r \o x)[i]
    <3>0. /\ Len(r) \in Nat /\ Len(r) = Len(s) - n /\ Len(q) = Len(r) + Len(x) /\ Len(q) = Len(t) - n
          /\ i \in Nat
      BY <1>1, <2>1, <2>2, <2>3, <2>4 DEF r, q
    <3>1. q[i] = t[n + i]
      BY <2>2, <3>0 DEF q
    <3>2. CASE i <= Len(r)
      <4>1. i \in 1 .. Len(r) /\ n + i \in 1 .. Len(s)
        BY <3>0, <3>2
      <4>2. t[n + i] = s[n + i] /\ r[i] = s[n + i] /\ (r \o x)[i] = r[i]
        BY <4>1, <1>1, <2>1, <2>3 DEF r, t
      <4>3. QED
        BY <3>1, <4>2
    <3>3. CASE ~(i <= Len(r))
      <4> DEFINE j == i - Len(r)
      <4>1. j \in 1 .. Len(x) /\ Len(r) + j = i /\ Len(s) + j = n + i
        BY <1>1, <3>0, <3>3
      <4> HIDE DEF j
      <4>2. t[Len(s) + j] = x[j] /\ (r \o x)[Len(r) + j] = x[j]
        BY <4>1, <1>1, <2>3 DEF t
      <4>3. QED
        BY <3>1, <4>1, <4>2
    <3>4. QED
      BY <3>2, <3>3
  <2>6. QED
    BY <2>2, <2>3, <2>4, <2>5, SeqEqual DEF q, r
<1>5. QED
  BY <1>1, <1>3, <1>4 DEF t

\* A part of the first bytes, and the bytes after a part of them.
LEMMA FirstOfFirst ==
  ASSUME NEW s \in Seq(Nat), NEW n \in Nat, NEW m \in Nat, m <= n, n <= Len(s)
  PROVE  /\ First(m, First(n, s)) = First(m, s)
         /\ Rest(m, First(n, s)) = First(n - m, Rest(m, s))
<1> DEFINE f == First(n, s)
           r == Rest(m, s)
<1>1. Len(s) \in Nat /\ n - m \in Nat /\ m <= Len(s)
  BY LenProperties
<1>2. f \in Seq(Nat) /\ Len(f) = n /\ \A i \in 1 .. n : f[i] = s[i]
  BY FirstIs
<1>3. r \in Seq(Nat) /\ Len(r) = Len(s) - m /\ \A i \in 1 .. Len(s) - m : r[i] = s[m + i]
  BY <1>1, AfterIs
<1> HIDE DEF f, r
<1>4. First(m, f) = First(m, s)
  <2>1. /\ First(m, f) \in Seq(Nat) /\ Len(First(m, f)) = m
        /\ \A i \in 1 .. m : First(m, f)[i] = f[i]
    BY <1>2, FirstIs
  <2>2. /\ First(m, s) \in Seq(Nat) /\ Len(First(m, s)) = m
        /\ \A i \in 1 .. m : First(m, s)[i] = s[i]
    BY <1>1, FirstIs
  <2>3. \A i \in 1 .. m : f[i] = s[i]
    BY <1>2
  <2>4. QED
    BY <2>1, <2>2, <2>3, SeqEqual
<1>5. Rest(m, f) = First(n - m, r)
  <2>1. /\ Rest(m, f) \in Seq(Nat) /\ Len(Rest(m, f)) = n - m
        /\ \A i \in 1 .. n - m : Rest(m, f)[i] = f[m + i]
    BY <1>2, AfterIs
  <2>2. n - m <= Len(r)
    BY <1>1, <1>3
  <2>3. /\ First(n - m, r) \in Seq(Nat) /\ Len(First(n - m, r)) = n - m
        /\ \A i \in 1 .. n - m : First(n - m, r)[i] = r[i]
    BY <1>1, <1>3, <2>2, FirstIs
  <2>4. \A i \in 1 .. n - m : f[m + i] = s[m + i] /\ r[i] = s[m + i]
    <3>1. \A i \in 1 .. n - m : m + i \in 1 .. n /\ i \in 1 .. Len(s) - m
      BY <1>1
    <3>2. QED
      BY <1>2, <1>3, <3>1
  <2>5. QED
    BY <2>1, <2>3, <2>4, SeqEqual
<1>6. QED
  BY <1>4, <1>5 DEF f, r

\* After a whole sequence comes what follows it.
LEMMA AfterAll ==
  ASSUME NEW s \in Seq(Nat), NEW x \in Seq(Nat), NEW n \in Nat, n <= Len(x)
  PROVE  Rest(Len(s) + n, s \o x) = Rest(n, x)
<1>1. /\ Len(s) \in Nat /\ Len(x) \in Nat
      /\ s \o x \in Seq(Nat) /\ Len(s \o x) = Len(s) + Len(x)
      /\ \A i \in 1 .. Len(x) : (s \o x)[Len(s) + i] = x[i]
  BY LenProperties, ConcatProperties
<1> DEFINE t == s \o x
<1> HIDE DEF t
<1>2. Len(s) + n \in Nat /\ Len(s) + n <= Len(t)
  BY <1>1 DEF t
<1>3. /\ Rest(Len(s) + n, t) \in Seq(Nat) /\ Len(Rest(Len(s) + n, t)) = Len(t) - (Len(s) + n)
      /\ \A i \in 1 .. Len(t) - (Len(s) + n) : Rest(Len(s) + n, t)[i] = t[Len(s) + n + i]
  BY <1>1, <1>2, AfterIs DEF t
<1>4. /\ Rest(n, x) \in Seq(Nat) /\ Len(Rest(n, x)) = Len(x) - n
      /\ \A i \in 1 .. Len(x) - n : Rest(n, x)[i] = x[n + i]
  BY AfterIs
<1>5. Len(t) - (Len(s) + n) = Len(x) - n
  BY <1>1 DEF t
<1>6. \A i \in 1 .. Len(x) - n : t[Len(s) + n + i] = x[n + i]
  <2>1. \A i \in 1 .. Len(x) - n : n + i \in 1 .. Len(x) /\ Len(s) + n + i = Len(s) + (n + i)
    BY <1>1
  <2>2. QED
    BY <1>1, <2>1 DEF t
<1>7. QED
  BY <1>3, <1>4, <1>5, <1>6, SeqEqual DEF t

\* A number of variable length, read from naturals.
LEMMA NumberIs ==
  ASSUME NEW s \in Seq(Nat), VarintReadable(s)
  PROVE  /\ VarintBytes(s) \in {1, 3, 5} /\ VarintBytes(s) <= Len(s)
         /\ Len(s) \in Nat \ {0} /\ s[1] \in Nat
         /\ VarintValue(s) \in Nat
<1>1. s # <<>> /\ Len(s) >= VarintBytes(s)
  BY DEF VarintReadable
<1>2. Len(s) \in Nat \ {0}
  BY <1>1, EmptySeq
<1>3. s[1] \in Nat
  BY <1>2, ElementOfSeq
<1>4. VarintBytes(s) \in {1, 3, 5}
  BY DEF VarintBytes
<1>5. VarintValue(s) \in Nat
  <2>1. Len(s) \in Nat /\ VarintBytes(s) \in Nat /\ VarintBytes(s) <= Len(s)
    BY <1>1, <1>2, <1>4
  <2>2. Slice(2, VarintBytes(s), s) = SubSeq(s, 2, VarintBytes(s))
    BY <2>1 DEF Slice
  <2>3. \A i \in 2 .. VarintBytes(s) : s[i] \in Nat
    BY <2>1, ElementOfSeq
  <2>4. Slice(2, VarintBytes(s), s) \in Seq(Nat)
    <3> DEFINE v == VarintBytes(s)
    <3>1. 2 \in Int /\ v \in Int /\ \A i \in 2 .. v : s[i] \in Nat
      BY <2>1, <2>3
    <3> HIDE DEF v
    <3>2. SubSeq(s, 2, v) \in Seq(Nat)
      BY <3>1, SubSeqProperties
    <3>3. QED
      BY <2>2, <3>2 DEF v
  <2>5. LittleEndian(Slice(2, VarintBytes(s), s)) \in Nat
    BY <2>4, LittleEndianType
  <2>6. QED
    BY <1>3, <2>5, Zenon DEF VarintValue
<1>6. QED
  BY <1>1, <1>2, <1>3, <1>4, <1>5

\* It is what its bytes say: two sequences that agree on the bytes of a number
\* that can be read from the first hold the same number.
LEMMA SameNumber ==
  ASSUME NEW s \in Seq(Nat), NEW t \in Seq(Nat), VarintReadable(s),
         VarintBytes(s) <= Len(t), \A i \in 1 .. VarintBytes(s) : t[i] = s[i]
  PROVE  /\ VarintReadable(t)
         /\ VarintBytes(t) = VarintBytes(s)
         /\ VarintValue(t) = VarintValue(s)
<1>1. /\ VarintBytes(s) \in {1, 3, 5} /\ VarintBytes(s) <= Len(s)
      /\ Len(s) \in Nat \ {0} /\ s[1] # 255
  BY NumberIs DEF VarintReadable
<1>2. Len(t) \in Nat \ {0} /\ t # <<>>
  BY <1>1, LenProperties, EmptySeq
<1>3. t[1] = s[1]
  BY <1>1
<1>4. VarintBytes(t) = VarintBytes(s)
  BY <1>3 DEF VarintBytes
<1>5. VarintReadable(t)
  BY <1>1, <1>2, <1>3, <1>4 DEF VarintReadable
<1> DEFINE v == VarintBytes(s)
<1>6. Slice(2, v, t) = Slice(2, v, s)
  <2>0. v \in Nat /\ v \in Int /\ 2 \in Int /\ v <= Len(s) /\ v <= Len(t)
        /\ Len(s) \in Nat /\ Len(t) \in Nat
    BY <1>1, <1>2
  <2> HIDE DEF v
  <2>1. Slice(2, v, s) = SubSeq(s, 2, v) /\ Slice(2, v, t) = SubSeq(t, 2, v)
    BY <2>0 DEF Slice
  <2>2. (\A i \in 2 .. v : s[i] \in Nat) /\ (\A i \in 2 .. v : t[i] \in Nat)
    BY <2>0, ElementOfSeq
  <2>3. /\ SubSeq(s, 2, v) \in Seq(Nat)
        /\ Len(SubSeq(s, 2, v)) = IF 2 <= v THEN v - 2 + 1 ELSE 0
        /\ \A i \in 1 .. v - 2 + 1 : SubSeq(s, 2, v)[i] = s[2 + i - 1]
    BY <2>0, <2>2, SubSeqProperties
  <2>4. /\ SubSeq(t, 2, v) \in Seq(Nat)
        /\ Len(SubSeq(t, 2, v)) = IF 2 <= v THEN v - 2 + 1 ELSE 0
        /\ \A i \in 1 .. v - 2 + 1 : SubSeq(t, 2, v)[i] = t[2 + i - 1]
    BY <2>0, <2>2, SubSeqProperties
  <2>5. \A i \in 1 .. v - 2 + 1 : t[2 + i - 1] = s[2 + i - 1]
    <3>1. \A i \in 1 .. v - 2 + 1 : 2 + i - 1 \in 1 .. v
      BY <2>0
    <3>2. QED
      BY <3>1 DEF v
  <2> DEFINE p == SubSeq(s, 2, v)
             q == SubSeq(t, 2, v)
  <2>6. \A i \in 1 .. Len(p) : i \in 1 .. v - 2 + 1
    BY <2>0, <2>3
  <2>7. p \in Seq(Nat) /\ q \in Seq(Nat) /\ Len(q) = Len(p) /\ \A i \in 1 .. Len(p) : q[i] = p[i]
    BY <2>3, <2>4, <2>5, <2>6
  <2> HIDE DEF p, q
  <2>8. q = p
    BY <2>7, SeqEqual
  <2>9. QED
    BY <2>1, <2>8 DEF p, q
<1>7. VarintValue(t) = VarintValue(s)
  BY <1>3, <1>4, <1>6 DEF VarintValue
<1>8. QED
  BY <1>4, <1>5, <1>7

\* Bytes after a sequence do not change the numbers in it.
LEMMA NumberStays ==
  ASSUME NEW s \in Seq(Nat), NEW x \in Seq(Nat), NEW n \in Nat, VarintReadable(Rest(n, s))
  PROVE  /\ n + VarintBytes(Rest(n, s)) <= Len(s)
         /\ VarintReadable(Rest(n, s \o x))
         /\ VarintBytes(Rest(n, s \o x)) = VarintBytes(Rest(n, s))
         /\ VarintValue(Rest(n, s \o x)) = VarintValue(Rest(n, s))
<1>0. Len(s) \in Nat
  BY LenProperties
<1>1. n < Len(s)
  <2>1. Rest(n, s) # <<>>
    BY DEF VarintReadable
  <2>2. CASE ~(n < Len(s))
    <3>1. Rest(n, s) = SubSeq(s, n + 1, Len(s)) /\ n + 1 > Len(s)
      BY <1>0, <2>2 DEF Rest
    <3>2. \A i \in n + 1 .. Len(s) : s[i] \in Nat
      BY <1>0, <3>1
    <3>3. Rest(n, s) \in Seq(Nat) /\ Len(Rest(n, s)) = 0
      BY <1>0, <3>1, <3>2, SubSeqProperties
    <3>4. QED
      BY <2>1, <3>3, EmptySeq
  <2>3. QED
    BY <2>2
<1>2. Rest(n, s) \in Seq(Nat) /\ Len(Rest(n, s)) = Len(s) - n
  BY <1>0, <1>1, AfterIs
<1>3. Rest(n, s \o x) = Rest(n, s) \o x
  BY <1>0, <1>1, FollowedBy
<1> DEFINE r == Rest(n, s)
           t == r \o x
<1>4. /\ t \in Seq(Nat) /\ Len(t) = Len(r) + Len(x) /\ \A i \in 1 .. Len(r) : t[i] = r[i]
  <2>1. r \in Seq(Nat)
    BY <1>2
  <2> HIDE DEF r
  <2>2. QED
    BY <2>1, ConcatProperties
<1>5. VarintBytes(r) \in {1, 3, 5} /\ VarintBytes(r) <= Len(r) /\ Len(r) \in Nat /\ Len(x) \in Nat
  BY <1>2, NumberIs, LenProperties
<1>6. r \in Seq(Nat) /\ VarintReadable(r)
  BY <1>2
<1> HIDE DEF r, t
<1>7. VarintBytes(r) <= Len(t) /\ \A i \in 1 .. VarintBytes(r) : t[i] = r[i]
  BY <1>4, <1>5
<1>8. VarintReadable(t) /\ VarintBytes(t) = VarintBytes(r) /\ VarintValue(t) = VarintValue(r)
  BY <1>4, <1>6, <1>7, SameNumber
<1>9. QED
  BY <1>0, <1>1, <1>2, <1>3, <1>5, <1>8 DEF r, t

\* A number may be cut off after its last byte.
LEMMA NumberAlone ==
  ASSUME NEW s \in Seq(Nat), VarintReadable(s)
  PROVE  LET f == First(VarintBytes(s), s)
         IN  /\ f \in Seq(Nat) /\ Len(f) = VarintBytes(s)
             /\ VarintReadable(f)
             /\ VarintBytes(f) = VarintBytes(s)
             /\ VarintValue(f) = VarintValue(s)
<1> DEFINE v == VarintBytes(s)
           f == First(v, s)
<1>1. v \in Nat /\ v <= Len(s)
  BY NumberIs
<1>2. f \in Seq(Nat) /\ Len(f) = v /\ \A i \in 1 .. v : f[i] = s[i]
  <2> HIDE DEF v
  <2>1. QED
    BY <1>1, FirstIs
<1>3. v <= Len(f)
  BY <1>1, <1>2
<1> HIDE DEF f
<1>4. VarintReadable(f) /\ VarintBytes(f) = v /\ VarintValue(f) = VarintValue(s)
  BY <1>2, <1>3, SameNumber
<1>5. QED
  BY <1>2, <1>4 DEF f

-----------------------------------------------------------------------------
\* Where the outputs are.

\* What OutputAt computes, as a function of the number of the output.
Starts(g, content) ==
  g = [k \in Nat |->
         IF k = 0 THEN OutputsAt(content) + VarintBytes(Rest(OutputsAt(content), content))
         ELSE LET fixed == g[k - 1] + Width.amount + Width.scriptVersion
                  length == Rest(fixed, content)
              IN  fixed + VarintBytes(length) + VarintValue(length)]

\* Where the output after the one at a place starts.
NextAt(at, content) ==
  LET fixed == at + Width.amount + Width.scriptVersion
      length == Rest(fixed, content)
  IN  fixed + VarintBytes(length) + VarintValue(length)

\* The recursion has a solution up to any output, and it is the only one.
StartsUpto(g, content, n) ==
  /\ g[0] = OutputsAt(content) + VarintBytes(Rest(OutputsAt(content), content))
  /\ \A k \in 0 .. n - 1 : g[k + 1] = NextAt(g[k], content)

\* Two solutions agree as far as both go.
LEMMA StartsAgree ==
  ASSUME NEW content, NEW g, NEW h, NEW n \in Nat,
         StartsUpto(g, content, n), StartsUpto(h, content, n)
  PROVE  \A k \in 0 .. n : g[k] = h[k]
<1> DEFINE T == {k \in Nat : k <= n => g[k] = h[k]}
<1>1. 0 \in T
  BY DEF StartsUpto
<1>2. ASSUME NEW k \in Nat, k \in T
      PROVE  k + 1 \in T
  <2>1. SUFFICES ASSUME k + 1 <= n
                 PROVE  g[k + 1] = h[k + 1]
    OBVIOUS
  <2>2. k \in 0 .. n - 1 /\ g[k] = h[k]
    BY <1>2, <2>1
  <2>3. g[k + 1] = NextAt(g[k], content) /\ h[k + 1] = NextAt(h[k], content)
    BY <2>2 DEF StartsUpto
  <2>4. QED
    BY <2>2, <2>3
<1> HIDE DEF T
<1>3. Nat \subseteq T
  BY <1>1, <1>2, NaturalsIn
<1>4. QED
  BY <1>3 DEF T

\* A solution goes as far as one likes.
LEMMA StartsExistUpto ==
  ASSUME NEW content, NEW n \in Nat
  PROVE  \E g : StartsUpto(g, content, n)
<1> DEFINE T == {m \in Nat : \E g : StartsUpto(g, content, m)}
           base == OutputsAt(content) + VarintBytes(Rest(OutputsAt(content), content))
<1> HIDE DEF base
<1>1. 0 \in T
  <2>1. StartsUpto([k \in Nat |-> base], content, 0)
    BY DEF StartsUpto, base
  <2>2. QED
    BY <2>1
<1>2. ASSUME NEW m \in Nat, m \in T
      PROVE  m + 1 \in T
  <2>1. PICK g : StartsUpto(g, content, m)
    BY <1>2
  <2> DEFINE h == [k \in Nat |-> IF k = m + 1 THEN NextAt(g[m], content) ELSE g[k]]
  <2>2. h[0] = g[0]
    OBVIOUS
  <2>3. ASSUME NEW k \in 0 .. (m + 1) - 1
        PROVE  h[k + 1] = NextAt(h[k], content)
    <3>1. k \in Nat /\ k # m + 1 /\ h[k] = g[k]
      OBVIOUS
    <3>2. CASE k = m
      <4>1. h[m + 1] = NextAt(g[m], content)
        OBVIOUS
      <4>2. QED
        BY <3>1, <3>2, <4>1
    <3>3. CASE k # m
      <4>1. k \in 0 .. m - 1 /\ k + 1 # m + 1 /\ k + 1 \in Nat
        BY <3>3
      <4>2. h[k + 1] = g[k + 1] /\ g[k + 1] = NextAt(g[k], content)
        BY <2>1, <4>1 DEF StartsUpto
      <4>3. QED
        BY <3>1, <4>2
    <3>4. QED
      BY <3>2, <3>3
  <2> HIDE DEF h
  <2>4. StartsUpto(h, content, m + 1)
    BY <2>1, <2>2, <2>3 DEF StartsUpto
  <2>5. m + 1 \in Nat
    OBVIOUS
  <2>6. QED
    BY <2>4, <2>5
<1> HIDE DEF T
<1>3. Nat \subseteq T
  BY <1>1, <1>2, NaturalsIn
<1>4. QED
  BY <1>3 DEF T

\* And there is one that goes on for ever.
LEMMA StartsExist ==
  ASSUME NEW content
  PROVE  \E g : Starts(g, content)
<1> DEFINE upto(n) == CHOOSE g : StartsUpto(g, content, n)
           h == [k \in Nat |-> upto(k)[k]]
           base == OutputsAt(content) + VarintBytes(Rest(OutputsAt(content), content))
<1>1. \A n \in Nat : StartsUpto(upto(n), content, n)
  BY StartsExistUpto
<1> HIDE DEF upto, base
<1>2. h[0] = base
  BY <1>1 DEF StartsUpto, base
<1>3. ASSUME NEW k \in Nat
      PROVE  h[k + 1] = NextAt(h[k], content)
  <2>1. k + 1 \in Nat /\ k \in 0 .. (k + 1) - 1 /\ k \in 0 .. k
    OBVIOUS
  <2>2. StartsUpto(upto(k), content, k) /\ StartsUpto(upto(k + 1), content, k + 1)
    BY <1>1, <2>1
  <2>3. StartsUpto(upto(k + 1), content, k)
    <3>1. \A i \in 0 .. k - 1 : i \in 0 .. (k + 1) - 1
      OBVIOUS
    <3>2. QED
      BY <2>2, <3>1 DEF StartsUpto
  <2>4. upto(k + 1)[k] = upto(k)[k]
    BY <2>1, <2>2, <2>3, StartsAgree
  <2>5. upto(k + 1)[k + 1] = NextAt(upto(k + 1)[k], content)
    BY <2>1, <2>2 DEF StartsUpto
  <2>6. h[k + 1] = upto(k + 1)[k + 1] /\ h[k] = upto(k)[k]
    BY <2>1
  <2>7. QED
    BY <2>4, <2>5, <2>6
<1>4. h = [k \in Nat |-> h[k]]
  OBVIOUS
<1> HIDE DEF h
<1>5. ASSUME NEW k \in Nat
      PROVE  h[k] = IF k = 0 THEN base ELSE NextAt(h[k - 1], content)
  <2>1. CASE k = 0
    BY <1>2, <2>1
  <2>2. CASE k # 0
    <3>1. k - 1 \in Nat /\ (k - 1) + 1 = k
      BY <2>2
    <3>2. h[(k - 1) + 1] = NextAt(h[k - 1], content)
      BY <1>3, <3>1
    <3>3. QED
      BY <2>2, <3>1, <3>2
  <2>3. QED
    BY <2>1, <2>2
<1>6. h = [k \in Nat |-> IF k = 0 THEN base ELSE NextAt(h[k - 1], content)]
  BY <1>4, <1>5
<1>7. Starts(h, content)
  BY <1>6, Zenon DEF Starts, NextAt, base
<1>8. QED
  BY <1>7

\* So OutputAt is what its recursion says.
LEMMA OutputAtIs ==
  ASSUME NEW content
  PROVE  /\ OutputAt(content, 0) =
              OutputsAt(content) + VarintBytes(Rest(OutputsAt(content), content))
         /\ \A k \in Nat : OutputAt(content, k + 1) = NextAt(OutputAt(content, k), content)
<1> DEFINE g == CHOOSE g : Starts(g, content)
           base == OutputsAt(content) + VarintBytes(Rest(OutputsAt(content), content))
<1>1. Starts(g, content)
  BY StartsExist
<1>2. \A k : OutputAt(content, k) = g[k]
  BY Zenon DEF OutputAt, Starts
<1> HIDE DEF g, base
<1>3. \A k \in Nat : g[k] = IF k = 0 THEN base ELSE NextAt(g[k - 1], content)
  BY <1>1, Zenon DEF Starts, NextAt, base
<1>4. g[0] = base
  BY <1>3
<1>5. ASSUME NEW k \in Nat
      PROVE  g[k + 1] = NextAt(g[k], content)
  <2>1. k + 1 \in Nat /\ k + 1 # 0 /\ (k + 1) - 1 = k
    OBVIOUS
  <2>2. g[k + 1] = NextAt(g[(k + 1) - 1], content)
    BY <1>3, <2>1
  <2>3. QED
    BY <2>1, <2>2
<1>6. QED
  BY <1>2, <1>4, <1>5 DEF base
-----------------------------------------------------------------------------
\* Trusted inputs keep their word.

\* A number of variable length starts after n bytes of the content.
NumberAt(n, content) == VarintReadable(Rest(n, content))

\* The bytes of an input that its prefix hash covers.
InputWidth == Width.outpoint + Width.tree + Width.sequence

\* Where the first input starts.
InputsAt(content) == Width.version + VarintBytes(Rest(Width.version, content))

\* The bytes of an output before the length of its script.
OutputHead == Width.amount + Width.scriptVersion

\* The numbers of inputs and of outputs, as the content has them.
InputCount(content) == VarintValue(Rest(Width.version, content))
OutputCount(content) == VarintValue(Rest(OutputsAt(content), content))

\* Output k is there up to its script, whose length is known.
OutputHere(content, k) ==
  OutputAt(content, k) \in Nat /\ NumberAt(OutputAt(content, k) + OutputHead, content)

\* The first n outputs are.
OutputsHere(content, n) == \A k \in 0 .. n - 1 : OutputHere(content, k)

\* The content says where the outputs start, and how many there are.
OutputsCounted(content) ==
  /\ NumberAt(Width.version, content)
  /\ NumberAt(OutputsAt(content), content)


\* Where an output of known length ends: a natural.
LEMMA NextAtIs ==
  ASSUME NEW c \in Seq(Nat), NEW at \in Nat, NumberAt(at + OutputHead, c)
  PROVE  /\ NextAt(at, c) = at + OutputHead + VarintBytes(Rest(at + OutputHead, c))
                                            + VarintValue(Rest(at + OutputHead, c))
         /\ NextAt(at, c) \in Nat
         /\ at + OutputHead \in Nat /\ at + OutputHead + VarintBytes(Rest(at + OutputHead, c)) <= Len(c)
<1>1. at + OutputHead \in Nat /\ at + Width.amount + Width.scriptVersion = at + OutputHead
  BY WidthAssumption DEF WidthAssumption, OutputHead
<1> DEFINE r == Rest(at + OutputHead, c)
<1>2. NextAt(at, c) = at + OutputHead + VarintBytes(r) + VarintValue(r)
  BY <1>1 DEF NextAt
<1>3. at + OutputHead + VarintBytes(r) <= Len(c)
  <2>1. <<>> \in Seq(Nat)
    OBVIOUS
  <2>2. QED
    BY <1>1, <2>1, NumberStays DEF NumberAt
<1>4. r \in Seq(Nat) /\ VarintReadable(r)
  <2>1. \A i \in at + OutputHead + 1 .. Len(c) : c[i] \in Nat
    BY <1>1, LenProperties, ElementOfSeq
  <2>2. r \in Seq(Nat)
    BY <1>1, <2>1, LenProperties, SubSeqProperties DEF Rest
  <2>3. QED
    BY <2>2 DEF NumberAt
<1> HIDE DEF r
<1>5. VarintBytes(r) \in Nat /\ VarintValue(r) \in Nat
  BY <1>4, NumberIs
<1>6. QED
  BY <1>1, <1>2, <1>3, <1>5 DEF r

\* A number that can be read has a value and a length, and ends in the content.
LEMMA NumberAtIs ==
  ASSUME NEW c \in Seq(Nat), NEW n \in Nat, NumberAt(n, c)
  PROVE  /\ VarintBytes(Rest(n, c)) \in {1, 3, 5} /\ VarintValue(Rest(n, c)) \in Nat
         /\ n + VarintBytes(Rest(n, c)) <= Len(c) /\ Len(c) \in Nat
         /\ n < Len(c)
<1>1. n + VarintBytes(Rest(n, c)) <= Len(c)
  <2>1. <<>> \in Seq(Nat)
    OBVIOUS
  <2>2. QED
    BY <2>1, NumberStays DEF NumberAt
<1> DEFINE r == Rest(n, c)
<1>2. r \in Seq(Nat) /\ VarintReadable(r)
  <2>0. n + 1 \in Int /\ Len(c) \in Nat
    BY LenProperties
  <2>1. \A i \in n + 1 .. Len(c) : c[i] \in Nat
    BY <2>0, ElementOfSeq
  <2>2. r \in Seq(Nat)
    BY <2>0, <2>1, SubSeqProperties DEF Rest
  <2>3. QED
    BY <2>2 DEF NumberAt
<1> HIDE DEF r
<1>3. VarintBytes(r) \in {1, 3, 5} /\ VarintValue(r) \in Nat
  BY <1>2, NumberIs
<1>4. Len(c) \in Nat
  BY LenProperties
<1>5. QED
  BY <1>1, <1>3, <1>4 DEF r

\* The number of inputs and where the outputs start are settled early on.
LEMMA InputsStay ==
  ASSUME NEW c \in Seq(Nat), NEW x \in Seq(Nat), NumberAt(Width.version, c)
  PROVE  /\ NumberAt(Width.version, c \o x)
         /\ InputCount(c \o x) = InputCount(c) /\ InputCount(c) \in Nat
         /\ InputsAt(c \o x) = InputsAt(c) /\ InputsAt(c) \in Nat
         /\ OutputsAt(c \o x) = OutputsAt(c) /\ OutputsAt(c) \in Nat
         /\ OutputsAt(c) = InputsAt(c) + InputWidth * InputCount(c)
<1>1. Width.version \in Nat /\ InputWidth \in Nat
  BY WidthAssumption DEF WidthAssumption, InputWidth
<1>2. /\ NumberAt(Width.version, c \o x)
      /\ VarintBytes(Rest(Width.version, c \o x)) = VarintBytes(Rest(Width.version, c))
      /\ VarintValue(Rest(Width.version, c \o x)) = VarintValue(Rest(Width.version, c))
  BY <1>1, NumberStays DEF NumberAt
<1>3. /\ VarintBytes(Rest(Width.version, c)) \in Nat
      /\ VarintValue(Rest(Width.version, c)) \in Nat
  BY <1>1, NumberAtIs
<1>4. InputCount(c \o x) = InputCount(c) /\ InputCount(c) \in Nat
  BY <1>2, <1>3 DEF InputCount
<1>5. InputsAt(c \o x) = InputsAt(c) /\ InputsAt(c) \in Nat
  BY <1>1, <1>2, <1>3 DEF InputsAt
<1>6. \A t : OutputsAt(t) = InputsAt(t) + InputWidth * InputCount(t)
  BY DEF OutputsAt, InputsAt, InputWidth, InputCount
<1>7. InputWidth * InputCount(c) \in Nat
  BY <1>1, <1>4
<1>8. QED
  BY <1>2, <1>4, <1>5, <1>6, <1>7

\* So is every output that is there, and where the next one starts.
LEMMA OutputsStay ==
  ASSUME NEW c \in Seq(Nat), NEW x \in Seq(Nat), NEW n \in Nat,
         OutputsCounted(c), OutputsHere(c, n)
  PROVE  /\ OutputsCounted(c \o x)
         /\ OutputCount(c \o x) = OutputCount(c) /\ OutputCount(c) \in Nat
         /\ OutputsHere(c \o x, n)
         /\ \A k \in 0 .. n : OutputAt(c \o x, k) = OutputAt(c, k) /\ OutputAt(c, k) \in Nat
<1> DEFINE d == c \o x
<1>0. d \in Seq(Nat)
  BY ConcatProperties
<1>1. /\ NumberAt(Width.version, d)
      /\ OutputsAt(d) = OutputsAt(c) /\ OutputsAt(c) \in Nat
  BY InputsStay DEF OutputsCounted
<1>2. /\ NumberAt(OutputsAt(c), d)
      /\ VarintBytes(Rest(OutputsAt(c), d)) = VarintBytes(Rest(OutputsAt(c), c))
      /\ VarintValue(Rest(OutputsAt(c), d)) = VarintValue(Rest(OutputsAt(c), c))
  BY <1>1, NumberStays DEF OutputsCounted, NumberAt
<1>3. VarintBytes(Rest(OutputsAt(c), c)) \in Nat /\ VarintValue(Rest(OutputsAt(c), c)) \in Nat
  BY <1>1, NumberAtIs DEF OutputsCounted
<1>4. ASSUME NEW k \in 0 .. n - 1, NEW at \in Nat, at = OutputAt(c, k)
      PROVE  NumberAt(at + OutputHead, d) /\ NextAt(at, d) = NextAt(at, c) /\ NextAt(at, c) \in Nat
  <2>1. NumberAt(at + OutputHead, c)
    BY <1>4 DEF OutputsHere, OutputHere
  <2>2. at + OutputHead \in Nat
    BY <2>1, NextAtIs
  <2>3. /\ NumberAt(at + OutputHead, d)
        /\ VarintBytes(Rest(at + OutputHead, d)) = VarintBytes(Rest(at + OutputHead, c))
        /\ VarintValue(Rest(at + OutputHead, d)) = VarintValue(Rest(at + OutputHead, c))
    BY <2>1, <2>2, NumberStays DEF NumberAt
  <2> HIDE DEF d
  <2>4. QED
    BY <1>0, <2>1, <2>3, NextAtIs
<1>5. \A k \in 0 .. n : OutputAt(d, k) = OutputAt(c, k) /\ OutputAt(c, k) \in Nat
  <2> DEFINE T == {k \in Nat : k <= n => OutputAt(d, k) = OutputAt(c, k) /\ OutputAt(c, k) \in Nat}
  <2>1. 0 \in T
    <3> HIDE DEF d
    <3>1. /\ OutputAt(d, 0) = OutputsAt(d) + VarintBytes(Rest(OutputsAt(d), d))
          /\ OutputAt(c, 0) = OutputsAt(c) + VarintBytes(Rest(OutputsAt(c), c))
      BY OutputAtIs
    <3>2. OutputAt(d, 0) = OutputAt(c, 0) /\ OutputAt(c, 0) \in Nat
      BY <1>1, <1>2, <1>3, <3>1
    <3>3. QED
      BY <3>2
  <2>2. ASSUME NEW k \in Nat, k \in T
        PROVE  k + 1 \in T
    <3>1. SUFFICES ASSUME k + 1 <= n
                   PROVE  OutputAt(d, k + 1) = OutputAt(c, k + 1) /\ OutputAt(c, k + 1) \in Nat
      OBVIOUS
    <3>2. k \in 0 .. n - 1 /\ OutputAt(d, k) = OutputAt(c, k) /\ OutputAt(c, k) \in Nat
      BY <2>2, <3>1
    <3> HIDE DEF d
    <3>3. NextAt(OutputAt(c, k), d) = NextAt(OutputAt(c, k), c) /\ NextAt(OutputAt(c, k), c) \in Nat
      BY <1>4, <3>2
    <3>4. OutputAt(d, k + 1) = NextAt(OutputAt(d, k), d) /\ OutputAt(c, k + 1) = NextAt(OutputAt(c, k), c)
      BY OutputAtIs
    <3>5. QED
      BY <3>2, <3>3, <3>4
  <2> HIDE DEF T
  <2>3. Nat \subseteq T
    BY <2>1, <2>2, NaturalsIn
  <2>4. QED
    BY <2>3 DEF T
<1>6. OutputsHere(d, n)
  <2>1. SUFFICES ASSUME NEW k \in 0 .. n - 1
                 PROVE  OutputHere(d, k)
    BY DEF OutputsHere
  <2>2. k \in 0 .. n
    OBVIOUS
  <2>3. OutputAt(d, k) = OutputAt(c, k) /\ OutputAt(c, k) \in Nat
    BY <1>5, <2>2
  <2>4. NumberAt(OutputAt(c, k) + OutputHead, d)
    BY <1>4, <2>3
  <2>5. QED
    BY <2>3, <2>4 DEF OutputHere
<1> HIDE DEF d
<1>7. OutputsCounted(d) /\ OutputCount(d) = OutputCount(c) /\ OutputCount(c) \in Nat
  BY <1>1, <1>2, <1>3 DEF OutputsCounted, OutputCount
<1>8. QED
  BY <1>5, <1>6, <1>7 DEF d

\* And what an output pays.
LEMMA PaymentStays ==
  ASSUME NEW c \in Seq(Nat), NEW x \in Seq(Nat), NEW i \in Nat, NEW amount,
         OutputsCounted(c), OutputsHere(c, i + 1), OutputPays(c, i, amount)
  PROVE  OutputPays(c \o x, i, amount)
<1>1. /\ OutputsCounted(c \o x) /\ OutputCount(c \o x) = OutputCount(c)
      /\ OutputAt(c \o x, i) = OutputAt(c, i) /\ OutputAt(c, i) \in Nat
  BY OutputsStay
<1>2. OutputsAt(c \o x) = OutputsAt(c) /\ OutputsAt(c) \in Nat
  BY InputsStay DEF OutputsCounted
<1>3. Len(c) \in Nat /\ Len(x) \in Nat /\ Len(c \o x) = Len(c) + Len(x)
  BY LenProperties, ConcatProperties
<1> DEFINE at == OutputAt(c, i)
<1>4. at \in Nat /\ NumberAt(at + OutputHead, c)
  BY DEF OutputsHere, OutputHere
<1>5. at + Width.amount <= Len(c) /\ Width.amount \in Nat /\ at <= Len(c)
  <2>1. at + OutputHead <= Len(c)
    <3>1. at + OutputHead \in Nat
      BY <1>4, NextAtIs
    <3> HIDE DEF at
    <3>2. QED
      BY <1>4, <3>1, NumberAtIs
  <2>2. Width.amount \in Nat /\ Width.scriptVersion \in Nat /\ OutputHead = Width.amount + Width.scriptVersion
    BY WidthAssumption DEF WidthAssumption, OutputHead
  <2> HIDE DEF at
  <2>3. QED
    BY <1>3, <1>4, <2>1, <2>2
<1> HIDE DEF at
<1>6. Rest(at, c \o x) = Rest(at, c) \o x
  BY <1>4, <1>5, FollowedBy
<1>7. Rest(at, c) \in Seq(Nat) /\ Width.amount <= Len(Rest(at, c))
  <2>1. Rest(at, c) \in Seq(Nat) /\ Len(Rest(at, c)) = Len(c) - at
    BY <1>4, <1>5, AfterIs
  <2>2. QED
    BY <1>3, <1>4, <1>5, <2>1
<1>8. First(Width.amount, Rest(at, c \o x)) = First(Width.amount, Rest(at, c))
  BY <1>5, <1>6, <1>7, FollowedBy
<1>9. LittleEndian(First(Width.amount, Rest(at, c))) = amount
  BY DEF OutputPays, at
<1>10. OutputsAt(c) < Len(c) /\ i < OutputCount(c)
  BY DEF OutputPays, OutputCount
<1>11. OutputsAt(c \o x) < Len(c \o x) /\ i < OutputCount(c \o x)
  BY <1>1, <1>2, <1>3, <1>10
<1>12. LittleEndian(First(Width.amount, Rest(OutputAt(c \o x, i), c \o x))) = amount
  BY <1>1, <1>8, <1>9 DEF at
<1>13. QED
  BY <1>11, <1>12 DEF OutputPays, OutputCount

-----------------------------------------------------------------------------
\* What the parser hashed so far of a transaction read for a trusted input.

\* While the inputs are read: those read so far, and n bytes of the current one.
InputsHashed(n) ==
  /\ NumberAt(Width.version, prefix)
  /\ transactionRemainingInputsOutputs \in Nat
  /\ transactionCurrentInputOutput + transactionRemainingInputsOutputs = InputCount(prefix)
  /\ Len(prefix) = InputsAt(prefix) + InputWidth * transactionCurrentInputOutput + n

\* While the outputs are read: those before the current one.
OutputsHashed ==
  /\ OutputsCounted(prefix)
  /\ transactionRemainingInputsOutputs \in Nat
  /\ transactionCurrentInputOutput + transactionRemainingInputsOutputs = OutputCount(prefix)
  /\ OutputsHere(prefix, transactionCurrentInputOutput)

\* The output asked for is hashed, and pays the amount that is remembered.
TargetPaid ==
  /\ OutputsCounted(prefix)
  /\ OutputsHere(prefix, transactionTargetInput + 1)
  /\ OutputPays(prefix, transactionTargetInput, transactionAmount)

\* Where the parser is in the bytes it has hashed, state by state.
ReadingInv ==
  /\ transactionState = "DEFINED_WAIT_INPUT" =>
       transactionHashOption = {"FULL"} /\ InputsHashed(0)
  /\ transactionState = "INPUT_SCRIPT" =>
       /\ transactionHashOption = {"WITNESS"}
       /\ transactionRemainingInputsOutputs # 0
       /\ InputsHashed(Width.outpoint + Width.tree)
  /\ transactionState = "INPUT_HASHING_DONE" =>
       /\ transactionHashOption = {"FULL"}
       /\ NumberAt(Width.version, prefix)
       /\ Len(prefix) = OutputsAt(prefix)
  /\ transactionState = "DEFINED_WAIT_OUTPUT" =>
       /\ transactionHashOption = {"FULL"}
       /\ OutputsHashed
       /\ Len(prefix) = OutputAt(prefix, transactionCurrentInputOutput)
  /\ transactionState = "OUTPUT_SCRIPT" =>
       /\ transactionHashOption = {"FULL"}
       /\ transactionRemainingInputsOutputs # 0
       /\ OutputsHashed
       /\ OutputHere(prefix, transactionCurrentInputOutput)
       /\ Len(prefix) + scriptRemaining = OutputAt(prefix, transactionCurrentInputOutput + 1)
  /\ transactionState # "NONE" /\ trustedInputProcessed => TargetPaid

\* In the mode of a trusted input the hash is read from its first byte.
TrustInv == prefix \in Seq(Nat) /\ (parseMode = "TRUSTED_INPUT" => ReadingInv)

\* The content of the hash is followed by more bytes, or by none.
Grown == \E x \in Seq(Nat) : prefix' = prefix \o x

\* The provers take bytes for natural numbers only when told.
LEMMA BytesAreNaturals ==
  ASSUME NEW b \in Seq(Bytes)
  PROVE  /\ b \in Seq(Nat)
         /\ \A n \in Nat : First(n, b) \in Seq(Nat) /\ Rest(n, b) \in Seq(Nat)
         /\ \A m \in Nat \ {0}, n \in Nat : Slice(m, n, b) \in Seq(Nat)
<1>1. Bytes \subseteq Nat
  BY DEF Bytes
<1>2. \A s \in Seq(Bytes) : s \in Seq(Nat)
  BY <1>1, SeqMonotonic, Zenon
<1>3. ASSUME NEW m \in Nat \ {0}, NEW n \in Nat
      PROVE  Slice(m, n, b) \in Seq(Nat)
  <2>1. n \in Int
    OBVIOUS
  <2>2. QED
    BY <1>2, <2>1, SliceIs, Zenon
<1>4. ASSUME NEW n \in Nat
      PROVE  First(n, b) \in Seq(Nat) /\ Rest(n, b) \in Seq(Nat)
  <2>1. 1 \in Nat \ {0}
    OBVIOUS
  <2>2. First(n, b) \in Seq(Nat)
    BY <1>3, <2>1, Zenon DEF First
  <2>3. Rest(n, b) \in Seq(Nat)
    BY <1>2, RestIs, Zenon
  <2>4. QED
    BY <2>2, <2>3
<1>5. QED
  BY <1>2, <1>3, <1>4

\* So are those of the block.
LEMMA BlockIsNaturals ==
  ASSUME BlockInv
  PROVE  block \in Seq(Nat)
  BY BytesAreNaturals DEF BlockInv

\* The widths are positive.
LEMMA WidthsAre ==
  /\ Width.version \in Nat \ {0} /\ Width.sequence \in Nat /\ Width.amount \in Nat
  /\ Width.scriptVersion \in Nat /\ Width.outpoint + Width.tree \in Nat
  /\ InputWidth \in Nat /\ InputWidth = (Width.outpoint + Width.tree) + Width.sequence
  /\ OutputHead \in Nat /\ OutputHead = Width.amount + Width.scriptVersion
  BY WidthAssumption DEF WidthAssumption, InputWidth, OutputHead

\* What is appended twice is appended once.
LEMMA Regrouped ==
  \A s \in Seq(Nat), x \in Seq(Nat), y \in Seq(Nat) :
    x \o y \in Seq(Nat) /\ (s \o x) \o y = s \o (x \o y)
OBVIOUS

\* The same, when the first is known by a name.
LEMMA AppendTwice ==
  ASSUME NEW s \in Seq(Nat), NEW x \in Seq(Nat), NEW y \in Seq(Nat), NEW t, t = s \o x
  PROVE  x \o y \in Seq(Nat) /\ t \o y = s \o (x \o y)
BY Regrouped

\* The serialization type does not change the length of the version.
LEMMA SetBitsIs ==
  ASSUME NEW v \in Seq(Nat), v # <<>>, NEW mask
  PROVE  SetBits(v, mask) \in Seq(Nat) /\ Len(SetBits(v, mask)) = Len(v)
<1> DEFINE last == Len(v)
           b == v[last]
           set == IF mask = 1 THEN b + 1 - (b % 2) ELSE b + 3 - (b % 4)
<1>1. last \in 1 .. Len(v) /\ Len(v) \in Nat \ {0}
  BY EmptySeq
<1>2. b \in Nat
  <2> HIDE DEF last
  <2>1. QED
    BY <1>1, ElementOfSeq
<1>3. set \in Nat
  <2> HIDE DEF b
  <2>1. b % 2 \in 0 .. 1 /\ b % 4 \in 0 .. 3
    BY <1>2
  <2>2. QED
    BY <1>2, <2>1
<1>4. SetBits(v, mask) = [v EXCEPT ![last] = set]
  BY DEF SetBits
<1> HIDE DEF last, set
<1>5. QED
  BY <1>1, <1>3, <1>4, ExceptSeq

\* Hashed appends, or leaves the content alone.
LEMMA HashedGrows ==
  ASSUME prefix \in Seq(Nat), NEW hash, NEW option, NEW x \in Seq(Nat)
  PROVE  /\ Hashed(prefix, hash, option, x) \in Seq(Nat)
         /\ \E y \in Seq(Nat) : Hashed(prefix, hash, option, x) = prefix \o y
<1>1. prefix \o x \in Seq(Nat)
  BY ConcatProperties
<1>2. <<>> \in Seq(Nat) /\ prefix \o <<>> = prefix
  BY ConcatEmptySeq, EmptySeq
<1>3. QED
  BY <1>1, <1>2 DEF Hashed

\* A turn that hashes nothing.
LEMMA UnchangedGrows ==
  ASSUME prefix \in Seq(Nat), prefix' = prefix
  PROVE  Grown
<1>1. <<>> \in Seq(Nat) /\ prefix \o <<>> = prefix
  BY ConcatEmptySeq, EmptySeq
<1>2. QED
  BY <1>1 DEF Grown

\* What has grown begins with what it was.
LEMMA GrownIs ==
  ASSUME prefix \in Seq(Nat), Grown
  PROVE  prefix' \in Seq(Nat) /\ IsPrefix(prefix, prefix')
<1>1. PICK x \in Seq(Nat) : prefix' = prefix \o x
  BY DEF Grown
<1>2. prefix' \in Seq(Nat) /\ Len(prefix') = Len(prefix) + Len(x) /\ Len(prefix) \in Nat /\ Len(x) \in Nat
  BY <1>1, ConcatProperties, LenProperties
<1>3. First(Len(prefix), prefix') = First(Len(prefix), prefix)
  <2>1. Len(prefix) <= Len(prefix)
    BY <1>2
  <2>2. QED
    BY <1>1, <1>2, <2>1, FollowedBy
<1>4. SubSeq(prefix', 1, Len(prefix)) = SubSeq(prefix, 1, Len(prefix)) /\ Len(prefix) <= Len(prefix')
  BY <1>2, <1>3 DEF First, Slice
<1>5. QED
  BY <1>2, <1>4 DEF IsPrefix

\* A turn that hashes twice.
LEMMA GrownTwice ==
  ASSUME prefix \in Seq(Nat), NEW x \in Seq(Nat), NEW y \in Seq(Nat), NEW t,
         t = prefix \o x, prefix' = t \o y
  PROVE  prefix' \in Seq(Nat) /\ Grown
<1>1. x \o y \in Seq(Nat) /\ prefix' = prefix \o (x \o y)
  BY Regrouped
<1>2. QED
  BY <1>1, ConcatProperties DEF Grown

\* The bytes of the forms of an input that its prefix takes.
LEMMA InputFormIs ==
  ASSUME BlockInv, NEW mode, NEW in \in InputForm(mode)
  PROVE  in.hashed \in Seq(Nat) /\ in.taken \in Nat /\ (mode = "TRUSTED_INPUT" => in = PlainInput)
<1> USE WidthAssumption DEF WidthAssumption
<1>1. /\ in \in {PlainInput, UntrustedInput, TrustedInput}
      /\ mode = "TRUSTED_INPUT" => in = PlainInput
      /\ in = TrustedInput => block[2] \in DOMAIN TrustedInputs \/ in = PlainInput \/ in = UntrustedInput
  BY DEF InputForm
<1>2. PlainInput.hashed \in Seq(Nat) /\ PlainInput.taken \in Nat
  <2>1. Width.outpoint + Width.tree \in Nat
    OBVIOUS
  <2>2. QED
    BY <2>1, BytesAreNaturals DEF PlainInput, BlockInv
<1>3. UntrustedInput.hashed \in Seq(Nat) /\ UntrustedInput.taken \in Nat
  <2>1. 1 + Width.outpoint \in Nat /\ 2 \in Nat \ {0}
    OBVIOUS
  <2>2. Slice(2, 1 + Width.outpoint, block) \in Seq(Nat)
    BY <2>1, BytesAreNaturals DEF BlockInv
  <2>3. QED
    BY <2>1, <2>2 DEF UntrustedInput
<1>4. ASSUME block[2] \in DOMAIN TrustedInputs
      PROVE  TrustedInput.hashed \in Seq(Nat) /\ TrustedInput.taken \in Nat
  <2> DEFINE data == 1 + Width.trusted
             tree == Slice(data + 1, data + Width.tree, block)
             outpoint == TrustedInputs[block[2]].outpoint
  <2>1. data + 1 \in Nat \ {0} /\ data + Width.tree \in Nat
    OBVIOUS
  <2>2. tree \in Seq(Nat)
    BY <2>1, BytesAreNaturals DEF BlockInv
  <2>3. outpoint \in Seq(Nat)
    BY <1>4
  <2>4. TrustedInput.hashed = outpoint \o tree /\ TrustedInput.taken = data + Width.tree
    BY DEF TrustedInput
  <2> HIDE DEF tree, outpoint
  <2>5. QED
    BY <2>1, <2>2, <2>3, <2>4, ConcatProperties
<1>5. QED
  BY <1>1, <1>2, <1>3, <1>4

\* What a turn of the loop does to the hash: it forgets the transaction, begins
\* one, or hashes more bytes of it.
LEMMA ParseGrows ==
  ASSUME BlockInv, prefix \in Seq(Nat), Parse
  PROVE  /\ prefix' \in Seq(Nat)
         /\ transactionState' = "NONE" \/ transactionState = "NONE" \/ Grown
<1> USE WidthAssumption DEF WidthAssumption
<1>0. prefix' = prefix => prefix' \in Seq(Nat) /\ Grown
  BY UnchangedGrows
<1>1. CASE Fail \/ Wait
  BY <1>0, <1>1 DEF Fail, Wait, hashes
<1>2. ASSUME NEW x \in Seq(Nat), prefix' = Hashed(prefix, "FULL", transactionHashOption, x)
      PROVE  prefix' \in Seq(Nat) /\ Grown
  BY <1>2, HashedGrows DEF Grown
<1>3. ASSUME NEW n \in Nat, Consume(n)
      PROVE  prefix' \in Seq(Nat) /\ Grown
  <2>1. First(n, block) \in Seq(Nat)
    BY BytesAreNaturals DEF BlockInv
  <2>2. QED
    BY <1>2, <1>3, <2>1 DEF Consume
<1>4. CASE BeginTransaction /\ ~Fail
  <2> DEFINE count == Rest(Width.version, block)
             version == First(Width.version, block)
  <2>1. /\ VarintReadable(count) /\ transactionState = "NONE"
        /\ prefix' = SetBits(version, PrefixOnly) \o First(VarintBytes(count), count)
    BY <1>4 DEF BeginTransaction, Turn
  <2>2. Width.version \in Nat /\ version \in Seq(Nat) /\ count \in Seq(Nat)
    BY BytesAreNaturals DEF BlockInv
  <2>3. version # <<>>
    <3>1. block \in Seq(Nat) /\ block # <<>>
      BY <2>1, <2>2, ShorterByNumber, BytesAreNaturals DEF BlockInv
    <3>2. Width.version <= Len(block)
      BY <2>1, <3>1, NumberAtIs DEF NumberAt
    <3>3. Len(version) = Width.version
      BY <2>2, <3>1, <3>2, FirstIs
    <3>4. Len(<<>>) = 0
      OBVIOUS
    <3> HIDE DEF version
    <3>5. QED
      BY <3>3, <3>4
  <2>4. First(VarintBytes(count), count) \in Seq(Nat)
    <3> HIDE DEF count
    <3>1. QED
      BY <2>1, <2>2, NumberAlone
  <2>5. SetBits(version, PrefixOnly) \in Seq(Nat)
    BY <2>2, <2>3, SetBitsIs
  <2> HIDE DEF count, version
  <2>6. QED
    BY <2>1, <2>4, <2>5, ConcatProperties
<1>5. CASE InputsDone \/ PresignReady \/ OutputsDone
  BY <1>0, <1>5 DEF InputsDone, PresignReady, OutputsDone, hashes
<1>6. CASE ReadInput
  <2>1. PICK in \in InputForm(running) :
          prefix' = Hashed(prefix, "FULL", transactionHashOption, in.hashed)
    BY <1>6 DEF ReadInput
  <2>2. QED
    BY <1>2, <2>1, InputFormIs
<1>7. CASE ScriptBytes
  <2>1. /\ scriptRemaining > 1 /\ Consume(Portion(scriptRemaining - 1)) /\ block # <<>>
    BY <1>7 DEF ScriptBytes
  <2>2. scriptRemaining - 1 \in Nat \ {0}
    BY <2>1 DEF BlockInv
  <2>3. Portion(scriptRemaining - 1) \in Nat
    BY <2>1, <2>2, PortionIs
  <2>4. QED
    BY <1>3, <2>1, <2>3
<1>8. CASE EndOfInput /\ ~Fail
  <2> DEFINE last == First(scriptRemaining, block)
             sequence == Slice(scriptRemaining + 1, scriptRemaining + Width.sequence, block)
             head == Hashed(prefix, "FULL", transactionHashOption, last)
  <2>1. prefix' = head \o sequence
    BY <1>8 DEF EndOfInput
  <2>2. scriptRemaining \in Nat /\ scriptRemaining + 1 \in Nat \ {0} /\ scriptRemaining + Width.sequence \in Nat
    BY DEF BlockInv
  <2>3. last \in Seq(Nat) /\ sequence \in Seq(Nat)
    BY <2>2, BytesAreNaturals DEF BlockInv
  <2> HIDE DEF last, sequence
  <2>4. PICK y \in Seq(Nat) : head = prefix \o y
    BY <2>3, HashedGrows
  <2> HIDE DEF head
  <2>5. sequence \in Seq(Nat)
    BY <2>3
  <2>6. QED
    BY <2>1, <2>4, <2>5, GrownTwice
<1>9. CASE ReadOutputCount /\ ~(Fail \/ Wait)
  <2>1. Consume(VarintBytes(block)) /\ VarintReadable(block)
    BY <1>9 DEF ReadOutputCount
  <2>2. VarintBytes(block) \in Nat
    <3>1. block \in Seq(Bytes)
      BY DEF BlockInv
    <3>2. VarintBytes(block) \in {1, 3, 5}
      BY <2>1, <3>1, VarintIs
    <3>3. QED
      BY <3>2
  <2>3. QED
    BY <1>3, <2>1, <2>2
<1>10. CASE ReadOutput /\ ~Fail
  <2> DEFINE head == Width.amount + Width.scriptVersion
  <2>1. /\ VarintReadable(Rest(head, block))
        /\ Consume(head + VarintBytes(Rest(head, block)))
    BY <1>10 DEF ReadOutput
  <2>2. head \in Nat
    OBVIOUS
  <2>3. head + VarintBytes(Rest(head, block)) \in Nat
    BY <2>1, <2>2, ShorterByNumber DEF BlockInv
  <2>4. QED
    BY <1>3, <2>1, <2>3
<1>11. ASSUME scriptRemaining # 0, block # <<>>, Consume(Portion(scriptRemaining))
       PROVE  prefix' \in Seq(Nat) /\ Grown
  <2>1. scriptRemaining \in Nat \ {0}
    BY <1>11 DEF BlockInv
  <2>2. Portion(scriptRemaining) \in Nat
    BY <1>11, <2>1, PortionIs
  <2>3. QED
    BY <1>3, <1>11, <2>2
<1>12. CASE ReadOutputScript /\ ~Wait
  BY <1>0, <1>11, <1>12 DEF ReadOutputScript, hashes
<1>13. CASE ReadLockTime /\ ~Fail
  <2>1. prefix' = Hashed(prefix, "FULL", transactionHashOption, First(Width.lockTime, block))
    BY <1>13 DEF ReadLockTime
  <2>2. First(Width.lockTime, block) \in Seq(Nat)
    BY BytesAreNaturals DEF BlockInv
  <2>3. QED
    BY <1>2, <2>1, <2>2
<1>14. CASE ReadExtra /\ ~Wait
  BY <1>0, <1>11, <1>14 DEF ReadExtra, hashes
<1>15. CASE EndOfTransaction
  BY <1>0, <1>15 DEF EndOfTransaction, hashes
<1>16. CASE ParseInputs
  BY <1>1, <1>4, <1>5, <1>6, <1>7, <1>8, <1>16
     DEF ParseInputs, WaitForInput, InputRejected, WaitForScript, EndOfInputs
<1>17. CASE ParseOutputs
  BY <1>1, <1>5, <1>9, <1>10, <1>12, <1>13, <1>14, <1>15, <1>17
     DEF ParseOutputs, WaitForOutput, WaitForLockTime
<1>18. QED
  BY <1>16, <1>17 DEF Parse

\* What is hashed of a transaction read for a trusted input, turn by turn.
Reading ==
  /\ BlockInv /\ TargetInv /\ prefix \in Seq(Nat)
  /\ parseMode = "TRUSTED_INPUT" /\ running = "TRUSTED_INPUT"
  /\ ReadingInv

\* What stays as it is stays true.
LEMMA ReadingKept ==
  ASSUME ReadingInv,
         UNCHANGED <<transactionState, transactionRemainingInputsOutputs,
                     transactionCurrentInputOutput, scriptRemaining, transactionAmount,
                     transactionHashOption, prefix, request>>
  PROVE  ReadingInv'
  BY DEF ReadingInv, InputsHashed, OutputsHashed, TargetPaid, request

\* The output asked for goes on paying what is remembered.
LEMMA TargetStillPaid ==
  ASSUME prefix \in Seq(Nat), Grown, TargetPaid, transactionTargetInput \in Nat,
         UNCHANGED <<transactionTargetInput, transactionAmount>>
  PROVE  TargetPaid'
<1>1. PICK x \in Seq(Nat) : prefix' = prefix \o x
  BY DEF Grown
<1>2. transactionTargetInput + 1 \in Nat
  OBVIOUS
<1>3. /\ OutputsCounted(prefix) /\ OutputsHere(prefix, transactionTargetInput + 1)
      /\ OutputPays(prefix, transactionTargetInput, transactionAmount)
  BY DEF TargetPaid
<1>4. OutputsCounted(prefix \o x) /\ OutputsHere(prefix \o x, transactionTargetInput + 1)
  BY <1>2, <1>3, OutputsStay
<1>5. OutputPays(prefix \o x, transactionTargetInput, transactionAmount)
  BY <1>3, PaymentStays
<1>6. OutputsCounted(prefix') /\ OutputsHere(prefix', transactionTargetInput' + 1)
      /\ OutputPays(prefix', transactionTargetInput', transactionAmount')
  BY <1>1, <1>4, <1>5
<1>7. QED
  BY <1>6 DEF TargetPaid

\* The version and the number of inputs.
LEMMA BeginReads ==
  ASSUME Reading, BeginTransaction, ~Fail
  PROVE  ReadingInv'
<1> DEFINE count == Rest(Width.version, block)
           version == First(Width.version, block)
           number == First(VarintBytes(count), count)
           head == SetBits(version, PrefixOnly)
<1>1. /\ VarintReadable(count) /\ transactionState = "NONE"
      /\ transactionState' = "DEFINED_WAIT_INPUT"
      /\ transactionRemainingInputsOutputs' = VarintValue(count)
      /\ transactionCurrentInputOutput' = 0
      /\ transactionHashOption' = {"FULL"}
      /\ prefix' = head \o number
      /\ UNCHANGED request
  BY DEF BeginTransaction, Turn
<1>2. Width.version \in Nat /\ block \in Seq(Nat) /\ version \in Seq(Nat) /\ count \in Seq(Nat)
  BY WidthAssumption, BytesAreNaturals DEF WidthAssumption, Reading, BlockInv
<1>3. Len(version) = Width.version /\ Width.version \in Nat \ {0}
  <2>1. Width.version <= Len(block)
    BY <1>1, <1>2, NumberAtIs DEF NumberAt
  <2>2. QED
    BY <1>2, <2>1, FirstIs, WidthAssumption DEF WidthAssumption
<1>4. head \in Seq(Nat) /\ Len(head) = Width.version
  <2>1. Len(<<>>) = 0
    OBVIOUS
  <2> HIDE DEF version
  <2>2. version # <<>>
    BY <1>3, <2>1
  <2>3. QED
    BY <1>2, <1>3, <2>2, SetBitsIs
<1> HIDE DEF count, version
<1>5. /\ number \in Seq(Nat) /\ Len(number) = VarintBytes(count)
      /\ VarintReadable(number)
      /\ VarintBytes(number) = VarintBytes(count)
      /\ VarintValue(number) = VarintValue(count)
  BY <1>1, <1>2, NumberAlone
<1>6. VarintValue(count) \in Nat /\ VarintBytes(count) \in Nat
  <2>1. VarintBytes(count) \in {1, 3, 5} /\ VarintValue(count) \in Nat
    BY <1>1, <1>2, NumberIs
  <2>2. QED
    BY <2>1
<1> HIDE DEF head, number
<1>7. Rest(Width.version, head \o number) = number /\ Len(head \o number) = Len(head) + Len(number)
  <2>1. Len(number) \in Nat /\ 0 <= Len(number) /\ Len(head) + 0 = Len(head)
    BY <1>4, <1>5, LenProperties
  <2>2. Rest(Len(head) + 0, head \o number) = Rest(0, number)
    BY <1>4, <1>5, <2>1, AfterAll
  <2>3. Rest(0, number) = number
    BY <1>5, SubSeqFull DEF Rest
  <2>4. QED
    BY <1>4, <1>5, <2>1, <2>2, <2>3, ConcatProperties
<1>8. /\ NumberAt(Width.version, prefix')
      /\ InputCount(prefix') = VarintValue(count)
      /\ InputsAt(prefix') = Width.version + VarintBytes(count)
      /\ Len(prefix') = Width.version + VarintBytes(count)
  BY <1>1, <1>4, <1>5, <1>7 DEF NumberAt, InputCount, InputsAt
<1>9. InputWidth * 0 = 0
  BY WidthAssumption DEF WidthAssumption, InputWidth
<1>10. InputsHashed(0)'
  BY <1>1, <1>2, <1>6, <1>8, <1>9 DEF InputsHashed
<1>11. ~trustedInputProcessed'
  BY <1>1 DEF Reading, TargetInv, request
<1>12. QED
  BY <1>1, <1>10, <1>11 DEF ReadingInv

\* An input up to its script.
LEMMA InputReads ==
  ASSUME Reading, ReadInput
  PROVE  ReadingInv'
<1> DEFINE n == Width.outpoint + Width.tree
           head == First(n, block)
<1>1. /\ transactionState = "DEFINED_WAIT_INPUT" /\ transactionState' = "INPUT_SCRIPT"
      /\ transactionRemainingInputsOutputs # 0
      /\ transactionHashOption' = {"WITNESS"}
      /\ UNCHANGED <<transactionRemainingInputsOutputs, transactionCurrentInputOutput, request>>
  BY DEF ReadInput, Turn
<1>2. transactionHashOption = {"FULL"} /\ InputsHashed(0)
  BY <1>1 DEF Reading, ReadingInv
<1>3. n \in Nat /\ block \in Seq(Nat) /\ InputWidth \in Nat
  BY WidthsAre, BlockIsNaturals DEF Reading
<1>4. PICK in \in InputForm(running) :
        /\ VarintReadable(Rest(in.taken, block))
        /\ prefix' = Hashed(prefix, "FULL", transactionHashOption, in.hashed)
  BY DEF ReadInput
<1>5. in = PlainInput
  BY InputFormIs DEF Reading
<1>6. in.taken = n /\ in.hashed = head
  BY <1>5 DEF PlainInput
<1> HIDE DEF n, head
<1>7. prefix' = prefix \o head
  BY <1>2, <1>4, <1>6 DEF Hashed
<1>8. head \in Seq(Nat) /\ Len(head) = n
  <2>1. n <= Len(block)
    BY <1>3, <1>4, <1>6, NumberAtIs DEF NumberAt
  <2>2. QED
    BY <1>3, <2>1, FirstIs DEF head
<1>9. /\ NumberAt(Width.version, prefix') /\ InputCount(prefix') = InputCount(prefix)
      /\ InputsAt(prefix') = InputsAt(prefix) /\ InputsAt(prefix) \in Nat
  BY <1>2, <1>7, <1>8, InputsStay DEF InputsHashed, Reading
<1>10. Len(prefix') = Len(prefix) + n
  BY <1>7, <1>8, ConcatProperties DEF Reading
<1>11. /\ transactionRemainingInputsOutputs' \in Nat
       /\ transactionCurrentInputOutput' + transactionRemainingInputsOutputs' = InputCount(prefix')
  BY <1>1, <1>2, <1>9 DEF InputsHashed
<1>12. Len(prefix') = InputsAt(prefix') + InputWidth * transactionCurrentInputOutput' + n
  <2>1. transactionCurrentInputOutput \in Nat /\ transactionCurrentInputOutput' = transactionCurrentInputOutput
    BY <1>1 DEF Reading, TargetInv
  <2>2. Len(prefix) = InputsAt(prefix) + InputWidth * transactionCurrentInputOutput + 0
    BY <1>2 DEF InputsHashed
  <2>3. InputWidth * transactionCurrentInputOutput \in Nat
    BY <1>3, <2>1
  <2>4. QED
    BY <1>3, <1>9, <1>10, <2>1, <2>2, <2>3
<1>13. InputsHashed(n)'
  <2>1. n' = n
    BY DEF n
  <2>2. QED
    BY <1>9, <1>11, <1>12, <2>1 DEF InputsHashed
<1>14. ~trustedInputProcessed'
  BY <1>1 DEF Reading, TargetInv, request
<1>15. QED
  BY <1>1, <1>13, <1>14 DEF ReadingInv, n

\* The bytes of its script are not in the prefix.
LEMMA ScriptReads ==
  ASSUME Reading, ScriptBytes
  PROVE  ReadingInv'
<1>1. /\ transactionState = "INPUT_SCRIPT" /\ transactionState' = "INPUT_SCRIPT"
      /\ UNCHANGED <<transactionRemainingInputsOutputs, transactionCurrentInputOutput,
                     transactionHashOption, transactionAmount, request>>
      /\ Consume(Portion(scriptRemaining - 1))
  BY DEF ScriptBytes, Turn
<1>2. transactionHashOption = {"WITNESS"}
  BY <1>1 DEF Reading, ReadingInv
<1>3. prefix' = prefix
  BY <1>1, <1>2 DEF Consume, Hashed
<1>4. QED
  BY <1>1, <1>3 DEF Reading, ReadingInv, InputsHashed, TargetPaid, request

\* The sequence ends the input.
LEMMA EndOfInputReads ==
  ASSUME Reading, EndOfInput, ~Fail
  PROVE  ReadingInv'
<1> DEFINE r == scriptRemaining
           sequence == Slice(r + 1, r + Width.sequence, block)
           n == Width.outpoint + Width.tree
<1>1. /\ transactionState = "INPUT_SCRIPT" /\ transactionState' = "DEFINED_WAIT_INPUT"
      /\ transactionRemainingInputsOutputs' = transactionRemainingInputsOutputs - 1
      /\ transactionCurrentInputOutput' = transactionCurrentInputOutput + 1
      /\ prefix' = Hashed(prefix, "FULL", transactionHashOption, First(r, block)) \o sequence
      /\ transactionHashOption' = {"FULL"}
      /\ Available(r + Width.sequence)
      /\ UNCHANGED request
  BY DEF EndOfInput, Turn
<1>2. transactionHashOption = {"WITNESS"} /\ transactionRemainingInputsOutputs # 0 /\ InputsHashed(n)
  BY <1>1 DEF Reading, ReadingInv
<1>3. prefix' = prefix \o sequence
  BY <1>1, <1>2 DEF Hashed
<1>4. n \in Nat /\ r \in Nat /\ Width.sequence \in Nat /\ block \in Seq(Nat)
      /\ InputWidth = n + Width.sequence
  <2>1. r \in Nat /\ block \in Seq(Nat)
    BY BlockIsNaturals DEF Reading, BlockInv
  <2>2. QED
    BY <2>1, WidthsAre
<1>5. r + Width.sequence <= Len(block) /\ Len(block) \in Nat
  BY <1>1, <1>4, LenProperties DEF Available
<1>6. sequence \in Seq(Nat) /\ Len(sequence) = Width.sequence
  <2> HIDE DEF r
  <2>1. \A i \in r + 1 .. r + Width.sequence : block[i] \in Nat
    BY <1>4, <1>5, ElementOfSeq
  <2>2. r + 1 \in Int /\ r + Width.sequence \in Int
    BY <1>4
  <2> DEFINE a == r + 1
             b == r + Width.sequence
  <2>3. sequence = SubSeq(block, a, b)
    BY <1>5 DEF Slice
  <2>4. (IF a <= b THEN b - a + 1 ELSE 0) = Width.sequence
    BY <1>4
  <2>5. a \in Int /\ b \in Int /\ \A i \in a .. b : block[i] \in Nat
    BY <2>1, <2>2
  <2> HIDE DEF a, b
  <2>6. /\ SubSeq(block, a, b) \in Seq(Nat)
        /\ Len(SubSeq(block, a, b)) = IF a <= b THEN b - a + 1 ELSE 0
    BY <2>5, SubSeqProperties
  <2> HIDE DEF sequence
  <2>7. QED
    BY <2>3, <2>4, <2>6
<1> HIDE DEF r, sequence, n
<1>7. /\ NumberAt(Width.version, prefix') /\ InputCount(prefix') = InputCount(prefix)
      /\ InputsAt(prefix') = InputsAt(prefix) /\ InputsAt(prefix) \in Nat
  BY <1>2, <1>3, <1>6, InputsStay DEF InputsHashed, Reading
<1>8. Len(prefix') = Len(prefix) + Width.sequence
  BY <1>3, <1>6, ConcatProperties DEF Reading
<1>9. transactionCurrentInputOutput \in Nat
  BY DEF Reading, TargetInv
<1>10. /\ transactionRemainingInputsOutputs' \in Nat
       /\ transactionCurrentInputOutput' + transactionRemainingInputsOutputs' = InputCount(prefix')
  BY <1>1, <1>2, <1>7, <1>9 DEF InputsHashed
<1>11. Len(prefix') = InputsAt(prefix') + InputWidth * transactionCurrentInputOutput' + 0
  <2> DEFINE k == transactionCurrentInputOutput
  <2>1. InputWidth * (k + 1) = InputWidth * k + InputWidth /\ InputWidth * k \in Nat
    <3>1. \A a \in Nat, m \in Nat : a * (m + 1) = a * m + a /\ a * m \in Nat
      OBVIOUS
    <3>2. InputWidth \in Nat /\ k \in Nat
      BY <1>4, <1>9
    <3>3. QED
      BY <3>1, <3>2
  <2>2. Len(prefix) = InputsAt(prefix) + InputWidth * k + n
    BY <1>2 DEF InputsHashed
  <2> DEFINE p == InputWidth * k
  <2>3. InputWidth * transactionCurrentInputOutput' = p + InputWidth
    BY <1>1, <2>1
  <2>4. p \in Nat /\ Len(prefix) = InputsAt(prefix) + p + n
    BY <2>1, <2>2
  <2> HIDE DEF p, k
  <2>5. InputsAt(prefix') = InputsAt(prefix) /\ InputsAt(prefix) \in Nat
    BY <1>7
  <2>6. Len(prefix') = InputsAt(prefix) + (p + InputWidth)
    <3>1. InputWidth = n + Width.sequence /\ n \in Nat /\ Width.sequence \in Nat
      BY <1>4 DEF n
    <3>2. Len(prefix') = (InputsAt(prefix) + p + n) + Width.sequence
      BY <1>8, <2>4
    <3>3. QED
      BY <2>4, <2>5, <3>1, <3>2
  <2>7. p + InputWidth \in Nat
    BY <1>4, <2>4
  <2>8. QED
    BY <2>3, <2>5, <2>6, <2>7
<1>12. InputsHashed(0)'
  BY <1>7, <1>10, <1>11 DEF InputsHashed
<1>13. ~trustedInputProcessed'
  BY <1>1 DEF Reading, TargetInv, request
<1>14. QED
  BY <1>1, <1>12, <1>13 DEF ReadingInv

\* After the last input the outputs start.
LEMMA InputsEnd ==
  ASSUME Reading, InputsDone
  PROVE  ReadingInv'
<1>1. /\ transactionState = "DEFINED_WAIT_INPUT" /\ transactionState' = "INPUT_HASHING_DONE"
      /\ transactionRemainingInputsOutputs = 0
      /\ prefix' = prefix /\ transactionHashOption' = transactionHashOption
      /\ UNCHANGED request
  BY DEF InputsDone, Turn, hashes
<1>2. transactionHashOption = {"FULL"} /\ InputsHashed(0)
  BY <1>1 DEF Reading, ReadingInv
<1>3. NumberAt(Width.version, prefix)
  BY <1>2 DEF InputsHashed
<1>4. /\ OutputsAt(prefix) = InputsAt(prefix) + InputWidth * InputCount(prefix)
      /\ OutputsAt(prefix) \in Nat /\ InputsAt(prefix) \in Nat
  BY <1>3, InputsStay, EmptySeq DEF Reading
<1>5. transactionCurrentInputOutput = InputCount(prefix)
  BY <1>1, <1>2 DEF InputsHashed, Reading, TargetInv
<1>6. Len(prefix) = InputsAt(prefix) + InputWidth * InputCount(prefix) + 0
  BY <1>2, <1>5 DEF InputsHashed
<1>7. Len(prefix) = OutputsAt(prefix)
  BY <1>4, <1>6
<1>8. ~trustedInputProcessed'
  BY <1>1 DEF Reading, TargetInv, request
<1>9. QED
  BY <1>1, <1>2, <1>3, <1>7, <1>8 DEF ReadingInv

\* The number of outputs.
LEMMA OutputCountReads ==
  ASSUME Reading, ReadOutputCount, ~Fail, ~Wait
  PROVE  ReadingInv'
<1> DEFINE number == First(VarintBytes(block), block)
<1>1. /\ VarintReadable(block)
      /\ transactionState = "INPUT_HASHING_DONE" /\ transactionState' = "DEFINED_WAIT_OUTPUT"
      /\ transactionRemainingInputsOutputs' = VarintValue(block)
      /\ transactionCurrentInputOutput' = 0
      /\ prefix' = Hashed(prefix, "FULL", transactionHashOption, number)
      /\ UNCHANGED <<transactionHashOption, request>>
  BY DEF ReadOutputCount, Turn, Consume
<1>2. /\ transactionHashOption = {"FULL"} /\ NumberAt(Width.version, prefix)
      /\ Len(prefix) = OutputsAt(prefix)
  BY <1>1 DEF Reading, ReadingInv
<1>3. block \in Seq(Nat) /\ prefix \in Seq(Nat)
  BY BlockIsNaturals DEF Reading
<1>4. /\ number \in Seq(Nat) /\ Len(number) = VarintBytes(block)
      /\ VarintReadable(number)
      /\ VarintBytes(number) = VarintBytes(block)
      /\ VarintValue(number) = VarintValue(block)
  BY <1>1, <1>3, NumberAlone
<1> HIDE DEF number
<1>5. prefix' = prefix \o number
  BY <1>1, <1>2 DEF Hashed
<1>6. Rest(Len(prefix), prefix') = number /\ Len(prefix') = Len(prefix) + Len(number)
  <2>1. Len(number) \in Nat /\ Len(prefix) \in Nat
    BY <1>3, <1>4, LenProperties
  <2>2. Rest(Len(prefix) + 0, prefix \o number) = Rest(0, number)
    BY <1>3, <1>4, <2>1, AfterAll
  <2>3. Rest(0, number) = number
    BY <1>4, SubSeqFull DEF Rest
  <2>4. Len(prefix) + 0 = Len(prefix)
    BY <2>1
  <2>5. QED
    BY <1>3, <1>4, <1>5, <2>2, <2>3, <2>4, ConcatProperties
<1>7. NumberAt(Width.version, prefix') /\ OutputsAt(prefix') = OutputsAt(prefix)
  BY <1>2, <1>3, <1>4, <1>5, InputsStay
<1>8. OutputsCounted(prefix') /\ OutputCount(prefix') = VarintValue(block)
  BY <1>2, <1>4, <1>6, <1>7 DEF OutputsCounted, OutputCount, NumberAt
<1>9. OutputAt(prefix', 0) = OutputsAt(prefix') + VarintBytes(Rest(OutputsAt(prefix'), prefix'))
  BY OutputAtIs
<1>10. Len(prefix') = OutputAt(prefix', 0)
  BY <1>2, <1>4, <1>6, <1>7, <1>9
<1>11. VarintValue(block) \in Nat
  BY <1>1, <1>3, NumberIs
<1>12. OutputsHere(prefix', 0)
  BY DEF OutputsHere
<1>13. OutputsHashed'
  BY <1>1, <1>8, <1>11, <1>12 DEF OutputsHashed
<1>14. Len(prefix)' = OutputAt(prefix, transactionCurrentInputOutput)'
  BY <1>1, <1>10
<1>15. ~trustedInputProcessed'
  BY <1>1 DEF Reading, TargetInv, request
<1>16. QED
  BY <1>1, <1>2, <1>13, <1>14, <1>15 DEF ReadingInv

\* When bytes of an output are hashed the outputs before it stay where they are.
LEMMA OutputsStillHashed ==
  ASSUME prefix \in Seq(Nat), Grown, OutputsHashed, transactionCurrentInputOutput \in Nat,
         UNCHANGED <<transactionRemainingInputsOutputs, transactionCurrentInputOutput>>
  PROVE  /\ OutputsHashed'
         /\ OutputAt(prefix', transactionCurrentInputOutput) = OutputAt(prefix, transactionCurrentInputOutput)
         /\ OutputAt(prefix, transactionCurrentInputOutput) \in Nat
<1> DEFINE k == transactionCurrentInputOutput
<1>1. PICK x \in Seq(Nat) : prefix' = prefix \o x
  BY DEF Grown
<1>2. k \in Nat /\ OutputsCounted(prefix) /\ OutputsHere(prefix, k)
  BY DEF OutputsHashed
<1> HIDE DEF k
<1>3. /\ OutputsCounted(prefix \o x) /\ OutputCount(prefix \o x) = OutputCount(prefix)
      /\ OutputsHere(prefix \o x, k)
      /\ OutputAt(prefix \o x, k) = OutputAt(prefix, k) /\ OutputAt(prefix, k) \in Nat
  BY <1>2, OutputsStay
<1>4. /\ OutputsCounted(prefix') /\ OutputCount(prefix') = OutputCount(prefix)
      /\ OutputsHere(prefix', k)
      /\ OutputAt(prefix', k) = OutputAt(prefix, k) /\ OutputAt(prefix, k) \in Nat
  BY <1>1, <1>3
<1>5. QED
  BY <1>4 DEF OutputsHashed, k

\* What is hashed of an output before its script.
LEMMA OutputBegins ==
  ASSUME NEW c \in Seq(Nat), NEW b \in Seq(Nat), VarintReadable(Rest(OutputHead, b))
  PROVE  LET r == Rest(OutputHead, b)
             taken == OutputHead + VarintBytes(r)
             f == First(taken, b)
         IN  /\ taken \in Nat /\ taken <= Len(b) /\ VarintValue(r) \in Nat
             /\ f \in Seq(Nat) /\ Len(f) = taken /\ Len(c \o f) = Len(c) + taken
             /\ NumberAt(Len(c) + OutputHead, c \o f)
             /\ NextAt(Len(c), c \o f) = Len(c) + taken + VarintValue(r)
             /\ First(Width.amount, Rest(Len(c), c \o f)) = First(Width.amount, b)
<1> DEFINE r == Rest(OutputHead, b)
           taken == OutputHead + VarintBytes(r)
           f == First(taken, b)
           d == c \o f
<1>1. /\ OutputHead \in Nat /\ Len(c) \in Nat /\ Len(b) \in Nat /\ Width.amount \in Nat
      /\ Width.amount <= OutputHead
  BY WidthsAre, LenProperties
<1>2. VarintBytes(r) \in {1, 3, 5} /\ VarintValue(r) \in Nat /\ OutputHead + VarintBytes(r) <= Len(b)
  BY <1>1, NumberAtIs DEF NumberAt
<1>3. r \in Seq(Nat) /\ Len(r) = Len(b) - OutputHead
  <2>1. OutputHead <= Len(b)
    BY <1>1, <1>2
  <2>2. QED
    BY <1>1, <2>1, AfterIs
<1>4. VarintReadable(r)
  OBVIOUS
<1> HIDE DEF r
<1>5. taken \in Nat /\ taken <= Len(b) /\ OutputHead <= taken /\ taken - OutputHead = VarintBytes(r)
  <2>1. VarintBytes(r) \in Nat
    BY <1>2
  <2>2. QED
    BY <1>1, <1>2, <2>1
<1> HIDE DEF taken
<1>6. f \in Seq(Nat) /\ Len(f) = taken
  BY <1>5, FirstIs
<1>7. Rest(OutputHead, f) = First(VarintBytes(r), r)
  BY <1>1, <1>5, FirstOfFirst DEF r
<1>8. First(Width.amount, f) = First(Width.amount, b)
  BY <1>1, <1>5, FirstOfFirst
<1> HIDE DEF f
<1>9. d \in Seq(Nat) /\ Len(d) = Len(c) + taken
  BY <1>6, ConcatProperties
<1>10. Rest(Len(c) + OutputHead, d) = Rest(OutputHead, f)
  BY <1>1, <1>5, <1>6, AfterAll
<1>11. Rest(Len(c), d) = f
  <2>1. Len(f) \in Nat /\ 0 <= Len(f)
    BY <1>5, <1>6
  <2>2. Rest(Len(c) + 0, c \o f) = Rest(0, f)
    BY <1>6, <2>1, AfterAll
  <2>3. Rest(0, f) = f
    BY <1>6, SubSeqFull DEF Rest
  <2>4. Len(c) + 0 = Len(c)
    BY <1>1
  <2>5. QED
    BY <2>2, <2>3, <2>4
<1>12. /\ VarintReadable(First(VarintBytes(r), r))
       /\ VarintBytes(First(VarintBytes(r), r)) = VarintBytes(r)
       /\ VarintValue(First(VarintBytes(r), r)) = VarintValue(r)
  BY <1>3, <1>4, NumberAlone
<1>13. NumberAt(Len(c) + OutputHead, d)
  BY <1>7, <1>10, <1>12 DEF NumberAt
<1>14. NextAt(Len(c), d) = Len(c) + taken + VarintValue(r)
  <2>1. NextAt(Len(c), d) = Len(c) + OutputHead + VarintBytes(Rest(Len(c) + OutputHead, d))
                                               + VarintValue(Rest(Len(c) + OutputHead, d))
    <3> HIDE DEF d
    <3>1. QED
      BY <1>1, <1>9, <1>13, NextAtIs
  <2>2. QED
    BY <1>1, <1>2, <1>7, <1>10, <1>12, <2>1 DEF taken
<1>15. QED
  BY <1>2, <1>5, <1>6, <1>8, <1>9, <1>11, <1>13, <1>14 DEF f, taken, r

\* An output up to its script: what it pays is kept if it is the one asked for.
LEMMA OutputReads ==
  ASSUME Reading, ReadOutput, ~Fail, Grown
  PROVE  ReadingInv'
<1> DEFINE r == Rest(OutputHead, block)
           taken == OutputHead + VarintBytes(r)
           f == First(taken, block)
           k == transactionCurrentInputOutput
<1>1. /\ VarintReadable(r)
      /\ transactionState = "DEFINED_WAIT_OUTPUT" /\ transactionState' = "OUTPUT_SCRIPT"
      /\ transactionRemainingInputsOutputs # 0
      /\ scriptRemaining' = VarintValue(r)
      /\ prefix' = Hashed(prefix, "FULL", transactionHashOption, f)
      /\ UNCHANGED <<transactionRemainingInputsOutputs, transactionCurrentInputOutput,
                     transactionHashOption, transactionTargetInput>>
  BY DEF ReadOutput, Turn, Consume, OutputHead
<1>2. LET found == IsTarget /\ Available(Width.amount)
      IN  /\ trustedInputProcessed' = (trustedInputProcessed \/ found)
          /\ transactionAmount' = IF found THEN LittleEndian(First(Width.amount, block))
                                           ELSE transactionAmount
  BY DEF ReadOutput
<1>3. transactionHashOption = {"FULL"} /\ OutputsHashed /\ Len(prefix) = OutputAt(prefix, k)
  BY <1>1 DEF Reading, ReadingInv
<1>4. block \in Seq(Nat) /\ prefix \in Seq(Nat) /\ k \in Nat /\ transactionTargetInput \in Nat
  BY BlockIsNaturals DEF Reading, TargetInv
<1>5. prefix' = prefix \o f
  BY <1>1, <1>3 DEF Hashed
<1>6. /\ taken \in Nat /\ VarintValue(r) \in Nat
      /\ Len(prefix') = Len(prefix) + taken
      /\ NumberAt(Len(prefix) + OutputHead, prefix')
      /\ NextAt(Len(prefix), prefix') = Len(prefix) + taken + VarintValue(r)
      /\ First(Width.amount, Rest(Len(prefix), prefix')) = First(Width.amount, block)
  <2>1. LET r1 == Rest(OutputHead, block)
            f1 == First(OutputHead + VarintBytes(r1), block)
        IN  prefix' = prefix \o f1
    BY <1>5
  <2>2. VarintReadable(Rest(OutputHead, block))
    BY <1>1
  <2>3. QED
    BY <1>4, <2>1, <2>2, OutputBegins
<1>7. /\ OutputsHashed'
      /\ OutputAt(prefix', k) = Len(prefix) /\ Len(prefix) \in Nat
  BY <1>1, <1>3, <1>4, OutputsStillHashed
<1> HIDE DEF r, taken, f, k
<1>8. OutputHere(prefix', k)
  BY <1>6, <1>7 DEF OutputHere
<1>9. Len(prefix') + scriptRemaining' = OutputAt(prefix', k + 1)
  <2>1. OutputAt(prefix', k + 1) = NextAt(OutputAt(prefix', k), prefix')
    BY <1>4, OutputAtIs
  <2>2. QED
    BY <1>1, <1>6, <1>7, <2>1
<1>10. k' = k
  BY <1>1 DEF k
<1>11. CASE IsTarget /\ Available(Width.amount)
  <2>1. /\ trustedInputProcessed' /\ transactionTargetInput' = k
        /\ transactionAmount' = LittleEndian(First(Width.amount, block))
    BY <1>1, <1>2, <1>11 DEF IsTarget, k
  <2>2. OutputsCounted(prefix')
    BY <1>7 DEF OutputsHashed
  <2>3. OutputsHere(prefix', k + 1)
    <3>1. OutputsHere(prefix', k)
      BY <1>7, <1>10 DEF OutputsHashed, k
    <3>2. \A i \in 0 .. (k + 1) - 1 : i \in 0 .. k - 1 \/ i = k
      BY <1>4
    <3>3. QED
      BY <1>8, <3>1, <3>2 DEF OutputsHere
  <2>4. k < OutputCount(prefix')
    <3>1. /\ k + transactionRemainingInputsOutputs = OutputCount(prefix')
          /\ transactionRemainingInputsOutputs \in Nat
      BY <1>1, <1>7, <1>10 DEF OutputsHashed, k
    <3>2. QED
      BY <1>1, <1>4, <3>1
  <2>5. OutputsAt(prefix') < Len(prefix')
    <3>1. OutputsAt(prefix') \in Nat /\ prefix' \in Seq(Nat)
      <4>1. prefix' \in Seq(Nat)
        BY <1>4, GrownIs
      <4>2. NumberAt(Width.version, prefix')
        BY <2>2 DEF OutputsCounted
      <4>3. QED
        BY <4>1, <4>2, InputsStay, EmptySeq
    <3>2. NumberAt(OutputsAt(prefix'), prefix')
      BY <2>2 DEF OutputsCounted
    <3>3. QED
      BY <3>1, <3>2, NumberAtIs
  <2>6. LittleEndian(First(Width.amount, Rest(OutputAt(prefix', k), prefix'))) = transactionAmount'
    BY <1>6, <1>7, <2>1
  <2>7. OutputPays(prefix', k, transactionAmount')
    BY <2>4, <2>5, <2>6 DEF OutputPays, OutputCount
  <2>8. TargetPaid'
    BY <2>1, <2>2, <2>3, <2>7 DEF TargetPaid
  <2>9. QED
    BY <1>1, <1>3, <1>7, <1>8, <1>9, <1>10, <2>8 DEF ReadingInv, k
<1>12. CASE ~(IsTarget /\ Available(Width.amount))
  <2>1. UNCHANGED <<trustedInputProcessed, transactionAmount>>
    <3>1. trustedInputProcessed \in BOOLEAN => trustedInputProcessed' = trustedInputProcessed
      BY <1>2, <1>12
    <3>2. trustedInputProcessed' <=> trustedInputProcessed
      BY <1>2, <1>12
    <3>3. transactionAmount' = transactionAmount
      BY <1>2, <1>12
    <3>4. QED
      BY <3>2, <3>3
  <2>2. trustedInputProcessed' => TargetPaid'
    <3>1. SUFFICES ASSUME trustedInputProcessed
                   PROVE  TargetPaid'
      BY <2>1
    <3>2. TargetPaid
      BY <1>1, <3>1 DEF Reading, ReadingInv
    <3>3. QED
      BY <1>1, <1>4, <2>1, <3>2, TargetStillPaid
  <2>3. QED
    BY <1>1, <1>3, <1>7, <1>8, <1>9, <1>10, <2>2 DEF ReadingInv, k
<1>13. QED
  BY <1>11, <1>12

\* The script of an output, up to its end.
LEMMA OutputScriptReads ==
  ASSUME Reading, ReadOutputScript, ~Wait, Grown
  PROVE  ReadingInv'
<1> DEFINE k == transactionCurrentInputOutput
           n == Portion(scriptRemaining)
<1>1. /\ transactionState = "OUTPUT_SCRIPT"
      /\ block # <<>>
      /\ UNCHANGED <<transactionHashOption, transactionAmount, request>>
  BY DEF ReadOutputScript, Turn, hashes
<1>2. /\ transactionHashOption = {"FULL"} /\ OutputsHashed
      /\ transactionRemainingInputsOutputs # 0
      /\ OutputHere(prefix, k) /\ Len(prefix) + scriptRemaining = OutputAt(prefix, k + 1)
  BY <1>1 DEF Reading, ReadingInv
<1>3. k \in Nat /\ transactionTargetInput \in Nat /\ prefix \in Seq(Nat) /\ block \in Seq(Nat)
      /\ scriptRemaining \in Nat
  BY BlockIsNaturals DEF Reading, TargetInv, BlockInv
<1>4. trustedInputProcessed' => TargetPaid'
  <2>1. SUFFICES ASSUME trustedInputProcessed
                 PROVE  TargetPaid'
    BY <1>1 DEF request
  <2>2. TargetPaid
    BY <1>1, <2>1 DEF Reading, ReadingInv
  <2>3. QED
    BY <1>1, <1>3, <2>2, TargetStillPaid DEF request
<1>5. OutputsCounted(prefix) /\ OutputsHere(prefix, k + 1)
  <2>1. \A i \in 0 .. (k + 1) - 1 : i \in 0 .. k - 1 \/ i = k
    BY <1>3
  <2>2. OutputsHere(prefix, k)
    BY <1>2 DEF OutputsHashed
  <2>3. QED
    BY <1>2, <2>1, <2>2 DEF OutputsHere, OutputsHashed
<1>6. Len(prefix) \in Nat
  BY <1>3, LenProperties
<1>7. CASE scriptRemaining = 0
  <2>1. /\ transactionState' = "DEFINED_WAIT_OUTPUT" /\ prefix' = prefix
        /\ transactionRemainingInputsOutputs' = transactionRemainingInputsOutputs - 1
        /\ transactionCurrentInputOutput' = k + 1
    BY <1>1, <1>7 DEF ReadOutputScript, hashes
  <2>2. Len(prefix') = OutputAt(prefix', k + 1)
    BY <1>2, <1>6, <1>7, <2>1
  <2>3. OutputsCounted(prefix') /\ OutputsHere(prefix', k + 1) /\ OutputCount(prefix') = OutputCount(prefix)
    BY <1>5, <2>1
  <2>4. transactionRemainingInputsOutputs' \in Nat
        /\ (k + 1) + transactionRemainingInputsOutputs' = OutputCount(prefix)
    BY <1>2, <1>3, <2>1 DEF OutputsHashed
  <2> HIDE DEF k
  <2>5. OutputsHashed'
    BY <2>1, <2>3, <2>4 DEF OutputsHashed
  <2>6. QED
    BY <1>1, <1>2, <1>4, <2>1, <2>2, <2>5 DEF ReadingInv
<1>8. CASE scriptRemaining # 0
  <2>1. /\ transactionState' = transactionState
        /\ UNCHANGED <<transactionRemainingInputsOutputs, transactionCurrentInputOutput>>
        /\ prefix' = Hashed(prefix, "FULL", transactionHashOption, First(n, block))
        /\ scriptRemaining' = scriptRemaining - n
    BY <1>1, <1>8 DEF ReadOutputScript, Consume
  <2>2. n \in Nat /\ n <= scriptRemaining /\ n <= Len(block)
    <3>1. scriptRemaining \in Nat \ {0} /\ Len(block) \in Nat
      BY <1>3, <1>8, LenProperties
    <3>2. QED
      BY <3>1 DEF Portion
  <2> HIDE DEF n, k
  <2>3. First(n, block) \in Seq(Nat) /\ Len(First(n, block)) = n
    BY <1>3, <2>2, FirstIs
  <2>4. prefix' = prefix \o First(n, block)
    BY <1>2, <2>1 DEF Hashed
  <2>5. Len(prefix') = Len(prefix) + n
    BY <1>3, <2>3, <2>4, ConcatProperties
  <2>6. OutputsHere(prefix', k + 1) /\ OutputAt(prefix', k + 1) = OutputAt(prefix, k + 1)
    <3>1. k + 1 \in Nat
      BY <1>3
    <3>2. /\ OutputsHere(prefix \o First(n, block), k + 1)
          /\ OutputAt(prefix \o First(n, block), k + 1) = OutputAt(prefix, k + 1)
      BY <1>3, <1>5, <2>3, <3>1, OutputsStay
    <3>3. QED
      BY <2>4, <3>2
  <2>7. OutputHere(prefix', k)
    BY <1>3, <2>6 DEF OutputsHere
  <2>8. OutputsHashed'
    <3>1. transactionCurrentInputOutput \in Nat
      BY <1>3 DEF k
    <3>2. QED
      BY <1>2, <1>3, <2>1, <3>1, OutputsStillHashed
  <2>9. Len(prefix') + scriptRemaining' = OutputAt(prefix', k + 1)
    <3>1. Len(prefix) + scriptRemaining = OutputAt(prefix, k + 1)
      BY <1>2 DEF k
    <3>2. scriptRemaining' = scriptRemaining - n /\ scriptRemaining \in Nat /\ n \in Nat
      BY <1>3, <2>1, <2>2
    <3>3. Len(prefix') + scriptRemaining' = Len(prefix) + scriptRemaining
      BY <1>6, <2>5, <3>2
    <3>4. QED
      BY <2>6, <3>1, <3>3
  <2>10. k' = k
    BY <2>1 DEF k
  <2>11. QED
    BY <1>1, <1>2, <1>4, <2>1, <2>7, <2>8, <2>9, <2>10 DEF ReadingInv, k
<1>9. QED
  BY <1>7, <1>8

\* The outputs are over: more bytes are hashed, what the target pays is kept.
LEMMA TailReads ==
  ASSUME Reading, Grown, OutputsDone \/ ReadLockTime \/ ReadExtra, ~Fail, ~Wait
  PROVE  ReadingInv'
<1>1. /\ transactionState # "NONE"
      /\ transactionState' \in {"OUTPUT_HASHING_DONE", "PROCESS_EXTRA", "PARSED"}
      /\ UNCHANGED <<transactionAmount, request>>
  BY DEF OutputsDone, ReadLockTime, ReadExtra, Turn
<1>2. trustedInputProcessed' => TargetPaid'
  <2>1. SUFFICES ASSUME trustedInputProcessed
                 PROVE  TargetPaid'
    BY <1>1 DEF request
  <2>2. TargetPaid
    BY <1>1, <2>1 DEF Reading, ReadingInv
  <2>3. QED
    BY <1>1, <2>2, TargetStillPaid DEF Reading, TargetInv, request
<1>3. QED
  BY <1>1, <1>2 DEF ReadingInv

\* All the turns of the loop, in the mode of GET_TRUSTED_INPUT.
LEMMA ParseReads ==
  ASSUME Reading, Parse
  PROVE  ReadingInv'
<1>1. transactionState' = "NONE" \/ transactionState = "NONE" \/ Grown
  BY ParseGrows DEF Reading
<1>2. CASE transactionState' = "NONE"
  BY <1>2 DEF ReadingInv
<1>3. CASE Fail
  BY <1>2, <1>3 DEF Fail
<1>4. CASE Wait
  BY <1>4, ReadingKept DEF Wait, Reading, counters, hashes
<1>5. CASE ParseInputs /\ ~Fail /\ ~Wait
  <2>1. ~PresignReady
    BY DEF Reading, PresignReady
  <2>2. QED
    BY <1>5, <2>1, BeginReads, InputsEnd, InputReads, ScriptReads, EndOfInputReads
       DEF ParseInputs, WaitForInput, InputRejected, WaitForScript, EndOfInputs
<1>6. CASE ParseOutputs /\ ~Fail /\ ~Wait
  <2>1. CASE ReadOutputCount
    BY <1>6, <2>1, OutputCountReads
  <2>2. CASE ReadOutput
    BY <1>1, <1>2, <1>6, <2>2, OutputReads DEF ReadOutput, Turn
  <2>3. CASE ReadOutputScript
    BY <1>1, <1>2, <1>6, <2>3, OutputScriptReads DEF ReadOutputScript, Turn
  <2>4. CASE OutputsDone \/ ReadLockTime \/ ReadExtra
    <3>1. transactionState # "NONE"
      BY <2>4 DEF OutputsDone, ReadLockTime, ReadExtra, Turn
    <3>2. QED
      BY <1>1, <1>2, <1>6, <2>4, <3>1, TailReads
  <2>5. CASE EndOfTransaction
    BY <1>2, <2>5 DEF EndOfTransaction
  <2>6. QED
    BY <1>6, <2>1, <2>2, <2>3, <2>4, <2>5 DEF ParseOutputs, WaitForOutput, WaitForLockTime
<1>7. QED
  BY <1>3, <1>4, <1>5, <1>6 DEF Parse

\* A turn belongs to a command that runs, and does not change the mode.
LEMMA ParseRuns ==
  ASSUME Parse
  PROVE  running # "none" /\ parseMode' = parseMode
<1>1. Fail \/ Wait => parseMode' = parseMode
  BY DEF Fail, Wait
<1>2. ParseInputs => running # "none" /\ parseMode' = parseMode
  BY <1>1 DEF ParseInputs, BeginTransaction, InputsDone, WaitForInput, ReadInput, InputRejected,
              WaitForScript, ScriptBytes, EndOfInput, PresignReady, EndOfInputs, Turn, command
<1>3. ParseOutputs => running # "none" /\ parseMode' = parseMode
  BY <1>1 DEF ParseOutputs, ReadOutputCount, OutputsDone, WaitForOutput, ReadOutput, ReadOutputScript,
              ReadLockTime, WaitForLockTime, ReadExtra, EndOfTransaction, Turn, command
<1>4. QED
  BY <1>2, <1>3 DEF Parse

\* What a command or a reset does between the blocks: it forgets the
\* transaction, or leaves all of it alone.
LEMMA ReceiveForgets ==
  ASSUME Receive \/ IoReset
  PROVE  /\ issued' = issued
         /\ prefix' = prefix \/ prefix' = <<>>
         /\ \/ transactionState' = "NONE"
            \/ UNCHANGED <<transactionState, transactionRemainingInputsOutputs,
                           transactionCurrentInputOutput, scriptRemaining, transactionAmount,
                           transactionHashOption, prefix, request, parseMode>>
  BY DEF Receive, TrustedInputFirst, StartFirst, NextAsFirst, NextBlock, NextRuns, BlockLost,
         TrustedInputFirstRefused, StartFirstRefused, NextRefused, IoReset,
         counters, hashes, command

\* All that is known between two steps.
Vouched == OneMode /\ TargetInv /\ LoopInv /\ TrustInv

\* The reading of a trusted input outlives every step.
LEMMA TrustInductive ==
  ASSUME Vouched, [Next]_vars
  PROVE  TrustInv'
<1> USE DEF Vouched, TrustInv
<1>1. CASE UNCHANGED vars
  BY <1>1, ReadingKept DEF vars, counters, hashes, command
<1>2. CASE Receive \/ IoReset
  <2>1. prefix' \in Seq(Nat)
    BY <1>2, ReceiveForgets, EmptySeq
  <2>2. transactionState' = "NONE" => ReadingInv'
    BY DEF ReadingInv
  <2>3. QED
    BY <1>2, <2>1, <2>2, ReceiveForgets, ReadingKept
<1>3. CASE Parse
  <2>1. prefix' \in Seq(Nat)
    BY <1>3, ParseGrows DEF LoopInv
  <2>2. parseMode = running /\ parseMode' = parseMode
    BY <1>3, ParseRuns DEF OneMode
  <2>3. parseMode = "TRUSTED_INPUT" => ReadingInv'
    BY <1>3, <2>2, ParseReads DEF Reading, LoopInv
  <2>4. QED
    BY <2>1, <2>2, <2>3
<1>4. QED
  BY <1>1, <1>2, <1>3 DEF Next

\* The invariant, for a host that starts every request with a FIRST block.
LEMMA VouchedInvariance ==
  ASSUME RestartsWithFirst
  PROVE  Spec => []Vouched
<1>1. Init => OneMode /\ TargetInv /\ TrustInv
  BY EmptySeq DEF Init, OneMode, TargetInv, TrustInv
<1>2. OneMode /\ TargetInv /\ LoopInv /\ TrustInv /\ [Next]_vars => (OneMode /\ TargetInv /\ TrustInv)'
  BY OneModeInductive, TargetInductive, TrustInductive DEF Vouched
<1>3. QED
  BY <1>1, <1>2, LoopInvariance, PTL DEF Spec, Vouched

\* A trusted input is issued for what was hashed and what an output of it pays.
LEMMA ParseIssues ==
  ASSUME Vouched, Parse, issued' # issued
  PROVE  /\ transactionState # "NONE" /\ transactionState' = "NONE"
         /\ issued' = issued \cup {[content |-> prefix, index |-> transactionTargetInput,
                                    amount |-> transactionAmount]}
         /\ OutputPays(prefix, transactionTargetInput, transactionAmount)
<1>1. EndOfTransaction
  BY DEF Parse, ParseInputs, ParseOutputs, BeginTransaction, InputsDone, WaitForInput, ReadInput,
         InputRejected, WaitForScript, ScriptBytes, EndOfInput, PresignReady, EndOfInputs,
         ReadOutputCount, OutputsDone, WaitForOutput, ReadOutput, ReadOutputScript,
         ReadLockTime, WaitForLockTime, ReadExtra, Fail, Wait
<1>2. /\ transactionState = "PARSED" /\ transactionState' = "NONE" /\ trustedInputProcessed
      /\ issued' = issued \cup {[content |-> prefix, index |-> transactionTargetInput,
                                 amount |-> transactionAmount]}
  BY <1>1 DEF EndOfTransaction, Turn
<1>3. parseMode = "TRUSTED_INPUT"
  BY <1>2 DEF Vouched, OneMode
<1>4. TargetPaid
  BY <1>2, <1>3 DEF Vouched, TrustInv, ReadingInv
<1>5. QED
  BY <1>2, <1>4 DEF TargetPaid

\* Every step of the parser is one of the contract.
LEMMA StepOfContract ==
  ASSUME Vouched, Vouched', [Next]_vars
  PROVE  [Contract!Next]_(Contract!vars)
<1> USE DEF Contract!vars
<1>1. CASE UNCHANGED vars
  BY <1>1 DEF vars, hashes
<1>2. CASE transactionState' = "NONE" /\ issued' = issued
  BY <1>2 DEF Contract!Next, Contract!Forget
<1>3. CASE transactionState = "NONE" /\ transactionState' # "NONE" /\ issued' = issued
  <2>1. prefix' \in Seq(Nat)
    BY DEF Vouched, TrustInv
  <2>2. Len(<<>>) = 0 /\ Len(prefix') \in Nat
    BY <2>1, LenProperties
  <2>3. SubSeq(<<>>, 1, 0) = <<>> /\ SubSeq(prefix', 1, 0) = <<>>
    OBVIOUS
  <2>4. Contract!IsPrefix(<<>>, prefix')
    BY <2>2, <2>3 DEF Contract!IsPrefix
  <2>5. QED
    BY <1>3, <2>4 DEF Contract!Next, Contract!Absorb
<1>4. CASE transactionState # "NONE" /\ transactionState' # "NONE" /\ Grown /\ issued' = issued
  <2>1. Contract!IsPrefix(prefix, prefix')
    BY <1>4, GrownIs DEF Vouched, TrustInv, IsPrefix, Contract!IsPrefix
  <2>2. QED
    BY <1>4, <2>1 DEF Contract!Next, Contract!Absorb
<1>5. CASE Receive \/ IoReset
  <2>1. CASE transactionState' = "NONE"
    BY <1>2, <1>5, <2>1, ReceiveForgets
  <2>2. CASE transactionState' # "NONE"
    BY <1>5, <2>2, ReceiveForgets
  <2>3. QED
    BY <2>1, <2>2
<1>6. CASE Parse /\ issued' = issued
  <2>1. transactionState' = "NONE" \/ transactionState = "NONE" \/ Grown
    BY <1>6, ParseGrows DEF Vouched, LoopInv, TrustInv
  <2>2. QED
    BY <1>2, <1>3, <1>4, <1>6, <2>1
<1>7. CASE Parse /\ issued' # issued
  <2> DEFINE new == [content |-> prefix, index |-> transactionTargetInput, amount |-> transactionAmount]
  <2>1. /\ transactionState # "NONE" /\ transactionState' = "NONE"
        /\ issued' = issued \cup {new}
        /\ OutputPays(prefix, transactionTargetInput, transactionAmount)
    BY <1>7, ParseIssues
  <2>2. /\ new.content = prefix /\ new.index = transactionTargetInput /\ new.amount = transactionAmount
    OBVIOUS
  <2> HIDE DEF new
  <2>3. new \in issued' /\ OutputPays(prefix, new.index, new.amount)
    BY <2>1, <2>2
  <2>4. QED
    BY <2>1, <2>2, <2>3 DEF Contract!Next, Contract!Issue
<1>8. QED
  BY <1>1, <1>5, <1>6, <1>7 DEF Next

\* A trusted input is the device's word about a transaction it hashed itself,
\* from the first byte to the last, and about what one output of it pays: lost
\* blocks, abandoned transactions, changes of mode, refused commands and resets
\* never make it speak of anything else.
THEOREM TheDeviceKeepsItsWord ==
  ASSUME RestartsWithFirst
  PROVE  Spec => TrustedInputsHold
<1>1. Init => Contract!Init
  BY DEF Init, Contract!Init
<1>2. Vouched /\ Vouched' /\ [Next]_vars => [Contract!Next]_(Contract!vars)
  BY StepOfContract
<1>3. QED
  BY <1>1, <1>2, VouchedInvariance, PTL DEF Spec, Contract!Spec, TrustedInputsHold

\* Every trusted input ever given out is for an output that was there.
THEOREM VouchedOutputsWereThere ==
  ASSUME RestartsWithFirst
  PROVE  Spec => []OutputWasThere
<1>1. Init => OutputWasThere
  BY DEF Init, OutputWasThere
<1>2. Vouched /\ OutputWasThere /\ [Next]_vars => OutputWasThere'
  <2> SUFFICES ASSUME Vouched, OutputWasThere, [Next]_vars
               PROVE  OutputWasThere'
    OBVIOUS
  <2>1. CASE issued' = issued
    BY <2>1 DEF OutputWasThere
  <2>2. CASE issued' # issued
    <3>1. Parse
      BY <2>2, ReceiveForgets DEF Next, vars
    <3> DEFINE new == [content |-> prefix, index |-> transactionTargetInput, amount |-> transactionAmount]
    <3>2. /\ issued' = issued \cup {new}
          /\ OutputPays(prefix, transactionTargetInput, transactionAmount)
      BY <2>2, <3>1, ParseIssues
    <3>3. OutputPays(new.content, new.index, new.amount)
      BY <3>2
    <3> HIDE DEF new
    <3>4. QED
      BY <3>2, <3>3 DEF OutputWasThere
  <2>3. QED
    BY <2>1, <2>2
<1>3. QED
  BY <1>1, <1>2, VouchedInvariance, PTL DEF Spec

-----------------------------------------------------------------------------
\* Groups of elements, and the bytes of them.

GroupLists == Seq(Seq(Seq(Nat)))

\* Sequences of numbers, by a name the provers need not look into.
Listed(s) == s \in Seq(Nat)

Regroups(p, q, r) == (p \o q) \o r = p \o (q \o r)
Joins(h, a, b, c) == h \in Seq(Seq(Nat)) /\ FlattenSeq(h) = (a \o b) \o c

\* Three of them that follow each other.
LEMMA ThreeListed ==
  \A p, q, r : Listed(p) /\ Listed(q) /\ Listed(r) => Regroups(p, q, r)
BY Regrouped DEF Listed, Regroups

\* The bytes of groups that follow each other follow each other.
LEMMA BytesOfBoth ==
  ASSUME NEW a \in GroupLists, NEW b \in GroupLists
  PROVE  /\ a \o b \in GroupLists
         /\ BytesOf(a) \in Seq(Nat) /\ BytesOf(b) \in Seq(Nat)
         /\ BytesOf(a \o b) = BytesOf(a) \o BytesOf(b)
<1> USE DEF GroupLists
<1>1. a \o b \in GroupLists
  OBVIOUS
<1>2. <<>> \in Seq(Seq(Seq(Nat))) /\ <<>> \in Seq(Seq(Nat)) /\ <<>> \in Seq(Nat)
  BY EmptySeq
<1>3. FlattenSeq(a) \in Seq(Seq(Nat)) /\ FlattenSeq(b) \in Seq(Seq(Nat))
  BY <1>2, FlattenConcat
<1>4. FlattenSeq(a \o b) = FlattenSeq(a) \o FlattenSeq(b)
  BY FlattenConcat
<1> DEFINE x == FlattenSeq(a)
           y == FlattenSeq(b)
<1> HIDE DEF x, y
<1>5. x \in Seq(Seq(Nat)) /\ y \in Seq(Seq(Nat))
  BY <1>3 DEF x, y
<1>6. FlattenSeq(x) \in Seq(Nat) /\ FlattenSeq(y) \in Seq(Nat)
  BY <1>2, <1>5, FlattenConcat
<1>7. FlattenSeq(x \o y) = FlattenSeq(x) \o FlattenSeq(y)
  BY <1>5, FlattenConcat
<1>8. QED
  BY <1>1, <1>4, <1>6, <1>7 DEF BytesOf, x, y

\* No group, and one.
LEMMA BytesOfFew ==
  /\ <<>> \in GroupLists /\ BytesOf(<<>>) = <<>>
  /\ \A g \in Seq(Seq(Nat)) :
       <<g>> \in GroupLists /\ BytesOf(<<g>>) = FlattenSeq(g) /\ FlattenSeq(g) \in Seq(Nat)
<1>1. <<>> \in GroupLists /\ BytesOf(<<>>) = <<>>
  BY FlattenFew, EmptySeq DEF GroupLists, BytesOf
<1>2. ASSUME NEW g \in Seq(Seq(Nat))
      PROVE  <<g>> \in GroupLists /\ BytesOf(<<g>>) = FlattenSeq(g) /\ FlattenSeq(g) \in Seq(Nat)
  <2>1. <<g>> \in GroupLists
    BY DEF GroupLists
  <2>2. FlattenSeq(<<g>>) = g
    BY FlattenFew
  <2>3. FlattenSeq(g) \in Seq(Nat)
    BY FlattenConcat, EmptySeq
  <2>4. QED
    BY <2>1, <2>2, <2>3 DEF BytesOf
<1>3. QED
  BY <1>1, <1>2

\* A few elements, as lists and as bytes.
LEMMA ElementsJoined ==
  ASSUME NEW a \in Seq(Nat), NEW b \in Seq(Nat), NEW c \in Seq(Nat)
  PROVE  /\ <<a>> \in Seq(Seq(Nat)) /\ FlattenSeq(<<a>>) = a
         /\ <<a, b>> \in Seq(Seq(Nat)) /\ FlattenSeq(<<a, b>>) = a \o b
         /\ Joins(<<a, b, c>>, a, b, c)
<1>1. /\ <<a>> \in Seq(Seq(Nat)) /\ <<a, b>> \in Seq(Seq(Nat)) /\ <<a, b, c>> \in Seq(Seq(Nat))
      /\ <<a, b>> = Append(<<a>>, b) /\ <<a, b, c>> = Append(<<a, b>>, c)
  OBVIOUS
<1>2. FlattenSeq(<<a>>) = a
  BY FlattenFew
<1>3. FlattenSeq(<<a, b>>) = a \o b
  BY <1>1, <1>2, FlattenAppend
<1>4. FlattenSeq(<<a, b, c>>) = (a \o b) \o c
  BY <1>1, <1>3, FlattenAppend
<1>5. Joins(<<a, b, c>>, a, b, c)
  BY ONLY <1>1, <1>4 DEF Joins
<1>6. QED
  BY ONLY <1>1, <1>2, <1>3, <1>5

\* Their bytes follow each other.
LEMMA ElementsTogether ==
  ASSUME NEW a \in Seq(Nat), NEW b \in Seq(Nat), NEW c \in Seq(Nat)
  PROVE  /\ <<a>> \in Seq(Seq(Nat)) /\ FlattenSeq(<<a>>) = a
         /\ <<a, b>> \in Seq(Seq(Nat)) /\ FlattenSeq(<<a, b>>) = a \o b
         /\ <<a, b, c>> \in Seq(Seq(Nat)) /\ FlattenSeq(<<a, b, c>>) = (a \o b) \o c
<1>1. /\ <<a>> \in Seq(Seq(Nat)) /\ FlattenSeq(<<a>>) = a
      /\ <<a, b>> \in Seq(Seq(Nat)) /\ FlattenSeq(<<a, b>>) = a \o b
      /\ Joins(<<a, b, c>>, a, b, c)
  BY ElementsJoined
<1>2. <<a, b, c>> \in Seq(Seq(Nat)) /\ FlattenSeq(<<a, b, c>>) = (a \o b) \o c
  BY ONLY <1>1 DEF Joins
<1>3. QED
  BY ONLY <1>1, <1>2

\* Three of them, by name.
LEMMA ThreeElements ==
  \A a, b, c, h : Listed(a) /\ Listed(b) /\ Listed(c) /\ h = <<a, b, c>> => Joins(h, a, b, c)
<1>1. \A a, b, c \in Seq(Nat) : Joins(<<a, b, c>>, a, b, c)
  BY ElementsJoined
<1>2. QED
  BY ONLY <1>1 DEF Listed

\* Each byte of a script is a group.
LEMMA ScriptGroupsType ==
  ASSUME NEW s \in Seq(Nat)
  PROVE  ScriptGroups(s) \in GroupLists /\ Len(ScriptGroups(s)) = Len(s)
<1>1. \A i \in DOMAIN s : <<<<s[i]>>>> \in Seq(Seq(Nat))
  <2>1. \A n \in Nat : <<<<n>>>> \in Seq(Seq(Nat))
    OBVIOUS
  <2>2. \A i \in DOMAIN s : s[i] \in Nat
    BY ElementOfSeq, LenProperties
  <2>3. QED
    BY <2>1, <2>2
<1>2. DOMAIN s = 1 .. Len(s) /\ Len(s) \in Nat
  BY LenProperties
<1>3. QED
  BY <1>1, <1>2 DEF ScriptGroups, GroupLists

\* A byte more, a group more.
LEMMA ScriptGroupsBoth ==
  ASSUME NEW s \in Seq(Nat), NEW u \in Seq(Nat)
  PROVE  ScriptGroups(s \o u) = ScriptGroups(s) \o ScriptGroups(u)
<1>1. /\ Len(s) \in Nat /\ Len(u) \in Nat /\ DOMAIN s = 1 .. Len(s) /\ DOMAIN u = 1 .. Len(u)
      /\ s \o u \in Seq(Nat) /\ Len(s \o u) = Len(s) + Len(u) /\ DOMAIN (s \o u) = 1 .. Len(s) + Len(u)
      /\ \A i \in 1 .. Len(s) + Len(u) : (s \o u)[i] = IF i <= Len(s) THEN s[i] ELSE u[i - Len(s)]
  BY ConcatProperties, LenProperties
<1> DEFINE a == ScriptGroups(s)
           b == ScriptGroups(u)
           c == ScriptGroups(s \o u)
<1>2. /\ a \in GroupLists /\ Len(a) = Len(s) /\ b \in GroupLists /\ Len(b) = Len(u)
      /\ c \in GroupLists /\ Len(c) = Len(s) + Len(u)
  BY <1>1, ScriptGroupsType
<1>3. /\ \A i \in 1 .. Len(s) : a[i] = <<<<s[i]>>>>
      /\ \A i \in 1 .. Len(u) : b[i] = <<<<u[i]>>>>
      /\ \A i \in 1 .. Len(s) + Len(u) : c[i] = <<<<(s \o u)[i]>>>>
  BY <1>1 DEF ScriptGroups
<1> HIDE DEF a, b, c
<1>4. a \o b \in GroupLists /\ Len(a \o b) = Len(s) + Len(u)
      /\ \A i \in 1 .. Len(s) + Len(u) : (a \o b)[i] = IF i <= Len(s) THEN a[i] ELSE b[i - Len(s)]
  <2> DEFINE G == Seq(Seq(Nat))
  <2>1. a \in Seq(G) /\ b \in Seq(G) /\ GroupLists = Seq(G)
    BY <1>2 DEF GroupLists
  <2> HIDE DEF G
  <2>2. /\ a \o b \in Seq(G) /\ Len(a \o b) = Len(a) + Len(b)
        /\ \A i \in 1 .. Len(a) + Len(b) : (a \o b)[i] = IF i <= Len(a) THEN a[i] ELSE b[i - Len(a)]
    BY <2>1, ConcatProperties
  <2>3. QED
    BY <1>2, <2>1, <2>2
<1>5. \A i \in 1 .. Len(s) + Len(u) : c[i] = (a \o b)[i]
  <2>1. TAKE i \in 1 .. Len(s) + Len(u)
  <2>2. CASE i <= Len(s)
    <3>1. i \in 1 .. Len(s)
      BY <1>1, <2>2
    <3>2. c[i] = <<<<s[i]>>>>
      BY <1>1, <1>3, <2>2
    <3>3. QED
      BY <1>3, <1>4, <2>2, <3>1, <3>2
  <2>3. CASE ~(i <= Len(s))
    <3>1. i - Len(s) \in 1 .. Len(u)
      BY <1>1, <2>3
    <3>2. c[i] = <<<<u[i - Len(s)]>>>>
      BY <1>1, <1>3, <2>3
    <3>3. QED
      BY <1>3, <1>4, <2>3, <3>1, <3>2
  <2>4. QED
    BY <2>2, <2>3
<1>6. c = a \o b
  BY <1>2, <1>4, <1>5, SeqEqual DEF GroupLists
<1>7. QED
  BY <1>6 DEF a, b, c

\* The bytes of the groups of a script are the script.
LEMMA BytesOfScript ==
  ASSUME NEW s \in Seq(Nat)
  PROVE  BytesOf(ScriptGroups(s)) = s
<1> DEFINE T == {n \in Nat : \A u \in Seq(Nat) : Len(u) = n => BytesOf(ScriptGroups(u)) = u}
<1>1. 0 \in T
  <2>1. ASSUME NEW u \in Seq(Nat), Len(u) = 0
        PROVE  BytesOf(ScriptGroups(u)) = u
    <3>1. u = <<>>
      BY <2>1, EmptySeq
    <3>2. ScriptGroups(u) \in GroupLists /\ Len(ScriptGroups(u)) = 0
      BY <2>1, ScriptGroupsType
    <3>3. ScriptGroups(u) = <<>>
      BY <3>2, EmptySeq DEF GroupLists
    <3>4. QED
      BY <3>1, <3>3, BytesOfFew
  <2>2. QED
    BY <2>1
<1>2. ASSUME NEW n \in Nat, n \in T
      PROVE  n + 1 \in T
  <2>1. ASSUME NEW u \in Seq(Nat), Len(u) = n + 1
        PROVE  BytesOf(ScriptGroups(u)) = u
    <3>1. u # <<>>
      BY <2>1, EmptySeq
    <3>2. PICK v \in Seq(Nat), e \in Nat : u = Append(v, e)
      BY <3>1, SequenceEmptyOrAppend
    <3>3. Len(u) = Len(v) + 1 /\ Len(v) \in Nat
      BY <3>2, AppendProperties, LenProperties
    <3>4. BytesOf(ScriptGroups(v)) = v
      BY <1>2, <2>1, <3>3
    <3>5. u = v \o <<e>> /\ <<e>> \in Seq(Nat)
      BY <3>2
    <3>6. ScriptGroups(<<e>>) = <<<<<<e>>>>>>
      BY DEF ScriptGroups
    <3>7. <<<<e>>>> \in Seq(Seq(Nat)) /\ FlattenSeq(<<<<e>>>>) = <<e>>
      BY <3>5, ElementsTogether
    <3>8. BytesOf(ScriptGroups(<<e>>)) = <<e>>
      BY <3>6, <3>7, BytesOfFew
    <3>9. ScriptGroups(v) \in GroupLists /\ ScriptGroups(<<e>>) \in GroupLists
      BY <3>5, ScriptGroupsType
    <3>10. ScriptGroups(v \o <<e>>) = ScriptGroups(v) \o ScriptGroups(<<e>>)
      BY <3>5, ScriptGroupsBoth
    <3>11. BytesOf(ScriptGroups(v) \o ScriptGroups(<<e>>)) = v \o <<e>>
      BY <3>4, <3>8, <3>9, BytesOfBoth
    <3>12. QED
      BY <3>5, <3>10, <3>11
  <2>2. QED
    BY <2>1
<1>3. Nat \subseteq T
  <2> HIDE DEF T
  <2>1. QED
    BY <1>1, <1>2, NaturalsIn
<1>4. Len(s) \in T
  BY <1>3, LenProperties
<1>5. QED
  BY <1>4

-----------------------------------------------------------------------------
\* What a transaction is made of.

\* Groups after groups.
LEMMA GroupsTogether ==
  ASSUME NEW a \in GroupLists, NEW b \in GroupLists
  PROVE  /\ a \o b \in GroupLists
         /\ Len(a \o b) = Len(a) + Len(b) /\ Len(a) \in Nat /\ Len(b) \in Nat
         /\ a \o <<>> = a /\ <<>> \o a = a
<1> DEFINE S == Seq(Seq(Nat))
<1>1. a \in Seq(S) /\ b \in Seq(S) /\ GroupLists = Seq(S)
  BY DEF GroupLists
<1> HIDE DEF S
<1>2. a \o b \in Seq(S) /\ Len(a \o b) = Len(a) + Len(b) /\ Len(a) \in Nat /\ Len(b) \in Nat
  BY <1>1, ConcatProperties, LenProperties
<1>3. a \o <<>> = a /\ <<>> \o a = a
  BY <1>1, ConcatEmptySeq
<1>4. QED
  BY <1>1, <1>2, <1>3

\* Groups may be put together in any order of the operators.
LEMMA GroupsRegrouped ==
  ASSUME NEW a \in GroupLists, NEW b \in GroupLists, NEW c \in GroupLists
  PROVE  a \o b \in GroupLists /\ (a \o b) \o c = a \o (b \o c)
BY DEF GroupLists

\* An element of n bytes.
LEMMA ElementIs ==
  ASSUME NEW n \in Nat, NEW e \in [1 .. n -> Bytes]
  PROVE  e \in Seq(Nat) /\ Len(e) = n
<1>1. Bytes \subseteq Nat
  BY DEF Bytes
<1>2. e \in [1 .. n -> Nat]
  BY <1>1
<1>3. QED
  BY <1>2, SeqDef, LenProperties

\* Bytes are natural numbers.
LEMMA ScriptIs ==
  ASSUME NEW s \in Seq(Bytes)
  PROVE  s \in Seq(Nat)
<1>1. Bytes \subseteq Nat
  BY DEF Bytes
<1>2. QED
  BY <1>1, SeqMonotonic, Zenon

\* A transaction has the lengths of the format, and its lists can be counted.
LEMMA TxIs ==
  ASSUME NEW t \in Txs
  PROVE  /\ t.version \in Seq(Nat) /\ Len(t.version) = Width.version
         /\ t.lockTime \in Seq(Nat) /\ Len(t.lockTime) = Width.lockTime
         /\ t.extra \in Seq(Nat) /\ Len(t.extra) \in 0 .. 252
         /\ t.inputs \in Seq(Inputs) /\ Len(t.inputs) \in 0 .. 252 /\ DOMAIN t.inputs = 1 .. Len(t.inputs)
         /\ t.outputs \in Seq(Outputs) /\ Len(t.outputs) \in 0 .. 252 /\ DOMAIN t.outputs = 1 .. Len(t.outputs)
         /\ t.wide \in BOOLEAN
<1>1. WellFormed(t)
  BY FormatAssumption DEF FormatAssumption
<1>2. /\ t.version \in [1 .. Width.version -> Bytes] /\ t.lockTime \in [1 .. Width.lockTime -> Bytes]
      /\ t.inputs \in Seq(Inputs) /\ t.outputs \in Seq(Outputs) /\ t.extra \in Seq(Bytes)
      /\ t.wide \in BOOLEAN
  BY <1>1 DEF WellFormed, Element
<1>3. Width.version \in Nat /\ Width.lockTime \in Nat
  BY WidthAssumption DEF WidthAssumption
<1>4. /\ t.version \in Seq(Nat) /\ Len(t.version) = Width.version
      /\ t.lockTime \in Seq(Nat) /\ Len(t.lockTime) = Width.lockTime
  BY <1>2, <1>3, ElementIs
<1>5. t.extra \in Seq(Nat)
  BY <1>2, ScriptIs
<1>6. /\ Len(t.inputs) \in Nat /\ DOMAIN t.inputs = 1 .. Len(t.inputs)
      /\ Len(t.outputs) \in Nat /\ DOMAIN t.outputs = 1 .. Len(t.outputs)
      /\ Len(t.extra) \in Nat
  BY <1>2, LenProperties
<1>7. Len(t.inputs) < 253 /\ Len(t.outputs) < 253 /\ Len(t.extra) < 253
  BY <1>1 DEF WellFormed, CanBeTold
<1>8. Len(t.inputs) \in 0 .. 252 /\ Len(t.outputs) \in 0 .. 252 /\ Len(t.extra) \in 0 .. 252
  <2>1. \A n \in Nat : n < 253 => n \in 0 .. 252
    OBVIOUS
  <2>2. QED
    BY <1>6, <1>7, <2>1, Zenon
<1>9. QED
  BY <1>2, <1>4, <1>5, <1>6, <1>8

\* How many inputs and outputs there are is a number.
LEMMA ListsAre ==
  ASSUME NEW t \in Txs
  PROVE  /\ Len(t.inputs) \in Nat /\ DOMAIN t.inputs = 1 .. Len(t.inputs)
         /\ Len(t.outputs) \in Nat /\ DOMAIN t.outputs = 1 .. Len(t.outputs)
<1>1. /\ Len(t.inputs) \in 0 .. 252 /\ DOMAIN t.inputs = 1 .. Len(t.inputs)
      /\ Len(t.outputs) \in 0 .. 252 /\ DOMAIN t.outputs = 1 .. Len(t.outputs)
  BY TxIs
<1> DEFINE m == Len(t.inputs)
           n == Len(t.outputs)
<1> HIDE DEF m, n
<1>2. m \in 0 .. 252 /\ n \in 0 .. 252
  BY <1>1 DEF m, n
<1>3. m \in Nat /\ n \in Nat
  BY <1>2
<1>4. QED
  BY <1>1, <1>3 DEF m, n

\* The outpoint of an input, wherever it comes from.
LEMMA InputIs ==
  ASSUME NEW t \in Txs, NEW i \in 1 .. Len(t.inputs)
  PROVE  LET in == t.inputs[i]
         IN  /\ in.outpoint \in Seq(Nat) /\ Len(in.outpoint) = Width.outpoint
             /\ in.tree \in Seq(Nat) /\ Len(in.tree) = Width.tree
             /\ in.sequence \in Seq(Nat) /\ Len(in.sequence) = Width.sequence
             /\ in.script \in Seq(Nat) /\ Len(in.script) < IF t.wide THEN 256 ELSE 253
             /\ Outpoint(in) \in Seq(Nat) /\ Len(Outpoint(in)) = Width.outpoint
             /\ in.trusted # 0 => /\ in.trusted \in DOMAIN TrustedInputs /\ in.trusted \in Nat
                                  /\ TrustedInputs[in.trusted].amount \in Nat
             /\ in.script \in Seq(Bytes)
<1> DEFINE in == t.inputs[i]
<1>1. i \in DOMAIN t.inputs /\ in \in Inputs
  BY TxIs, ElementOfSeq
<1>2. Len(in.script) < IF t.wide THEN 256 ELSE 253
  <2>1. WellFormed(t)
    BY FormatAssumption DEF FormatAssumption
  <2>2. QED
    BY <1>1, <2>1 DEF WellFormed, CanBeTold
<1> HIDE DEF in
<1>3. /\ in.outpoint \in [1 .. Width.outpoint -> Bytes] /\ in.tree \in [1 .. Width.tree -> Bytes]
      /\ in.sequence \in [1 .. Width.sequence -> Bytes] /\ in.script \in Seq(Bytes)
      /\ in.trusted \in {0} \cup (DOMAIN TrustedInputs \cap Bytes)
  BY <1>1 DEF Inputs, Element
<1>4. Width.outpoint \in Nat /\ Width.tree \in Nat /\ Width.sequence \in Nat
  BY WidthAssumption DEF WidthAssumption
<1>5. /\ in.outpoint \in Seq(Nat) /\ Len(in.outpoint) = Width.outpoint
      /\ in.tree \in Seq(Nat) /\ Len(in.tree) = Width.tree
      /\ in.sequence \in Seq(Nat) /\ Len(in.sequence) = Width.sequence
  BY <1>3, <1>4, ElementIs
<1>6. in.script \in Seq(Nat)
  BY <1>3, ScriptIs
<1>7. ASSUME in.trusted # 0
      PROVE  /\ in.trusted \in DOMAIN TrustedInputs /\ in.trusted \in Nat
             /\ TrustedInputs[in.trusted].amount \in Nat
             /\ TrustedInputs[in.trusted].outpoint \in Seq(Nat)
             /\ Len(TrustedInputs[in.trusted].outpoint) = Width.outpoint
  <2> DEFINE c == in.trusted
  <2>1. c \in DOMAIN TrustedInputs /\ c \in Bytes
    BY <1>3, <1>7, Zenon
  <2> HIDE DEF c
  <2>2. c \in Nat
    <3>1. \A b \in Bytes : b \in Nat
      BY DEF Bytes
    <3>2. QED
      BY <2>1, <3>1, Zenon
  <2>3. TrustedInputs[c] \in [outpoint : Seq(Nat), amount : Nat]
    BY <2>1, WidthAssumption, Zenon DEF WidthAssumption
  <2>4. Len(TrustedInputs[c].outpoint) = Width.outpoint
    BY <2>1, FormatAssumption, Zenon DEF FormatAssumption
  <2>5. QED
    BY <2>1, <2>2, <2>3, <2>4 DEF c
<1>8. Outpoint(in) \in Seq(Nat) /\ Len(Outpoint(in)) = Width.outpoint
  BY <1>5, <1>7 DEF Outpoint
<1>9. QED
  BY <1>2, <1>3, <1>5, <1>6, <1>7, <1>8 DEF in

\* So has an output.
LEMMA OutputIs ==
  ASSUME NEW t \in Txs, NEW i \in 1 .. Len(t.outputs)
  PROVE  LET out == t.outputs[i]
         IN  /\ out.amount \in Seq(Nat) /\ Len(out.amount) = Width.amount
             /\ out.scriptVersion \in Seq(Nat) /\ Len(out.scriptVersion) = Width.scriptVersion
             /\ out.script \in Seq(Nat) /\ Len(out.script) < IF t.wide THEN 256 ELSE 253
<1> DEFINE out == t.outputs[i]
<1>1. i \in DOMAIN t.outputs /\ out \in Outputs
  BY TxIs, ElementOfSeq
<1>2. Len(out.script) < IF t.wide THEN 256 ELSE 253
  <2>1. WellFormed(t)
    BY FormatAssumption DEF FormatAssumption
  <2>2. QED
    BY <1>1, <2>1 DEF WellFormed, CanBeTold
<1> HIDE DEF out
<1>3. /\ out.amount \in [1 .. Width.amount -> Bytes]
      /\ out.scriptVersion \in [1 .. Width.scriptVersion -> Bytes] /\ out.script \in Seq(Bytes)
  BY <1>1 DEF Outputs, Element
<1>4. Width.amount \in Nat /\ Width.scriptVersion \in Nat
  BY WidthAssumption DEF WidthAssumption
<1>5. QED
  BY <1>2, <1>3, <1>4, ElementIs, ScriptIs DEF out

\* The value of two bytes.
LEMMA TwoBytesAre ==
  ASSUME NEW a \in Nat, NEW b \in Nat
  PROVE  LittleEndian(<<a, b>>) = a + 256 * b
<1> DEFINE s == <<a, b>>
           g == CHOOSE g : Numbers(g, s)
<1>1. s \in Seq(Nat) /\ DOMAIN s = {1, 2} /\ s[1] = a /\ s[2] = b
  OBVIOUS
<1> HIDE DEF s
<1>2. Numbers(g, s)
  BY <1>1, NumbersExist
<1>3. LittleEndian(s) = g[DOMAIN s]
  BY Zenon DEF LittleEndian, FoldRight, MapThenFoldSet, Numbers
<1> HIDE DEF g
<1>4. \A d \in SUBSET {1, 2} : g[d] = IF d = {} THEN 0 ELSE s[Min(d)] + 256 * g[d \ {Min(d)}]
  BY <1>1, <1>2, Zenon DEF Numbers
<1>5. Min({1, 2}) = 1 /\ Min({2}) = 2 /\ {1, 2} \ {1} = {2} /\ {2} \ {2} = {}
  BY DEF Min
<1>6. {1, 2} \in SUBSET {1, 2} /\ {2} \in SUBSET {1, 2} /\ {} \in SUBSET {1, 2}
      /\ {1, 2} # {} /\ {2} # {}
  OBVIOUS
<1>7. g[{}] = 0
  BY <1>4, <1>6
<1>8. g[{2}] = b + 256 * g[{}]
  <2>1. g[{2}] = s[Min({2})] + 256 * g[{2} \ {Min({2})}]
    BY <1>4, <1>6
  <2>2. QED
    BY <1>1, <1>5, <2>1
<1>9. g[{1, 2}] = a + 256 * g[{2}]
  BY <1>1, <1>4, <1>5, <1>6
<1>10. QED
  BY <1>1, <1>3, <1>7, <1>8, <1>9 DEF s

\* A number the host writes is the number the device reads.
LEMMA VarintTold ==
  ASSUME NEW n \in Nat, NEW wide \in BOOLEAN, n < IF wide THEN 256 ELSE 253
  PROVE  LET v == Varint(n, wide)
         IN  /\ v \in Seq(Nat) /\ Len(v) = IF wide THEN 3 ELSE 1
             /\ VarintReadable(v) /\ VarintBytes(v) = Len(v) /\ VarintValue(v) = n
<1>1. CASE wide
  <2> DEFINE v == <<253, n, 0>>
  <2>1. v \in Seq(Nat) /\ Len(v) = 3 /\ v[1] = 253 /\ v # <<>>
    OBVIOUS
  <2>2. v[2] = n /\ v[3] = 0
    OBVIOUS
  <2>3. Varint(n, wide) = v
    BY <1>1 DEF Varint
  <2> HIDE DEF v
  <2>8. Slice(2, 3, v) = <<n, 0>>
    <3>1. Slice(2, 3, v) = SubSeq(v, 2, 3)
      BY <2>1 DEF Slice
    <3>2. /\ SubSeq(v, 2, 3) \in Seq(Nat) /\ Len(SubSeq(v, 2, 3)) = 2
          /\ \A i \in 1 .. 2 : SubSeq(v, 2, 3)[i] = v[2 + i - 1]
      <4>1. \A i \in 2 .. 3 : v[i] \in Nat
        <5>1. \A i \in 2 .. 3 : i = 2 \/ i = 3
          OBVIOUS
        <5>2. v[2] \in Nat /\ v[3] \in Nat
          BY <2>2
        <5>3. QED
          BY <5>1, <5>2
      <4>2. QED
        BY <2>1, <4>1, SubSeqProperties
    <3> DEFINE w == SubSeq(v, 2, 3)
               u == <<n, 0>>
    <3>3. u \in Seq(Nat) /\ Len(u) = 2 /\ u[1] = n /\ u[2] = 0
      OBVIOUS
    <3>4. w \in Seq(Nat) /\ Len(w) = 2 /\ w[1] = n /\ w[2] = 0
      BY <2>2, <3>2
    <3> HIDE DEF w, u
    <3>5. \A i \in 1 .. 2 : w[i] = u[i]
      BY <3>3, <3>4
    <3>6. w = u
      BY <3>3, <3>4, <3>5, SeqEqual
    <3>7. QED
      BY <3>1, <3>6 DEF w, u
  <2>4. VarintBytes(v) = 3 /\ VarintReadable(v)
    BY <2>1 DEF VarintBytes, VarintReadable
  <2>5. LittleEndian(<<n, 0>>) = n
    BY TwoBytesAre
  <2>6. VarintValue(v) = n
    BY <2>1, <2>4, <2>5, <2>8 DEF VarintValue
  <2>7. QED
    BY <1>1, <2>1, <2>3, <2>4, <2>6
<1>2. CASE ~wide
  <2> DEFINE v == <<n>>
  <2>1. v \in Seq(Nat) /\ Len(v) = 1 /\ v[1] = n /\ v # <<>> /\ n < 253
    BY <1>2
  <2>2. Varint(n, wide) = v
    BY <1>2 DEF Varint
  <2> HIDE DEF v
  <2>3. QED
    BY <1>2, <2>1, <2>2 DEF VarintBytes, VarintReadable, VarintValue
<1>3. QED
  BY <1>1, <1>2

-----------------------------------------------------------------------------
\* Sequences that begin alike.

\* A sequence is its first part and the rest.
LEMMA Parts ==
  ASSUME NEW S, NEW s \in Seq(S), NEW i \in 0 .. Len(s)
  PROVE  /\ First(i, s) \in Seq(S) /\ Len(First(i, s)) = i
         /\ Rest(i, s) \in Seq(S) /\ Len(Rest(i, s)) = Len(s) - i
         /\ First(i, s) \o Rest(i, s) = s
<1>1. Len(s) \in Nat /\ i \in Nat /\ i <= Len(s) /\ \A j \in 1 .. Len(s) : s[j] \in S
  BY LenProperties, ElementOfSeq
<1>2. First(i, s) = SubSeq(s, 1, i) /\ Rest(i, s) = SubSeq(s, i + 1, Len(s))
  BY <1>1 DEF First, Slice, Rest
<1> DEFINE a == SubSeq(s, 1, i)
           n == Len(s)
           b == SubSeq(s, i + 1, n)
<1>3. a \in Seq(S) /\ Len(a) = i /\ \A j \in 1 .. i : a[j] = s[j]
  <2>1. \A j \in 1 .. i : s[j] \in S
    BY <1>1
  <2>2. QED
    BY <1>1, <2>1, SubSeqProperties
<1>4. b \in Seq(S) /\ Len(b) = Len(s) - i /\ \A j \in 1 .. Len(s) - i : b[j] = s[i + j]
  <2>1. n \in Int /\ i + 1 \in Int /\ i + 1 <= n + 1 /\ \A j \in i + 1 .. n : s[j] \in S
    BY <1>1
  <2> DEFINE m == i + 1
  <2>2. m \in Int /\ m <= n + 1 /\ n \in Int /\ \A j \in m .. n : s[j] \in S
    BY <2>1
  <2> HIDE DEF m, n
  <2>3. /\ SubSeq(s, m, n) \in Seq(S)
        /\ Len(SubSeq(s, m, n)) = IF m <= n THEN n - m + 1 ELSE 0
        /\ \A j \in 1 .. n - m + 1 : SubSeq(s, m, n)[j] = s[m + j - 1]
    BY <2>2, SubSeqProperties
  <2>4. Len(SubSeq(s, m, n)) = n - i
    BY <1>1, <2>2, <2>3 DEF m, n
  <2>5. \A j \in 1 .. n - i : j \in 1 .. n - m + 1 /\ m + j - 1 = i + j
    BY <1>1, <2>2 DEF m
  <2>6. QED
    BY <2>3, <2>4, <2>5 DEF m, n
<1> HIDE DEF a, b, n
<1>5. a \o b \in Seq(S) /\ Len(a \o b) = Len(s)
      /\ \A j \in 1 .. Len(s) : (a \o b)[j] = IF j <= i THEN a[j] ELSE b[j - i]
  <2>1. a \in Seq(S) /\ b \in Seq(S)
    BY <1>3, <1>4
  <2>2. /\ a \o b \in Seq(S) /\ Len(a \o b) = Len(a) + Len(b)
        /\ \A j \in 1 .. Len(a) + Len(b) : (a \o b)[j] = IF j <= Len(a) THEN a[j] ELSE b[j - Len(a)]
    BY <2>1, ConcatProperties
  <2>3. Len(a) = i /\ Len(b) = Len(s) - i /\ Len(a) + Len(b) = Len(s)
    BY <1>1, <1>3, <1>4
  <2>4. QED
    BY <2>2, <2>3
<1>6. \A j \in 1 .. Len(s) : (a \o b)[j] = s[j]
  <2>1. TAKE j \in 1 .. Len(s)
  <2>2. CASE j <= i
    <3>1. j \in 1 .. i
      BY <1>1, <2>2
    <3>2. QED
      BY <1>3, <1>5, <2>2, <3>1
  <2>3. CASE ~(j <= i)
    <3>1. j - i \in 1 .. Len(s) - i /\ i + (j - i) = j
      BY <1>1, <2>3
    <3>2. b[j - i] = s[j]
      BY <1>4, <3>1
    <3>3. QED
      BY <1>5, <2>3, <3>2
  <2>4. QED
    BY <2>2, <2>3
<1>7. a \o b = s
  BY <1>5, <1>6, SeqEqual
<1>8. QED
  BY <1>2, <1>3, <1>4, <1>7 DEF a, b, n

\* What follows the same sequence is the same when the whole is.
LEMMA SameAfter ==
  ASSUME NEW S, NEW p \in Seq(S), NEW q \in Seq(S), NEW r \in Seq(S), p \o q = p \o r
  PROVE  q = r
<1>1. /\ Len(p) \in Nat /\ Len(q) \in Nat /\ Len(r) \in Nat
      /\ Len(p \o q) = Len(p) + Len(q) /\ Len(p \o r) = Len(p) + Len(r)
      /\ \A i \in 1 .. Len(q) : (p \o q)[Len(p) + i] = q[i]
      /\ \A i \in 1 .. Len(r) : (p \o r)[Len(p) + i] = r[i]
  BY LenProperties, ConcatProperties
<1>2. Len(q) = Len(r)
  BY <1>1
<1>3. \A i \in 1 .. Len(q) : q[i] = r[i]
  BY <1>1, <1>2
<1>4. QED
  BY <1>2, <1>3, SeqEqual

\* Two ways to cut a sequence in two, the first of them earlier.
TwoCuts(p, q, b, c) == p \o q = b \o c /\ Len(p) <= Len(b)

\* The longer beginning begins with the shorter.
LEMMA Begins ==
  ASSUME NEW S, NEW p \in Seq(S), NEW q \in Seq(S), NEW b \in Seq(S), NEW c \in Seq(S),
         TwoCuts(p, q, b, c)
  PROVE  /\ Rest(Len(p), b) \in Seq(S)
         /\ b = p \o Rest(Len(p), b)
         /\ q = Rest(Len(p), b) \o c
<1>0. p \o q = b \o c /\ Len(p) <= Len(b)
  BY DEF TwoCuts
<1>1. Len(p) \in Nat /\ Len(b) \in Nat /\ Len(p) \in 0 .. Len(b)
  BY <1>0, LenProperties
<1> DEFINE f == First(Len(p), b)
           x == Rest(Len(p), b)
<1>2. f \in Seq(S) /\ Len(f) = Len(p) /\ x \in Seq(S) /\ f \o x = b
  BY <1>1, Parts
<1> HIDE DEF f, x
<1>3. f = p
  <2>1. /\ \A i \in 1 .. Len(p) : (p \o q)[i] = p[i]
        /\ \A i \in 1 .. Len(b) : (b \o c)[i] = b[i]
    BY ConcatProperties
  <2>2. \A i \in 1 .. Len(f) : (f \o x)[i] = f[i]
    BY <1>2, ConcatProperties
  <2>3. \A i \in 1 .. Len(f) : f[i] = p[i]
    BY <1>0, <1>1, <1>2, <2>1, <2>2
  <2>4. QED
    BY <1>2, <2>3, SeqEqual
<1>4. x \o c \in Seq(S) /\ (p \o x) \o c = p \o (x \o c)
  BY <1>2
<1>5. p \o q = p \o (x \o c)
  BY <1>0, <1>2, <1>3, <1>4
<1>6. q = x \o c
  BY <1>4, <1>5, SameAfter
<1>7. QED
  BY <1>2, <1>3, <1>6 DEF x

-----------------------------------------------------------------------------
\* What the device has still to read of what the host sends.

\* The groups ahead are the last ones of the transaction, and the block has
\* those of their bytes that were sent.
Follows(h, b, ahead) ==
  /\ h.sent \in 0 .. Len(Stream[h.tx][h.mode])
  /\ \E behind \in GroupLists :
       /\ behind \o ahead = Groups(h.tx, h.mode)
       /\ BytesOf(behind) \o b = First(h.sent, Stream[h.tx][h.mode])

\* Two ways to cut groups in two.
LEMMA GroupsBegin ==
  ASSUME NEW p \in GroupLists, NEW q \in GroupLists, NEW b \in GroupLists, NEW c \in GroupLists,
         TwoCuts(p, q, b, c)
  PROVE  Rest(Len(p), b) \in GroupLists /\ b = p \o Rest(Len(p), b)
<1> DEFINE S == Seq(Seq(Nat))
<1>1. p \in Seq(S) /\ q \in Seq(S) /\ b \in Seq(S) /\ c \in Seq(S) /\ GroupLists = Seq(S)
  BY DEF GroupLists
<1> HIDE DEF S
<1>2. QED
  BY <1>1, Begins

\* The host sends the bytes of the groups.
LEMMA StreamIs ==
  ASSUME NEW t \in Txs, NEW mode \in Modes
  PROVE  /\ Stream[t][mode] \in Seq(Nat)
         /\ Stream[t][mode] = BytesOf(Groups(t, mode))
         /\ GroupCuts[t][mode] = GroupEnds(t, mode)
<1>1. Stream[t][mode] \in Seq(Bytes)
  BY StreamAssumption
<1>2. Stream[t][mode] \in Seq(Nat)
  BY <1>1, ScriptIs
<1>3. Stream[t][mode] = Serialized(t, mode) /\ GroupCuts[t][mode] = GroupEnds(t, mode)
  BY DEF Stream, GroupCuts
<1>4. QED
  BY <1>2, <1>3 DEF Serialized

\* The block has the first bytes of the groups ahead.
LEMMA BlockIsAhead ==
  ASSUME NEW h, h.tx \in Txs, h.mode \in Modes, NEW b \in Seq(Nat), NEW ahead \in GroupLists,
         Follows(h, b, ahead)
  PROVE  \E r \in Seq(Nat) : b \o r = BytesOf(ahead)
<1> DEFINE s == Stream[h.tx][h.mode]
           n == h.sent
<1>1. PICK behind \in GroupLists :
        /\ behind \o ahead = Groups(h.tx, h.mode)
        /\ BytesOf(behind) \o b = First(n, s)
  BY DEF Follows
<1>2. s \in Seq(Nat) /\ s = BytesOf(behind \o ahead)
  BY <1>1, StreamIs
<1>3. n \in 0 .. Len(s)
  BY DEF Follows
<1> DEFINE p == BytesOf(behind)
           q == BytesOf(ahead)
           r == Rest(n, s)
           f == First(n, s)
<1>4. p \in Seq(Nat) /\ q \in Seq(Nat) /\ s = p \o q
  BY <1>2, BytesOfBoth
<1> HIDE DEF n, s, p, q
<1>5. r \in Seq(Nat) /\ f \o r = s
  BY <1>2, <1>3, Parts
<1>6. f = p \o b
  BY <1>1 DEF s, n, p
<1> HIDE DEF r, f
<1>7. b \o r \in Seq(Nat) /\ (p \o b) \o r = p \o (b \o r)
  BY <1>4, <1>5, Regrouped
<1>8. p \o (b \o r) = p \o q
  BY <1>4, <1>5, <1>6, <1>7
<1>9. b \o r = q
  BY <1>4, <1>7, <1>8, SameAfter
<1>10. QED
  BY <1>5, <1>9 DEF q

\* No group ahead, no byte in the block.
LEMMA NothingAhead ==
  ASSUME NEW h, h.tx \in Txs, h.mode \in Modes, NEW b \in Seq(Nat), Follows(h, b, <<>>)
  PROVE  b = <<>>
<1>1. <<>> \in GroupLists /\ BytesOf(<<>>) = <<>>
  BY BytesOfFew
<1>2. PICK r \in Seq(Nat) : b \o r = <<>>
  BY <1>1, BlockIsAhead
<1>3. Len(b) + Len(r) = 0 /\ Len(b) \in Nat /\ Len(r) \in Nat
  BY <1>2, ConcatProperties, LenProperties
<1>4. QED
  BY <1>3, EmptySeq

\* Groups that are in the block can be taken out of it.
LEMMA GroupsTaken ==
  ASSUME NEW h, h.tx \in Txs, h.mode \in Modes, NEW b \in Seq(Nat),
         NEW g \in GroupLists, NEW a \in GroupLists, Follows(h, b, g \o a),
         Len(BytesOf(g)) <= Len(b)
  PROVE  /\ First(Len(BytesOf(g)), b) = BytesOf(g)
         /\ Rest(Len(BytesOf(g)), b) \in Seq(Nat)
         /\ Follows(h, Rest(Len(BytesOf(g)), b), a)
         /\ b = BytesOf(g) \o Rest(Len(BytesOf(g)), b)
<1> DEFINE x == BytesOf(g)
           n == Len(x)
           f == First(n, b)
           r == Rest(n, b)
<1>1. g \o a \in GroupLists /\ x \in Seq(Nat) /\ BytesOf(a) \in Seq(Nat)
      /\ BytesOf(g \o a) = x \o BytesOf(a)
  BY BytesOfBoth
<1>2. PICK y \in Seq(Nat) : b \o y = x \o BytesOf(a)
  <2> DEFINE ahead == g \o a
  <2>1. ahead \in GroupLists /\ Follows(h, b, ahead)
    BY <1>1
  <2> HIDE DEF ahead
  <2>2. \E y \in Seq(Nat) : b \o y = BytesOf(ahead)
    BY <2>1, BlockIsAhead
  <2>3. QED
    BY <1>1, <2>2 DEF ahead
<1>3. n <= Len(b)
  OBVIOUS
<1> HIDE DEF x
<1> DEFINE z == Rest(Len(x), b)
<1>4. z \in Seq(Nat) /\ b = x \o z
  <2>1. TwoCuts(x, BytesOf(a), b, y)
    BY <1>2, <1>3 DEF TwoCuts
  <2>2. QED
    BY <1>1, <2>1, Begins
<1> HIDE DEF z
<1>5. n \in 0 .. Len(b)
  BY <1>1, <1>3, LenProperties
<1>6. f \in Seq(Nat) /\ Len(f) = n /\ r \in Seq(Nat) /\ f \o r = b
  BY <1>5, Parts
<1> HIDE DEF f, r
<1> DEFINE w == Rest(Len(x), f)
<1>7. w \in Seq(Nat) /\ f = x \o w
  <2>1. TwoCuts(x, z, f, r)
    BY <1>1, <1>4, <1>5, <1>6 DEF TwoCuts
  <2>2. QED
    BY <1>1, <1>4, <1>6, <2>1, Begins
<1> HIDE DEF w
<1>8. f = x
  <2>1. Len(f) = Len(x) + Len(w) /\ Len(w) \in Nat /\ Len(x) \in Nat
    BY <1>1, <1>7, ConcatProperties, LenProperties
  <2>2. w = <<>>
    BY <1>6, <2>1, EmptySeq
  <2>3. QED
    BY <1>1, <1>7, <2>2, ConcatEmptySeq
<1>9. Follows(h, r, a)
  <2>1. PICK behind \in GroupLists :
          /\ behind \o (g \o a) = Groups(h.tx, h.mode)
          /\ BytesOf(behind) \o b = First(h.sent, Stream[h.tx][h.mode])
    BY DEF Follows
  <2>2. behind \o g \in GroupLists /\ (behind \o g) \o a = behind \o (g \o a)
    BY GroupsRegrouped
  <2>3. BytesOf(behind \o g) = BytesOf(behind) \o x /\ BytesOf(behind) \in Seq(Nat)
    BY BytesOfBoth DEF x
  <2>4. (BytesOf(behind) \o x) \o r = BytesOf(behind) \o (x \o r)
    BY <1>1, <1>6, <2>3, Regrouped
  <2>5. BytesOf(behind \o g) \o r = First(h.sent, Stream[h.tx][h.mode])
    BY <1>6, <1>8, <2>1, <2>3, <2>4
  <2>6. h.sent \in 0 .. Len(Stream[h.tx][h.mode])
    BY DEF Follows
  <2>7. QED
    BY <2>1, <2>2, <2>5, <2>6 DEF Follows
<1>10. QED
  BY <1>6, <1>8, <1>9 DEF f, r, x

\* The host that ends its blocks with a group sends whole groups.
LEMMA WholeGroups ==
  ASSUME NEW h, h.tx \in Txs, h.mode \in Modes, NEW b \in Seq(Nat),
         NEW g \in Seq(Seq(Nat)), NEW a \in GroupLists, Follows(h, b, <<g>> \o a),
         h.sent \in GroupCuts[h.tx][h.mode],
         b # <<>> \/ <<g>> \o a = Groups(h.tx, h.mode)
  PROVE  Len(BytesOf(<<g>>)) <= Len(b)
<1> DEFINE G == Groups(h.tx, h.mode)
           n == h.sent
           s == Stream[h.tx][h.mode]
           one == <<g>>
           ahead == one \o a
<1>1. one \in GroupLists /\ Len(one) = 1
  BY BytesOfFew
<1> HIDE DEF one
<1>2. ahead \in GroupLists
  BY <1>1, GroupsTogether
<1> HIDE DEF n, s, G
<1>3. PICK behind \in GroupLists : behind \o ahead = G /\ BytesOf(behind) \o b = First(n, s)
  BY DEF Follows, G, n, s, one
<1>4. n \in 0 .. Len(s) /\ s \in Seq(Nat)
  BY StreamIs DEF Follows, n, s
<1>5. PICK i \in DOMAIN G : n = Len(BytesOf(First(i, G)))
  <2>1. n \in GroupEnds(h.tx, h.mode)
    BY StreamIs, Zenon DEF n
  <2>2. GroupEnds(h.tx, h.mode) = {Len(BytesOf(First(i, G))) : i \in DOMAIN G}
    BY Zenon DEF GroupEnds, G
  <2>3. QED
    BY <2>1, <2>2
<1>6. G \in GroupLists /\ DOMAIN G = 1 .. Len(G) /\ Len(G) \in Nat
  <2>1. G \in GroupLists
    BY <1>2, <1>3, GroupsTogether
  <2>2. QED
    BY <2>1, LenProperties DEF GroupLists
<1> DEFINE p == First(i, G)
           q == Rest(i, G)
<1>7. p \in GroupLists /\ Len(p) = i /\ q \in GroupLists /\ p \o q = G /\ i \in Nat \ {0}
  <2>1. i \in 0 .. Len(G) /\ i \in Nat \ {0}
    BY <1>6
  <2>2. QED
    BY <1>6, <2>1, Parts DEF GroupLists
<1>8. n = Len(BytesOf(p))
  BY <1>5
<1> HIDE DEF p, q
<1> DEFINE x == BytesOf(behind)
<1>9. x \in Seq(Nat)
  BY BytesOfBoth
<1> HIDE DEF x
<1>10. Len(x) + Len(b) = n /\ Len(x) \in Nat /\ Len(b) \in Nat
  <2>1. Len(First(n, s)) = n
    BY <1>4, Parts
  <2>2. Len(x \o b) = Len(x) + Len(b)
    BY <1>9, ConcatProperties
  <2>3. QED
    BY <1>3, <1>9, <2>1, <2>2, LenProperties DEF x
<1>11. CASE Len(p) <= Len(behind)
  <2> DEFINE y == Rest(Len(p), behind)
  <2>1. y \in GroupLists /\ behind = p \o y
    <3> HIDE DEF ahead
    <3>1. TwoCuts(p, q, behind, ahead)
      BY <1>3, <1>7, <1>11 DEF TwoCuts
    <3>2. QED
      BY <1>2, <1>7, <3>1, GroupsBegin
  <2> HIDE DEF y
  <2>2. Len(x) = n + Len(BytesOf(y)) /\ Len(BytesOf(y)) \in Nat
    <3>1. BytesOf(p) \in Seq(Nat) /\ BytesOf(y) \in Seq(Nat) /\ BytesOf(p \o y) = BytesOf(p) \o BytesOf(y)
      BY <1>7, <2>1, BytesOfBoth
    <3>2. QED
      BY <1>8, <2>1, <3>1, ConcatProperties, LenProperties DEF x
  <2>3. Len(b) = 0
    BY <1>10, <2>2
  <2>4. b = <<>>
    BY <2>3, EmptySeq
  <2>5. ahead = G
    BY <2>4 DEF G, one
  <2>6. Len(behind \o ahead) = Len(behind) + Len(ahead) /\ Len(behind) \in Nat /\ Len(ahead) \in Nat
    <3> HIDE DEF ahead
    <3>1. QED
      BY <1>2, GroupsTogether
  <2>7. Len(behind) = 0
    <3> HIDE DEF ahead
    <3>1. QED
      BY <1>3, <2>5, <2>6
  <2>8. QED
    BY <1>7, <1>11, <2>7
<1>12. CASE ~(Len(p) <= Len(behind))
  <2> DEFINE head == behind \o one
  <2>1. head \in GroupLists /\ head \o a = behind \o ahead
    BY <1>1, GroupsRegrouped
  <2>2. Len(head) = Len(behind) + 1 /\ Len(behind) \in Nat
    <3>1. Len(head) = Len(behind) + Len(one) /\ Len(behind) \in Nat
      BY <1>1, GroupsTogether
    <3>2. QED
      BY <1>1, <3>1
  <2>3. BytesOf(head) = x \o BytesOf(one) /\ BytesOf(one) \in Seq(Nat)
    BY <1>1, BytesOfBoth DEF x
  <2> HIDE DEF head
  <2> DEFINE y == Rest(Len(head), p)
  <2>4. y \in GroupLists /\ p = head \o y
    <3>1. TwoCuts(head, a, p, q)
      BY <1>3, <1>7, <1>12, <2>1, <2>2 DEF TwoCuts
    <3>2. QED
      BY <1>7, <2>1, <3>1, GroupsBegin
  <2> HIDE DEF y
  <2>5. n = Len(BytesOf(head)) + Len(BytesOf(y)) /\ Len(BytesOf(y)) \in Nat
    <3>1. BytesOf(head) \in Seq(Nat) /\ BytesOf(y) \in Seq(Nat) /\ BytesOf(head \o y) = BytesOf(head) \o BytesOf(y)
      BY <2>1, <2>4, BytesOfBoth
    <3>2. QED
      BY <1>8, <2>4, <3>1, ConcatProperties, LenProperties
  <2>6. Len(BytesOf(head)) = Len(x) + Len(BytesOf(one)) /\ Len(BytesOf(one)) \in Nat
    BY <1>9, <2>3, ConcatProperties, LenProperties
  <2>7. QED
    BY <1>10, <2>5, <2>6 DEF one
<1>13. QED
  BY <1>11, <1>12

-----------------------------------------------------------------------------
\* Lists, one entry at a time.

\* An entry moves from the rest of a list to its first part.
LEMMA OneEntry ==
  ASSUME NEW S, NEW s \in Seq(S), NEW k \in 0 .. Len(s) - 1
  PROVE  /\ k + 1 \in 1 .. Len(s) /\ s[k + 1] \in S
         /\ Rest(k, s) = <<s[k + 1]>> \o Rest(k + 1, s)
         /\ First(k + 1, s) = First(k, s) \o <<s[k + 1]>>
         /\ Rest(k + 1, s) \in Seq(S) /\ First(k, s) \in Seq(S)
<1>1. Len(s) \in Nat /\ k \in Nat /\ k + 1 \in 1 .. Len(s) /\ k <= Len(s) /\ k + 1 <= Len(s)
      /\ k + 1 \in 0 .. Len(s) /\ k \in 0 .. Len(s) /\ Len(s) \in k + 1 .. Len(s)
      /\ 1 \in 1 .. Len(s) /\ k + 1 - 1 = k
  BY LenProperties
<1>2. s[k + 1] \in S
  BY <1>1, ElementOfSeq
<1> DEFINE m == k + 1
           n == Len(s)
<1>3. m \in 1 .. Len(s) /\ n \in m .. Len(s) /\ 1 \in 1 .. Len(s) /\ m \in 1 .. Len(s)
  BY <1>1
<1> HIDE DEF m, n
<1>4. SubSeq(s, m, n) = <<s[m]>> \o SubSeq(s, m + 1, n)
  BY <1>3, SubSeqRecursiveFirst
<1>5. SubSeq(s, 1, m) = SubSeq(s, 1, m - 1) \o <<s[m]>>
  BY <1>3, SubSeqRecursiveSecond
<1>6. Rest(k, s) = SubSeq(s, m, n) /\ Rest(k + 1, s) = SubSeq(s, m + 1, n)
  BY DEF Rest, m, n
<1>7. First(k + 1, s) = SubSeq(s, 1, m) /\ First(k, s) = SubSeq(s, 1, m - 1)
  BY <1>1 DEF First, Slice, m
<1>8. Rest(k + 1, s) \in Seq(S) /\ First(k, s) \in Seq(S)
  BY <1>1, Parts
<1>9. QED
  BY <1>1, <1>2, <1>4, <1>5, <1>6, <1>7, <1>8 DEF m

\* The first part and the rest at both ends of a list.
LEMMA ListEnds ==
  ASSUME NEW S, NEW s \in Seq(S)
  PROVE  /\ First(0, s) = <<>> /\ First(Len(s), s) = s
         /\ Rest(0, s) = s /\ Rest(Len(s), s) = <<>>
<1>1. Len(s) \in Nat /\ 0 <= Len(s) /\ 0 \in 0 .. Len(s) /\ Len(s) \in 0 .. Len(s) /\ Len(s) - Len(s) = 0
  BY LenProperties
<1>2. /\ First(0, s) \in Seq(S) /\ Len(First(0, s)) = 0
      /\ Rest(Len(s), s) \in Seq(S) /\ Len(Rest(Len(s), s)) = Len(s) - Len(s)
  BY <1>1, Parts
<1>3. First(0, s) = <<>> /\ Rest(Len(s), s) = <<>>
  BY <1>1, <1>2, EmptySeq
<1>4. SubSeq(s, 1, Len(s)) = s
  BY SubSeqFull
<1>5. First(Len(s), s) = SubSeq(s, 1, Len(s)) /\ Rest(0, s) = SubSeq(s, 1, Len(s))
  BY <1>1 DEF First, Slice, Rest
<1>6. QED
  BY <1>3, <1>4, <1>5

\* A list of sequences, flattened.
LEMMA OneFlattened ==
  ASSUME NEW B, NEW s \in Seq(Seq(B))
  PROVE  /\ \A k \in 0 .. Len(s) :
              FlattenSeq(Rest(k, s)) \in Seq(B) /\ FlattenSeq(First(k, s)) \in Seq(B)
         /\ \A k \in 0 .. Len(s) - 1 :
              /\ s[k + 1] \in Seq(B)
              /\ FlattenSeq(Rest(k, s)) = s[k + 1] \o FlattenSeq(Rest(k + 1, s))
              /\ FlattenSeq(First(k + 1, s)) = FlattenSeq(First(k, s)) \o s[k + 1]
         /\ FlattenSeq(First(0, s)) = <<>> /\ FlattenSeq(First(Len(s), s)) = FlattenSeq(s)
         /\ FlattenSeq(Rest(0, s)) = FlattenSeq(s) /\ FlattenSeq(Rest(Len(s), s)) = <<>>
<1> DEFINE S == Seq(B)
<1>1. s \in Seq(S) /\ \A u \in Seq(S) : FlattenSeq(u) \in Seq(B)
  BY FlattenConcat
<1> HIDE DEF S
<1>2. ASSUME NEW k \in 0 .. Len(s)
      PROVE  FlattenSeq(Rest(k, s)) \in Seq(B) /\ FlattenSeq(First(k, s)) \in Seq(B)
  BY <1>1, Parts
<1>3. ASSUME NEW k \in 0 .. Len(s) - 1
      PROVE  /\ s[k + 1] \in Seq(B)
             /\ FlattenSeq(Rest(k, s)) = s[k + 1] \o FlattenSeq(Rest(k + 1, s))
             /\ FlattenSeq(First(k + 1, s)) = FlattenSeq(First(k, s)) \o s[k + 1]
  <2> DEFINE e == s[k + 1]
             r == Rest(k + 1, s)
             f == First(k, s)
  <2>1. e \in S /\ r \in Seq(S) /\ f \in Seq(S)
        /\ Rest(k, s) = <<e>> \o r /\ First(k + 1, s) = f \o <<e>>
    BY <1>1, OneEntry
  <2> HIDE DEF e, r, f
  <2>2. e \in Seq(B) /\ r \in Seq(Seq(B)) /\ f \in Seq(Seq(B)) /\ <<e>> \in Seq(Seq(B))
    BY <2>1 DEF S
  <2>3. FlattenSeq(<<e>>) = e
    BY <2>2, FlattenFew
  <2>4. FlattenSeq(<<e>> \o r) = FlattenSeq(<<e>>) \o FlattenSeq(r)
    BY <2>2, FlattenConcat
  <2>5. FlattenSeq(f \o <<e>>) = FlattenSeq(f) \o FlattenSeq(<<e>>)
    BY <2>2, FlattenConcat
  <2>6. QED
    BY <2>1, <2>2, <2>3, <2>4, <2>5 DEF e, r, f
<1>4. First(0, s) = <<>> /\ First(Len(s), s) = s /\ Rest(0, s) = s /\ Rest(Len(s), s) = <<>>
  BY <1>1, ListEnds
<1>5. QED
  BY <1>2, <1>3, <1>4, FlattenFew

-----------------------------------------------------------------------------
\* The groups of a transaction.

\* What is to come of a script of an input and of its sequence.
ScriptAhead(script, sequence) ==
  IF script # <<>> THEN ScriptGroups(Front(script)) \o <<<<<<Last(script)>>, sequence>>>>
                   ELSE <<<<sequence>>>>

\* The sequence comes with the last byte of the script, if there is one.
LEMMA ScriptAheadIs ==
  ASSUME NEW sequence \in Seq(Nat)
  PROVE  /\ ScriptAhead(<<>>, sequence) = <<<<sequence>>>> /\ <<<<sequence>>>> \in GroupLists
         /\ \A e \in Nat : /\ ScriptAhead(<<e>>, sequence) = <<<<<<e>>, sequence>>>>
                           /\ <<<<<<e>>, sequence>>>> \in GroupLists
         /\ \A s \in Seq(Nat), e \in Nat :
              ScriptAhead(Append(s, e), sequence) = ScriptGroups(s) \o <<<<<<e>>, sequence>>>>
         /\ \A s \in Seq(Nat) : ScriptAhead(s, sequence) \in GroupLists
<1>1. ScriptAhead(<<>>, sequence) = <<<<sequence>>>>
  BY DEF ScriptAhead
<1>2. <<<<sequence>>>> \in GroupLists
  BY ElementsTogether, BytesOfFew
<1>3. ASSUME NEW e \in Nat
      PROVE  <<<<<<e>>, sequence>>>> \in GroupLists
  <2>1. <<e>> \in Seq(Nat)
    OBVIOUS
  <2>2. <<<<e>>, sequence>> \in Seq(Seq(Nat))
    BY <2>1, ElementsTogether
  <2>3. QED
    BY <2>2, BytesOfFew
<1>4. ASSUME NEW s \in Seq(Nat), NEW e \in Nat
      PROVE  ScriptAhead(Append(s, e), sequence) = ScriptGroups(s) \o <<<<<<e>>, sequence>>>>
  <2> DEFINE u == Append(s, e)
  <2>1. u \in Seq(Nat) /\ Len(u) = Len(s) + 1 /\ u[Len(s) + 1] = e /\ Len(s) \in Nat
        /\ SubSeq(u, 1, Len(s)) = s
    <3>1. /\ u \in Seq(Nat) /\ Len(u) = Len(s) + 1 /\ u[Len(s) + 1] = e /\ Len(s) \in Nat
          /\ \A i \in 1 .. Len(s) : u[i] = s[i]
      BY AppendProperties, LenProperties
    <3> HIDE DEF u
    <3>2. Len(s) \in 0 .. Len(u) /\ First(Len(s), u) = SubSeq(u, 1, Len(s)) /\ Len(s) <= Len(u)
      BY <3>1 DEF First, Slice
    <3>3. /\ First(Len(s), u) \in Seq(Nat) /\ Len(First(Len(s), u)) = Len(s)
          /\ \A i \in 1 .. Len(s) : First(Len(s), u)[i] = u[i]
      BY <3>1, <3>2, FirstIs
    <3>4. First(Len(s), u) = s
      BY <3>1, <3>3, SeqEqual
    <3>5. QED
      BY <3>1, <3>2, <3>4
  <2> HIDE DEF u
  <2>2. u # <<>> /\ Len(u) - 1 = Len(s)
    BY <2>1, EmptySeq
  <2>3. Front(u) = s
    BY <2>1, <2>2 DEF Front
  <2>4. Last(u) = e
    BY <2>1 DEF Last
  <2>5. QED
    BY <2>2, <2>3, <2>4 DEF ScriptAhead, u
<1>5. \A e \in Nat : ScriptAhead(<<e>>, sequence) = <<<<<<e>>, sequence>>>>
  <2>1. TAKE e \in Nat
  <2>2. <<>> \in Seq(Nat) /\ Append(<<>>, e) = <<e>>
    OBVIOUS
  <2>3. ScriptGroups(<<>>) = <<>>
    BY DEF ScriptGroups
  <2> DEFINE g == <<<<<<e>>, sequence>>>>
  <2>4. g \in GroupLists
    BY <1>3
  <2> HIDE DEF g
  <2>5. <<>> \o g = g
    BY <2>4, GroupsTogether
  <2>6. QED
    BY <1>4, <2>2, <2>3, <2>5 DEF g
<1>6. ASSUME NEW s \in Seq(Nat)
      PROVE  ScriptAhead(s, sequence) \in GroupLists
  <2>1. CASE s = <<>>
    BY <1>1, <1>2, <2>1
  <2>2. CASE s # <<>>
    <3>1. PICK v \in Seq(Nat), e \in Nat : s = Append(v, e)
      BY <2>2, SequenceEmptyOrAppend
    <3> DEFINE g == <<<<<<e>>, sequence>>>>
    <3>2. g \in GroupLists /\ ScriptAhead(s, sequence) = ScriptGroups(v) \o g
      BY <1>3, <1>4, <3>1
    <3> HIDE DEF g
    <3>3. QED
      BY <3>2, ScriptGroupsType, GroupsTogether
  <2>3. QED
    BY <2>1, <2>2
<1>7. QED
  BY <1>1, <1>2, <1>3, <1>4, <1>5, <1>6

\* A part of the script but not its last byte.
LEMMA ScriptAheadBoth ==
  ASSUME NEW sequence \in Seq(Nat), NEW x \in Seq(Nat), NEW y \in Seq(Nat), y # <<>>
  PROVE  /\ ScriptAhead(x \o y, sequence) = ScriptGroups(x) \o ScriptAhead(y, sequence)
         /\ ScriptGroups(x) \in GroupLists /\ ScriptAhead(y, sequence) \in GroupLists
<1>1. PICK v \in Seq(Nat), e \in Nat : y = Append(v, e)
  BY SequenceEmptyOrAppend
<1>2. x \o Append(v, e) = Append(x \o v, e) /\ x \o v \in Seq(Nat)
  OBVIOUS
<1> DEFINE g == <<<<<<e>>, sequence>>>>
<1>3. g \in GroupLists
  BY ScriptAheadIs
<1>4. ScriptAhead(y, sequence) = ScriptGroups(v) \o g
  BY <1>1, ScriptAheadIs
<1>5. ScriptAhead(Append(x \o v, e), sequence) = ScriptGroups(x \o v) \o g
  BY <1>2, ScriptAheadIs
<1> HIDE DEF g
<1>6. ScriptGroups(x \o v) = ScriptGroups(x) \o ScriptGroups(v)
  BY ScriptGroupsBoth
<1>7. ScriptGroups(x) \in GroupLists /\ ScriptGroups(v) \in GroupLists
  BY ScriptGroupsType
<1>8. (ScriptGroups(x) \o ScriptGroups(v)) \o g = ScriptGroups(x) \o (ScriptGroups(v) \o g)
  BY <1>3, <1>7, GroupsRegrouped
<1>9. ScriptAhead(y, sequence) \in GroupLists
  BY ScriptAheadIs
<1>10. QED
  BY <1>1, <1>2, <1>4, <1>5, <1>6, <1>7, <1>8, <1>9

\* The group at the head of an input.
HeadOf(in, mode, wide) == InputHead(in, mode) \o <<Varint(Len(in.script), wide)>>

\* Its bytes before the length of the script.
FormOf(in, mode) ==
  IF mode = "TRUSTED_INPUT" THEN Outpoint(in) \o in.tree
  ELSE IF in.trusted = 0 THEN <<0>> \o in.outpoint
  ELSE (<<1, in.trusted>> \o Filler(Width.trusted - 1)) \o in.tree

\* Zeros.
LEMMA FillerIs ==
  ASSUME NEW n \in Nat
  PROVE  Filler(n) \in Seq(Nat) /\ Len(Filler(n)) = n
<1>1. [i \in 1 .. n |-> 0] \in Seq(Nat) /\ Len([i \in 1 .. n |-> 0]) = n
  OBVIOUS
<1>2. QED
  BY <1>1 DEF Filler

\* An input is its head, its script and its sequence.
LEMMA InputGroupsAre ==
  ASSUME NEW t \in Txs, NEW i \in 1 .. Len(t.inputs), NEW mode
  PROVE  LET in == t.inputs[i]
         IN  /\ InputGroups(in, mode, t.wide) = <<HeadOf(in, mode, t.wide)>> \o ScriptAhead(in.script, in.sequence)
             /\ HeadOf(in, mode, t.wide) \in Seq(Seq(Nat)) /\ <<HeadOf(in, mode, t.wide)>> \in GroupLists
             /\ ScriptAhead(in.script, in.sequence) \in GroupLists
             /\ InputGroups(in, mode, t.wide) \in GroupLists
             /\ FormOf(in, mode) \in Seq(Nat)
             /\ BytesOf(<<HeadOf(in, mode, t.wide)>>) = FormOf(in, mode) \o Varint(Len(in.script), t.wide)
<1> DEFINE in == t.inputs[i]
           v == Varint(Len(in.script), t.wide)
           sequence == in.sequence
           script == in.script
<1>1. /\ in.outpoint \in Seq(Nat) /\ in.tree \in Seq(Nat) /\ sequence \in Seq(Nat) /\ script \in Seq(Nat)
      /\ Outpoint(in) \in Seq(Nat) /\ (in.trusted # 0 => in.trusted \in Nat)
  BY InputIs
<1>2. v \in Seq(Nat)
  <2>1. t.wide \in BOOLEAN /\ Len(script) \in Nat /\ Len(script) < IF t.wide THEN 256 ELSE 253
    BY <1>1, TxIs, InputIs, LenProperties
  <2> DEFINE n == Len(script)
             wide == t.wide
  <2>2. n \in Nat /\ wide \in BOOLEAN /\ n < IF wide THEN 256 ELSE 253
    BY <2>1
  <2> HIDE DEF n, wide
  <2>3. Varint(n, wide) \in Seq(Nat)
    BY <2>2, VarintTold
  <2>4. QED
    BY <2>3 DEF n, wide
<1> HIDE DEF in, v, sequence, script
<1>3. InputScriptGroups(in) = ScriptAhead(script, sequence)
  <2>1. CASE script # <<>>
    BY <2>1 DEF InputScriptGroups, ScriptAhead, script, sequence
  <2>2. CASE script = <<>>
    <3>1. ScriptGroups(<<>>) = <<>>
      BY DEF ScriptGroups
    <3> DEFINE g == <<<<sequence>>>>
    <3>2. g \in GroupLists /\ ScriptAhead(script, sequence) = g
      BY <1>1, <2>2, ScriptAheadIs
    <3>3. InputScriptGroups(in) = <<>> \o g
      BY <2>2, <3>1 DEF InputScriptGroups, script, sequence
    <3> HIDE DEF g
    <3>4. QED
      BY <3>2, <3>3, GroupsTogether
  <2>3. QED
    BY <2>1, <2>2
<1>4. ScriptAhead(script, sequence) \in GroupLists
  BY <1>1, ScriptAheadIs
<1> DEFINE form == FormOf(in, mode)
           head == InputHead(in, mode)
<1>5. form \in Seq(Nat) /\ head \in Seq(Seq(Nat)) /\ FlattenSeq(head) = form
  <2>1. CASE mode = "TRUSTED_INPUT"
    <3> DEFINE o == Outpoint(in)
               b == in.tree
    <3>1. form = o \o b /\ head = <<form>>
      BY <2>1 DEF FormOf, InputHead
    <3>2. form \in Seq(Nat)
      <4>1. o \in Seq(Nat) /\ b \in Seq(Nat)
        BY <1>1, Zenon
      <4> HIDE DEF o, b, form
      <4>2. QED
        BY <3>1, <4>1, ConcatProperties
    <3> HIDE DEF form, head
    <3>3. QED
      BY <3>1, <3>2, ElementsTogether
  <2>2. CASE mode # "TRUSTED_INPUT" /\ in.trusted = 0
    <3> DEFINE o == in.outpoint
    <3>1. form = <<0>> \o o /\ head = <<form>>
      BY <2>2 DEF FormOf, InputHead
    <3>2. form \in Seq(Nat)
      <4>1. o \in Seq(Nat)
        BY <1>1
      <4> HIDE DEF o, form
      <4>2. <<0>> \in Seq(Nat)
        OBVIOUS
      <4>3. QED
        BY <3>1, <4>1, <4>2, ConcatProperties
    <3> HIDE DEF form, head
    <3>3. QED
      BY <3>1, <3>2, ElementsTogether
  <2>3. CASE mode # "TRUSTED_INPUT" /\ in.trusted # 0
    <3> DEFINE f == Filler(Width.trusted - 1)
               c == in.trusted
               a == <<1, c>> \o f
               b == in.tree
    <3>1. form = a \o b /\ head = <<a, b>>
      BY <2>3 DEF FormOf, InputHead
    <3>2. f \in Seq(Nat)
      <4>1. Width.trusted - 1 \in Nat
        BY WidthAssumption DEF WidthAssumption
      <4>2. QED
        BY <4>1, FillerIs
    <3>3. c \in Nat /\ b \in Seq(Nat)
      <4>1. c \in Nat
        BY <1>1, <2>3, Zenon
      <4>2. b \in Seq(Nat)
        BY <1>1
      <4>3. QED
        BY <4>1, <4>2
    <3> HIDE DEF form, head, b, c, f
    <3>4. <<1, c>> \in Seq(Nat)
      BY <3>3
    <3>5. a \in Seq(Nat)
      BY <3>2, <3>4, ConcatProperties
    <3> HIDE DEF a
    <3>6. a \o b \in Seq(Nat)
      BY <3>3, <3>5, ConcatProperties
    <3>7. <<a, b>> \in Seq(Seq(Nat)) /\ FlattenSeq(<<a, b>>) = a \o b
      BY <3>3, <3>5, ElementsTogether
    <3>8. QED
      BY <3>1, <3>6, <3>7
  <2>4. QED
    BY <2>1, <2>2, <2>3
<1> HIDE DEF form, head
<1>6. /\ head \o <<v>> \in Seq(Seq(Nat)) /\ FlattenSeq(head \o <<v>>) = form \o v
  <2>1. <<v>> \in Seq(Seq(Nat)) /\ FlattenSeq(<<v>>) = v
    BY <1>2, ElementsTogether
  <2> DEFINE w == <<v>>
  <2> HIDE DEF w
  <2>2. w \in Seq(Seq(Nat)) /\ FlattenSeq(w) = v
    BY <2>1 DEF w
  <2>3. head \o w \in Seq(Seq(Nat))
    BY <1>5, <2>2
  <2>4. FlattenSeq(head \o w) = FlattenSeq(head) \o FlattenSeq(w)
    BY <1>5, <2>2, FlattenConcat
  <2>5. QED
    BY <1>5, <2>2, <2>3, <2>4 DEF w
<1> DEFINE h == HeadOf(in, mode, t.wide)
<1>7. h = head \o <<v>>
  BY DEF HeadOf, head, v
<1> HIDE DEF h
<1>8. h \in Seq(Seq(Nat)) /\ <<h>> \in GroupLists /\ BytesOf(<<h>>) = form \o v
  BY <1>6, <1>7, BytesOfFew
<1>9. InputGroups(in, mode, t.wide) = <<h>> \o ScriptAhead(script, sequence)
  BY <1>3 DEF InputGroups, h, HeadOf
<1>10. InputGroups(in, mode, t.wide) \in GroupLists
  BY <1>4, <1>8, <1>9, GroupsTogether
<1>11. QED
  BY <1>4, <1>5, <1>8, <1>9, <1>10 DEF in, h, form, v, script, sequence

\* The numbers the host writes with one byte.
LEMMA CountTold ==
  \A n \in 0 .. 252 : Varint(n, FALSE) \in Seq(Nat) /\ Varint(n, FALSE) = <<n>>
<1>1. TAKE n \in 0 .. 252
<1>2. <<n>> \in Seq(Nat)
  OBVIOUS
<1>3. QED
  BY <1>2 DEF Varint

\* Two entries.
LEMMA OneAndOne ==
  ASSUME NEW S, NEW a \in S, NEW b \in S
  PROVE  <<a>> \o <<b>> = <<a, b>>
<1>0. <<a>> \in Seq(S)
  OBVIOUS
<1>1. <<a>> \in Seq(S) /\ Append(<<a>>, b) = <<a, b>>
  <2> DEFINE u == <<a>>
             d == <<a, b>>
  <2>1. d \in Seq(S) /\ Len(d) = 2 /\ d[1] = a /\ d[2] = b
    OBVIOUS
  <2>2. u \in Seq(S) /\ Len(u) = 1 /\ u[1] = a
    BY <1>0
  <2> HIDE DEF u, d
  <2>3. /\ Append(u, b) \in Seq(S) /\ Len(Append(u, b)) = 2
        /\ Append(u, b)[1] = a /\ Append(u, b)[2] = b
    <3> DEFINE x == Append(u, b)
    <3>0. u \in Seq(S) /\ b \in S
      BY <2>2
    <3>1. /\ x \in Seq(S) /\ Len(x) = Len(u) + 1
          /\ \A i \in 1 .. Len(u) : x[i] = u[i]
          /\ x[Len(u) + 1] = b
      BY ONLY <3>0, AppendProperties DEF x
    <3> HIDE DEF x
    <3>2. x[1] = u[1] /\ x[2] = b
      BY <2>2, <3>1
    <3>3. QED
      BY <2>2, <3>1, <3>2 DEF x
  <2> DEFINE w == Append(u, b)
  <2> HIDE DEF w
  <2>4. w \in Seq(S) /\ Len(w) = 2 /\ w[1] = a /\ w[2] = b
    BY <2>3 DEF w
  <2>5. \A i \in 1 .. 2 : w[i] = d[i]
    BY <2>1, <2>4
  <2>6. w = d
    BY <2>1, <2>4, <2>5, SeqEqual
  <2>7. QED
    BY <1>0, <2>6 DEF w, u, d
<1> DEFINE u == <<a>>
<1> HIDE DEF u
<1>2. u \in Seq(S)
  BY <1>1 DEF u
<1>3. u \o <<b>> = Append(u, b)
  BY <1>2, AppendIsConcat
<1>4. QED
  BY <1>1, <1>3 DEF u

\* An output is its head and its script.
LEMMA OutputGroupsAre ==
  ASSUME NEW t \in Txs, NEW i \in 1 .. Len(t.outputs)
  PROVE  LET out == t.outputs[i]
             head == <<out.amount, out.scriptVersion, Varint(Len(out.script), t.wide)>>
         IN  /\ OutputGroups(out, t.wide) = <<head>> \o ScriptGroups(out.script)
             /\ head \in Seq(Seq(Nat)) /\ <<head>> \in GroupLists
             /\ ScriptGroups(out.script) \in GroupLists
             /\ OutputGroups(out, t.wide) \in GroupLists
             /\ out.amount \o out.scriptVersion \in Seq(Nat)
             /\ BytesOf(<<head>>) = (out.amount \o out.scriptVersion) \o Varint(Len(out.script), t.wide)
<1> DEFINE out == t.outputs[i]
           a == out.amount
           b == out.scriptVersion
           script == out.script
           v == Varint(Len(script), t.wide)
           head == <<a, b, v>>
<1>1. a \in Seq(Nat) /\ b \in Seq(Nat) /\ script \in Seq(Nat)
  BY OutputIs
<1>2. v \in Seq(Nat)
  <2> DEFINE n == Len(script)
             wide == t.wide
  <2>1. n \in Nat /\ wide \in BOOLEAN /\ n < IF wide THEN 256 ELSE 253
    BY <1>1, TxIs, OutputIs, LenProperties
  <2> HIDE DEF n, wide
  <2>2. Varint(n, wide) \in Seq(Nat)
    BY <2>1, VarintTold
  <2>3. QED
    BY <2>2 DEF n, wide
<1>3. OutputGroups(out, t.wide) = <<head>> \o ScriptGroups(script)
  BY DEF OutputGroups
<1> HIDE DEF a, b, script, v
<1>31. Listed(a) /\ Listed(b) /\ Listed(v)
  BY <1>1, <1>2 DEF Listed
<1>4. head \in Seq(Seq(Nat)) /\ FlattenSeq(head) = (a \o b) \o v
  <2>1. head = <<a, b, v>>
    OBVIOUS
  <2> HIDE DEF head
  <2>2. Joins(head, a, b, v)
    BY ONLY <1>31, <2>1, ThreeElements, Zenon
  <2>3. QED
    BY ONLY <2>2 DEF Joins
<1> HIDE DEF head
<1>5. <<head>> \in GroupLists /\ BytesOf(<<head>>) = (a \o b) \o v
  BY <1>4, BytesOfFew
<1>6. ScriptGroups(script) \in GroupLists
  BY <1>1, ScriptGroupsType
<1>7. <<head>> \o ScriptGroups(script) \in GroupLists
  BY <1>5, <1>6, GroupsTogether
<1>8. a \o b \in Seq(Nat)
  BY <1>1, ConcatProperties
<1>9. QED
  BY <1>3, <1>4, <1>5, <1>6, <1>7, <1>8 DEF a, b, script, v, head

\* The group at the head of the tail, and its bytes after the lock time.
TailHead(t) == <<t.lockTime>> \o IF t.extra = <<>> THEN <<>> ELSE <<<<Len(t.extra)>>>>
TailCount(t) == IF t.extra = <<>> THEN <<>> ELSE Varint(Len(t.extra), FALSE)

\* The tail is its head and the extra data.
LEMMA TailGroupsAre ==
  ASSUME NEW t \in Txs
  PROVE  /\ TailGroups(t) = <<TailHead(t)>> \o ScriptGroups(t.extra)
         /\ TailHead(t) \in Seq(Seq(Nat)) /\ <<TailHead(t)>> \in GroupLists
         /\ ScriptGroups(t.extra) \in GroupLists /\ TailGroups(t) \in GroupLists
         /\ TailCount(t) \in Seq(Nat)
         /\ BytesOf(<<TailHead(t)>>) = t.lockTime \o TailCount(t)
<1> DEFINE a == t.lockTime
           x == t.extra
           v == Varint(Len(x), FALSE)
           c == TailCount(t)
           head == TailHead(t)
<1>1. a \in Seq(Nat) /\ x \in Seq(Nat) /\ Len(x) \in 0 .. 252
  BY TxIs
<1>2. v \in Seq(Nat) /\ v = <<Len(x)>>
  BY <1>1, CountTold, Zenon
<1>3. c \in Seq(Nat) /\ head \in Seq(Seq(Nat)) /\ FlattenSeq(head) = a \o c
  <2>1. CASE x = <<>>
    <3>1. c = <<>> /\ head = <<a>> \o <<>>
      BY <2>1 DEF TailCount, TailHead
    <3> HIDE DEF c, head, a, x, v
    <3> DEFINE u == <<a>>
    <3>2. u \in Seq(Seq(Nat)) /\ FlattenSeq(u) = a
      BY <1>1, ElementsTogether
    <3> HIDE DEF u
    <3>3. u \o <<>> = u /\ a \o <<>> = a
      BY <1>1, <3>2, ConcatEmptySeq
    <3>4. head = u
      BY <3>1, <3>3 DEF u
    <3>5. QED
      BY <3>1, <3>2, <3>3, <3>4, EmptySeq
  <2>2. CASE x # <<>>
    <3>1. c = v /\ head = <<a>> \o <<v>>
      BY <1>2, <2>2 DEF TailCount, TailHead
    <3> HIDE DEF c, head, a, x, v
    <3>2. <<a>> \o <<v>> = <<a, v>>
      BY <1>1, <1>2, OneAndOne
    <3>3. <<a, v>> \in Seq(Seq(Nat)) /\ FlattenSeq(<<a, v>>) = a \o v
      BY <1>1, <1>2, ElementsTogether
    <3>4. QED
      BY <1>2, <3>1, <3>2, <3>3
  <2>3. QED
    BY <2>1, <2>2
<1>4. TailGroups(t) = <<head>> \o ScriptGroups(x)
  BY DEF TailGroups, TailHead
<1> HIDE DEF head, c, x, a, v
<1>5. <<head>> \in GroupLists /\ BytesOf(<<head>>) = a \o c
  BY <1>3, BytesOfFew
<1>6. ScriptGroups(x) \in GroupLists
  BY <1>1, ScriptGroupsType
<1>7. <<head>> \o ScriptGroups(x) \in GroupLists
  BY <1>5, <1>6, GroupsTogether
<1>8. QED
  BY <1>3, <1>4, <1>5, <1>6, <1>7 DEF head, c, x, a

\* The groups of the inputs and of the outputs that are to come after k of
\* them, and what follows the inputs.
InputList(t, mode) == [i \in DOMAIN t.inputs |-> InputGroups(t.inputs[i], mode, t.wide)]
OutputList(t) == [i \in DOMAIN t.outputs |-> OutputGroups(t.outputs[i], t.wide)]
InputsAhead(t, mode, k) == FlattenSeq(Rest(k, InputList(t, mode)))
OutputsAhead(t, k) == FlattenSeq(Rest(k, OutputList(t)))
Ending(t, mode) ==
  IF mode = "SIGNATURE" THEN <<>>
  ELSE <<<<Varint(Len(t.outputs), FALSE)>>>> \o (OutputsAhead(t, 0) \o TailGroups(t))

\* The groups of the inputs that are to come, one input at a time.
LEMMA InputsAheadAre ==
  ASSUME NEW t \in Txs, NEW mode
  PROVE  /\ \A k \in 0 .. Len(t.inputs) : InputsAhead(t, mode, k) \in GroupLists
         /\ \A k \in 0 .. Len(t.inputs) - 1 :
              InputsAhead(t, mode, k) = InputGroups(t.inputs[k + 1], mode, t.wide) \o InputsAhead(t, mode, k + 1)
         /\ InputsAhead(t, mode, Len(t.inputs)) = <<>>
         /\ InputsAhead(t, mode, 0) = FlattenSeq(InputList(t, mode))
<1> DEFINE list == InputList(t, mode)
           n == Len(t.inputs)
           B == Seq(Seq(Nat))
<1>1. n \in Nat /\ DOMAIN t.inputs = 1 .. n
  BY ListsAre
<1>2. \A i \in 1 .. n : InputGroups(t.inputs[i], mode, t.wide) \in Seq(B)
  BY InputGroupsAre, Zenon DEF GroupLists
<1>3. list = [i \in 1 .. n |-> InputGroups(t.inputs[i], mode, t.wide)]
  BY <1>1 DEF InputList
<1> HIDE DEF n, B
<1>4. list \in Seq(Seq(B)) /\ Len(list) = n /\ \A i \in 1 .. n : list[i] = InputGroups(t.inputs[i], mode, t.wide)
  BY <1>1, <1>2, <1>3
<1>5. GroupLists = Seq(B)
  BY DEF GroupLists, B
<1> HIDE DEF list
<1>6. /\ \A k \in 0 .. n : FlattenSeq(Rest(k, list)) \in Seq(B)
      /\ \A k \in 0 .. n - 1 : FlattenSeq(Rest(k, list)) = list[k + 1] \o FlattenSeq(Rest(k + 1, list))
      /\ FlattenSeq(Rest(0, list)) = FlattenSeq(list) /\ FlattenSeq(Rest(n, list)) = <<>>
  BY <1>4, OneFlattened
<1>7. \A k \in 0 .. n - 1 : list[k + 1] = InputGroups(t.inputs[k + 1], mode, t.wide)
  BY <1>1, <1>4
<1>8. QED
  BY <1>5, <1>6, <1>7, Zenon DEF InputsAhead, list, n

\* Those of the outputs.
LEMMA OutputsAheadAre ==
  ASSUME NEW t \in Txs
  PROVE  /\ \A k \in 0 .. Len(t.outputs) : OutputsAhead(t, k) \in GroupLists
         /\ \A k \in 0 .. Len(t.outputs) - 1 :
              OutputsAhead(t, k) = OutputGroups(t.outputs[k + 1], t.wide) \o OutputsAhead(t, k + 1)
         /\ OutputsAhead(t, Len(t.outputs)) = <<>>
         /\ OutputsAhead(t, 0) = FlattenSeq(OutputList(t))
<1> DEFINE list == OutputList(t)
           n == Len(t.outputs)
           B == Seq(Seq(Nat))
<1>1. n \in Nat /\ DOMAIN t.outputs = 1 .. n
  BY ListsAre
<1>2. \A i \in 1 .. n : OutputGroups(t.outputs[i], t.wide) \in Seq(B)
  BY OutputGroupsAre, Zenon DEF GroupLists
<1>3. list = [i \in 1 .. n |-> OutputGroups(t.outputs[i], t.wide)]
  BY <1>1 DEF OutputList
<1> HIDE DEF n, B
<1>4. list \in Seq(Seq(B)) /\ Len(list) = n /\ \A i \in 1 .. n : list[i] = OutputGroups(t.outputs[i], t.wide)
  BY <1>1, <1>2, <1>3
<1>5. GroupLists = Seq(B)
  BY DEF GroupLists, B
<1> HIDE DEF list
<1>6. /\ \A k \in 0 .. n : FlattenSeq(Rest(k, list)) \in Seq(B)
      /\ \A k \in 0 .. n - 1 : FlattenSeq(Rest(k, list)) = list[k + 1] \o FlattenSeq(Rest(k + 1, list))
      /\ FlattenSeq(Rest(0, list)) = FlattenSeq(list) /\ FlattenSeq(Rest(n, list)) = <<>>
  BY <1>4, OneFlattened
<1>7. \A k \in 0 .. n - 1 : list[k + 1] = OutputGroups(t.outputs[k + 1], t.wide)
  BY <1>1, <1>4
<1>8. QED
  BY <1>5, <1>6, <1>7, Zenon DEF OutputsAhead, list, n

\* What follows the inputs.
LEMMA EndingIs ==
  ASSUME NEW t \in Txs, NEW mode
  PROVE  /\ Ending(t, mode) \in GroupLists
         /\ <<Varint(Len(t.outputs), FALSE)>> \in Seq(Seq(Nat))
         /\ BytesOf(<<<<Varint(Len(t.outputs), FALSE)>>>>) = Varint(Len(t.outputs), FALSE)
         /\ <<<<Varint(Len(t.outputs), FALSE)>>>> \in GroupLists
         /\ OutputsAhead(t, 0) \o TailGroups(t) \in GroupLists
<1> DEFINE v == Varint(Len(t.outputs), FALSE)
           g == <<<<v>>>>
           o == OutputsAhead(t, 0)
           e == TailGroups(t)
<1>1. v \in Seq(Nat)
  <2>1. Len(t.outputs) \in 0 .. 252
    BY TxIs
  <2>2. Varint(Len(t.outputs), FALSE) \in Seq(Nat)
    BY <2>1, CountTold, Zenon
  <2>3. QED
    BY <2>2
<1>2. o \in GroupLists /\ e \in GroupLists
  <2>1. 0 \in 0 .. Len(t.outputs)
    BY TxIs
  <2>2. QED
    BY <2>1, OutputsAheadAre, TailGroupsAre
<1>3. Ending(t, mode) = IF mode = "SIGNATURE" THEN <<>> ELSE g \o (o \o e)
  BY DEF Ending
<1> HIDE DEF v
<1>4. <<v>> \in Seq(Seq(Nat)) /\ g \in GroupLists /\ BytesOf(g) = v
  <2>1. <<v>> \in Seq(Seq(Nat)) /\ FlattenSeq(<<v>>) = v
    BY <1>1, ElementsTogether
  <2>2. QED
    BY <2>1, BytesOfFew
<1> HIDE DEF g, o, e
<1>5. o \o e \in GroupLists /\ g \o (o \o e) \in GroupLists
  BY <1>2, <1>4, GroupsTogether
<1>6. Ending(t, mode) \in GroupLists
  BY <1>3, <1>5, BytesOfFew
<1>7. QED
  BY <1>4, <1>5, <1>6 DEF v, g, o, e

\* A transaction is its version, its inputs and what follows them.
LEMMA GroupsAre ==
  ASSUME NEW t \in Txs, NEW mode \in Modes
  PROVE  LET v == Varint(Len(t.inputs), FALSE)
             head == <<t.version, v>>
         IN  /\ Groups(t, mode) = <<head>> \o (InputsAhead(t, mode, 0) \o Ending(t, mode))
             /\ v \in Seq(Nat) /\ head \in Seq(Seq(Nat)) /\ <<head>> \in GroupLists
             /\ InputsAhead(t, mode, 0) \o Ending(t, mode) \in GroupLists
             /\ BytesOf(<<head>>) = t.version \o v
<1> DEFINE v == Varint(Len(t.inputs), FALSE)
           a == t.version
           head == <<a, v>>
           g == <<head>>
           i == InputsAhead(t, mode, 0)
           c == <<<<Varint(Len(t.outputs), FALSE)>>>>
           o == OutputsAhead(t, 0)
           e == TailGroups(t)
<1>1. v \in Seq(Nat) /\ a \in Seq(Nat)
  <2>1. Len(t.inputs) \in 0 .. 252
    BY TxIs
  <2>2. Varint(Len(t.inputs), FALSE) \in Seq(Nat)
    BY <2>1, CountTold, Zenon
  <2>3. QED
    BY <2>2, TxIs
<1>2. i \in GroupLists /\ i = FlattenSeq(InputList(t, mode))
  <2>1. 0 \in 0 .. Len(t.inputs)
    BY TxIs
  <2>2. QED
    BY <2>1, InputsAheadAre
<1>3. o \in GroupLists /\ e \in GroupLists /\ o = FlattenSeq(OutputList(t))
  <2>1. 0 \in 0 .. Len(t.outputs)
    BY TxIs
  <2>2. QED
    BY <2>1, OutputsAheadAre, TailGroupsAre
<1>4. c \in GroupLists
  BY EndingIs
<1>5. Groups(t, mode) = (g \o i) \o IF mode = "SIGNATURE" THEN <<>> ELSE (c \o o) \o e
  BY <1>2, <1>3 DEF Groups, InputList, OutputList
<1>6. Ending(t, mode) = IF mode = "SIGNATURE" THEN <<>> ELSE c \o (o \o e)
  BY DEF Ending
<1> HIDE DEF v, a, i, c, o, e
<1>7. head \in Seq(Seq(Nat)) /\ FlattenSeq(head) = a \o v
  BY <1>1, ElementsTogether
<1> HIDE DEF head
<1>8. g \in GroupLists /\ BytesOf(g) = a \o v
  BY <1>7, BytesOfFew
<1> HIDE DEF g
<1>9. (c \o o) \o e = c \o (o \o e)
  BY <1>3, <1>4, GroupsRegrouped
<1> DEFINE f == Ending(t, mode)
<1>10. f \in GroupLists
  BY EndingIs
<1>11. Groups(t, mode) = (g \o i) \o f
  BY <1>5, <1>6, <1>9
<1> HIDE DEF f
<1>12. (g \o i) \o f = g \o (i \o f) /\ i \o f \in GroupLists
  <2>1. g \in GroupLists /\ i \in GroupLists
    BY <1>2, <1>8
  <2>2. (g \o i) \o f = g \o (i \o f)
    BY <1>10, <2>1, GroupsRegrouped
  <2>3. QED
    BY <1>10, <2>1, <2>2, GroupsTogether
<1>13. QED
  BY <1>1, <1>7, <1>8, <1>11, <1>12 DEF v, a, head, g, i, f

-----------------------------------------------------------------------------
\* What is read at the head of the block.

\* Two sequences that follow each other are taken apart again.
LEMMA TakenApart ==
  ASSUME NEW p \in Seq(Nat), NEW q \in Seq(Nat)
  PROVE  /\ p \o q \in Seq(Nat) /\ Len(p \o q) = Len(p) + Len(q) /\ Len(p) \in Nat /\ Len(q) \in Nat
         /\ First(Len(p), p \o q) = p /\ Rest(Len(p), p \o q) = q
         /\ Rest(0, p) = p
<1>1. Len(p) \in Nat /\ Len(q) \in Nat /\ Len(p) <= Len(p) /\ 0 \in Nat
  BY LenProperties
<1>2. /\ p \o q \in Seq(Nat) /\ Len(p \o q) = Len(p) + Len(q)
      /\ First(Len(p), p \o q) = First(Len(p), p)
      /\ Rest(Len(p), p \o q) = Rest(Len(p), p) \o q
  BY <1>1, FollowedBy
<1>3. First(Len(p), p) = p /\ Rest(Len(p), p) = <<>> /\ Rest(0, p) = p
  BY ListEnds
<1>4. <<>> \o q = q
  BY ConcatEmptySeq
<1>5. QED
  BY <1>1, <1>2, <1>3, <1>4

\* The bytes b begin what starts with x and then the number n.
Opens(b, x, n, wide) ==
  \E r \in Seq(Nat), y \in Seq(Nat) : b \o r = (x \o Varint(n, wide)) \o y

\* A number the host can tell, and it is there: it can be read, or the block is
\* long enough.
Told(n, wide) == n \in Nat /\ wide \in BOOLEAN /\ n < IF wide THEN 256 ELSE 253
There(b, x, n, wide) ==
  VarintReadable(Rest(Len(x), b)) \/ Len(x) + Len(Varint(n, wide)) <= Len(b)

\* Any number below 253 can be told with one byte.
LEMMA CountIsTold ==
  \A n \in 0 .. 252 : Told(n, FALSE)
<1>1. TAKE n \in 0 .. 252
<1>2. n \in Nat /\ n < 253
  OBVIOUS
<1>3. QED
  BY <1>2 DEF Told

\* A number that can be read is the number sent, and it is whole.
LEMMA NumberSent ==
  ASSUME NEW b \in Seq(Nat), NEW x \in Seq(Nat), NEW n, NEW wide,
         Told(n, wide), Opens(b, x, n, wide), There(b, x, n, wide)
  PROVE  LET v == Varint(n, wide)
             c == Rest(Len(x), b)
         IN  /\ Len(x) + Len(v) <= Len(b) /\ v \in Seq(Nat)
             /\ First(Len(x), b) = x
             /\ c \in Seq(Nat) /\ VarintReadable(c) /\ VarintBytes(c) = Len(v) /\ VarintValue(c) = n
             /\ First(Len(v), c) = v
             /\ Rest(Len(v), c) = Rest(Len(x) + Len(v), b)
<1> DEFINE v == Varint(n, wide)
           c == Rest(Len(x), b)
           xv == x \o v
<1>0. v \in Seq(Nat)
  BY VarintTold DEF Told
<1>1. /\ Len(v) = IF wide THEN 3 ELSE 1
      /\ VarintReadable(v) /\ VarintBytes(v) = Len(v) /\ VarintValue(v) = n
  BY VarintTold DEF Told
<1>2. PICK r \in Seq(Nat), y \in Seq(Nat) : b \o r = xv \o y
  BY DEF Opens
<1> HIDE DEF v
<1>3. /\ xv \in Seq(Nat) /\ Len(xv) = Len(x) + Len(v) /\ Len(x) \in Nat /\ Len(v) \in Nat /\ Len(b) \in Nat
  BY <1>0, ConcatProperties, LenProperties
<1>31. xv \in Seq(Nat)
  BY <1>3
<1>4. Len(x) + Len(v) <= Len(b)
  <2>1. CASE VarintReadable(c)
    <3> DEFINE vy == v \o y
    <3>01. Listed(x) /\ Listed(v) /\ Listed(y)
      BY <1>0 DEF Listed
    <3>02. (x \o v) \o y = x \o (v \o y)
      <4>1. Regroups(x, v, y)
        BY ONLY <3>01, ThreeListed, Zenon
      <4>2. QED
        BY ONLY <4>1 DEF Regroups
    <3>1. vy \in Seq(Nat) /\ xv \o y = x \o vy
      BY <1>0, <3>02, ConcatProperties
    <3>2. Len(x) + VarintBytes(c) <= Len(b)
      BY <1>3, <2>1, NumberStays, EmptySeq
    <3>3. VarintBytes(c) \in {1, 3, 5}
      BY DEF VarintBytes
    <3> HIDE DEF xv, vy
    <3>4. TwoCuts(x, vy, b, r)
      <4>1. Len(x) <= Len(b)
        BY <1>3, <3>2, <3>3
      <4>2. b \o r = x \o vy
        BY <1>2, <3>1, Zenon
      <4>3. QED
        BY <4>1, <4>2, Zenon DEF TwoCuts
    <3>5. c \in Seq(Nat) /\ vy = c \o r
      BY <3>1, <3>4, Begins
    <3> HIDE DEF c
    <3>6. VarintBytes(c) <= Len(c) /\ Len(c) \in Nat \ {0}
      BY <2>1, <3>5, NumberIs
    <3>7. vy[1] = c[1]
      <4>1. 1 \in 1 .. Len(c)
        BY <3>6
      <4>2. \A i \in 1 .. Len(c) : (c \o r)[i] = c[i]
        BY <3>5, ConcatProperties
      <4>3. QED
        BY <3>5, <4>1, <4>2
    <3>8. vy[1] = v[1]
      <4>1. 1 \in 1 .. Len(v)
        BY <1>1
      <4>2. \A i \in 1 .. Len(v) : (v \o y)[i] = v[i]
        BY <1>0, ConcatProperties
      <4>3. QED
        BY <4>1, <4>2 DEF vy
    <3>9. VarintBytes(c) = VarintBytes(v)
      BY <3>7, <3>8 DEF VarintBytes
    <3>10. QED
      BY <1>1, <3>2, <3>9
  <2>2. QED
    BY <2>1 DEF There, v
<1> HIDE DEF c
<1> DEFINE z == Rest(Len(xv), b)
<1>5. z \in Seq(Nat) /\ b = xv \o z
  <2>1. TwoCuts(xv, y, b, r)
    BY <1>2, <1>3, <1>4 DEF TwoCuts
  <2> HIDE DEF xv
  <2>2. QED
    BY <1>31, <2>1, Begins
<1> HIDE DEF z
<1>6. b = x \o (v \o z) /\ v \o z \in Seq(Nat)
  <2>1. x \in Seq(Nat) /\ v \in Seq(Nat) /\ z \in Seq(Nat)
    BY <1>0, <1>5
  <2>11. Listed(x) /\ Listed(v) /\ Listed(z)
    BY <2>1 DEF Listed
  <2>2. (x \o v) \o z = x \o (v \o z)
    <3>1. Regroups(x, v, z)
      BY ONLY <2>11, ThreeListed, Zenon
    <3>2. QED
      BY ONLY <3>1 DEF Regroups
  <2>3. v \o z \in Seq(Nat)
    BY <2>1, ConcatProperties
  <2>4. QED
    BY <1>5, <2>2, <2>3, Zenon
<1>61. z \in Seq(Nat)
  BY <1>5
<1> HIDE DEF xv
<1> DEFINE w == v \o z
<1>7. First(Len(x), b) = x /\ c = w
  <2> HIDE DEF w
  <2>1. w \in Seq(Nat) /\ b = x \o w
    BY <1>6 DEF w
  <2>2. QED
    BY <2>1, TakenApart DEF c
<1>8. First(Len(v), w) = v /\ Rest(Len(v), w) = z
  BY <1>0, <1>61, TakenApart
<1>9. VarintReadable(w) /\ VarintBytes(w) = Len(v) /\ VarintValue(w) = n
  <2>1. Len(v) <= Len(w) /\ \A i \in 1 .. Len(v) : w[i] = v[i]
    <3>1. Len(w) = Len(v) + Len(z) /\ Len(z) \in Nat /\ \A i \in 1 .. Len(v) : w[i] = v[i]
      BY <1>0, <1>61, ConcatProperties, LenProperties
    <3>2. QED
      BY <1>3, <3>1
  <2>2. w \in Seq(Nat)
    BY <1>6
  <2> HIDE DEF w
  <2>3. QED
    BY <1>0, <1>1, <2>1, <2>2, SameNumber
<1>10. z = Rest(Len(x) + Len(v), b)
  BY <1>3 DEF z
<1>11. QED
  BY <1>0, <1>4, <1>6, <1>7, <1>8, <1>9, <1>10 DEF v, c

\* The group g is x and then the number n.
HeadIs(g, x, n, wide) == BytesOf(<<g>>) = x \o Varint(n, wide)

\* A block that begins with such a group.
LEMMA HeadOpens ==
  ASSUME NEW h, h.tx \in Txs, h.mode \in Modes, NEW b \in Seq(Nat),
         NEW g \in Seq(Seq(Nat)), NEW a \in GroupLists, Follows(h, b, <<g>> \o a),
         NEW x \in Seq(Nat), NEW n, NEW wide, Told(n, wide), HeadIs(g, x, n, wide)
  PROVE  /\ Opens(b, x, n, wide)
         /\ \A i \in 1 .. Len(x) : i <= Len(b) => b[i] = x[i]
<1> DEFINE one == <<g>>
           v == Varint(n, wide)
           y == BytesOf(a)
           p == BytesOf(one)
           ahead == one \o a
<1>1. one \in GroupLists
  BY BytesOfFew
<1>2. p = x \o v
  BY DEF HeadIs
<1>3. v \in Seq(Nat)
  BY VarintTold DEF Told
<1> HIDE DEF one, v
<1>4. ahead \in GroupLists /\ y \in Seq(Nat) /\ p \in Seq(Nat) /\ BytesOf(ahead) = p \o y
  BY <1>1, BytesOfBoth
<1>5. Follows(h, b, ahead)
  BY DEF one
<1> HIDE DEF ahead, y, p
<1>6. PICK r \in Seq(Nat) : b \o r = BytesOf(ahead)
  BY <1>4, <1>5, BlockIsAhead
<1>7. b \o r = (x \o v) \o y
  BY <1>2, <1>4, <1>6, Zenon
<1>8. Opens(b, x, n, wide)
  BY <1>4, <1>7, Zenon DEF Opens, v
<1>9. ASSUME NEW i \in 1 .. Len(x), i <= Len(b)
      PROVE  b[i] = x[i]
  <2> DEFINE q == p \o y
             d == b \o r
  <2>1. Len(x) \in Nat /\ Len(b) \in Nat /\ Len(v) \in Nat
    BY <1>3, LenProperties
  <2>2. Len(p) = Len(x) + Len(v) /\ \A j \in 1 .. Len(x) : p[j] = x[j]
    BY <1>2, <1>3, ConcatProperties
  <2>3. \A j \in 1 .. Len(p) : q[j] = p[j]
    BY <1>4, ConcatProperties
  <2>4. \A j \in 1 .. Len(b) : d[j] = b[j]
    BY ConcatProperties
  <2>5. d = q
    BY <1>4, <1>6, Zenon
  <2> HIDE DEF d, q
  <2>6. i \in 1 .. Len(p) /\ i \in 1 .. Len(b)
    BY <1>9, <2>1, <2>2
  <2>7. QED
    BY <2>2, <2>3, <2>4, <2>5, <2>6
<1>10. QED
  BY <1>8, <1>9

\* A group can be read, or the host ends its blocks with a group.
Readable(h, b, x, g, a) ==
  \/ VarintReadable(Rest(Len(x), b))
  \/ h.sent \in GroupCuts[h.tx][h.mode] /\ (b # <<>> \/ <<g>> \o a = Groups(h.tx, h.mode))

\* It is read whole, and the block goes on with the groups after it.
LEMMA HeadRead ==
  ASSUME NEW h, h.tx \in Txs, h.mode \in Modes, NEW b \in Seq(Nat),
         NEW g \in Seq(Seq(Nat)), NEW a \in GroupLists, Follows(h, b, <<g>> \o a),
         NEW x \in Seq(Nat), NEW n, NEW wide, Told(n, wide), HeadIs(g, x, n, wide),
         Readable(h, b, x, g, a)
  PROVE  LET v == Varint(n, wide)
             c == Rest(Len(x), b)
         IN  /\ Len(x) + Len(v) <= Len(b) /\ v \in Seq(Nat)
             /\ First(Len(x), b) = x
             /\ c \in Seq(Nat) /\ VarintReadable(c) /\ VarintBytes(c) = Len(v) /\ VarintValue(c) = n
             /\ First(Len(v), c) = v
             /\ Rest(Len(v), c) = Rest(Len(x) + Len(v), b)
             /\ Rest(Len(x) + Len(v), b) \in Seq(Nat)
             /\ Follows(h, Rest(Len(x) + Len(v), b), a)
<1> DEFINE one == <<g>>
           v == Varint(n, wide)
           c == Rest(Len(x), b)
           m == Len(x) + Len(v)
<1>1. Opens(b, x, n, wide)
  BY HeadOpens
<1>2. v \in Seq(Nat)
  BY VarintTold DEF Told
<1>3. one \in GroupLists
  BY BytesOfFew
<1> HIDE DEF v
<1>4. Len(BytesOf(one)) = m
  BY <1>2, ConcatProperties DEF HeadIs, v
<1>5. There(b, x, n, wide)
  <2>1. CASE VarintReadable(c)
    BY <2>1 DEF There
  <2>2. CASE h.sent \in GroupCuts[h.tx][h.mode] /\ (b # <<>> \/ <<g>> \o a = Groups(h.tx, h.mode))
    <3>1. Len(BytesOf(<<g>>)) <= Len(b)
      BY <2>2, WholeGroups
    <3>2. QED
      BY <1>4, <3>1 DEF There, v
  <2>3. QED
    BY <2>1, <2>2 DEF Readable
<1>6. /\ m <= Len(b)
      /\ First(Len(x), b) = x
      /\ c \in Seq(Nat) /\ VarintReadable(c) /\ VarintBytes(c) = Len(v) /\ VarintValue(c) = n
      /\ First(Len(v), c) = v
      /\ Rest(Len(v), c) = Rest(m, b)
  BY <1>1, <1>5, NumberSent DEF v
<1>7. Follows(h, b, one \o a)
  OBVIOUS
<1> HIDE DEF one, c, m
<1>8. Rest(m, b) \in Seq(Nat) /\ Follows(h, Rest(m, b), a)
  <2>1. Len(BytesOf(one)) <= Len(b)
    BY <1>4, <1>6
  <2>2. /\ Rest(Len(BytesOf(one)), b) \in Seq(Nat)
        /\ Follows(h, Rest(Len(BytesOf(one)), b), a)
    BY <1>3, <1>7, <2>1, GroupsTaken
  <2>3. QED
    BY <1>4, <2>2
<1>9. QED
  BY <1>2, <1>6, <1>8 DEF v, c, m

-----------------------------------------------------------------------------
\* What the hashes have after k inputs.

PrefixPart(in) == Outpoint(in) \o HashedTree(in) \o in.sequence
WitnessPart(in, wide) == Varint(Len(in.script), wide) \o in.script
PrefixList(t) == [i \in DOMAIN t.inputs |-> PrefixPart(t.inputs[i])]
WitnessList(t) == [i \in DOMAIN t.inputs |-> WitnessPart(t.inputs[i], t.wide)]
HashHead(t, mask) == SetBits(t.version, mask) \o Varint(Len(t.inputs), FALSE)
PrefixUpto(t, k) == HashHead(t, PrefixOnly) \o FlattenSeq(First(k, PrefixList(t)))
WitnessUpto(t, k) == HashHead(t, WitnessOnly) \o FlattenSeq(First(k, WitnessList(t)))

\* The length of the script of an input.
LEMMA ScriptTold ==
  ASSUME NEW t \in Txs, NEW i \in 1 .. Len(t.inputs)
  PROVE  /\ Told(Len(t.inputs[i].script), t.wide)
         /\ Varint(Len(t.inputs[i].script), t.wide) \in Seq(Nat)
<1> DEFINE n == Len(t.inputs[i].script)
           wide == t.wide
<1>1. n \in Nat /\ wide \in BOOLEAN /\ n < IF wide THEN 256 ELSE 253
  BY TxIs, InputIs, LenProperties
<1> HIDE DEF n, wide
<1>2. Told(n, wide) /\ Varint(n, wide) \in Seq(Nat)
  BY <1>1, VarintTold DEF Told
<1>3. QED
  BY <1>2 DEF n, wide

\* What an input adds to each hash.
LEMMA PartsAre ==
  ASSUME NEW t \in Txs, NEW i \in 1 .. Len(t.inputs)
  PROVE  LET in == t.inputs[i]
         IN  /\ HashedTree(in) \in Seq(Nat)
             /\ Outpoint(in) \o HashedTree(in) \in Seq(Nat)
             /\ PrefixPart(in) \in Seq(Nat)
             /\ WitnessPart(in, t.wide) \in Seq(Nat)
<1> DEFINE in == t.inputs[i]
           a == Outpoint(in)
           b == HashedTree(in)
           c == in.sequence
           s == in.script
           v == Varint(Len(s), t.wide)
<1>1. a \in Seq(Nat) /\ c \in Seq(Nat) /\ s \in Seq(Nat) /\ in.tree \in Seq(Nat)
  BY InputIs
<1>2. b \in Seq(Nat)
  BY <1>1, EmptySeq DEF HashedTree
<1>3. v \in Seq(Nat)
  BY ScriptTold
<1>4. PrefixPart(in) = (a \o b) \o c /\ WitnessPart(in, t.wide) = v \o s
  BY DEF PrefixPart, WitnessPart
<1> HIDE DEF a, b, c, s, v
<1>5. a \o b \in Seq(Nat) /\ v \o s \in Seq(Nat)
  BY <1>1, <1>2, <1>3, ConcatProperties
<1> DEFINE d == a \o b
<1>6. d \o c \in Seq(Nat)
  <2>1. d \in Seq(Nat) /\ c \in Seq(Nat)
    BY <1>1, <1>5
  <2> HIDE DEF d
  <2>2. QED
    BY <2>1, ConcatProperties
<1>7. QED
  BY <1>2, <1>4, <1>5, <1>6 DEF a, b

\* The heads of the hashes.
LEMMA HashHeadIs ==
  ASSUME NEW t \in Txs, NEW mask
  PROVE  /\ SetBits(t.version, mask) \in Seq(Nat) /\ Varint(Len(t.inputs), FALSE) \in Seq(Nat)
         /\ HashHead(t, mask) \in Seq(Nat)
<1> DEFINE s == SetBits(t.version, mask)
           v == Varint(Len(t.inputs), FALSE)
           a == t.version
<1>1. a \in Seq(Nat) /\ Len(a) = Width.version /\ Width.version \in Nat \ {0}
  BY TxIs, WidthAssumption DEF WidthAssumption
<1>2. s \in Seq(Nat)
  <2> HIDE DEF a
  <2>1. a # <<>>
    BY <1>1, EmptySeq
  <2>2. SetBits(a, mask) \in Seq(Nat)
    BY <1>1, <2>1, SetBitsIs
  <2>3. QED
    BY <2>2 DEF a
<1>3. v \in Seq(Nat)
  <2>1. Len(t.inputs) \in 0 .. 252
    BY TxIs
  <2>2. QED
    BY <2>1, CountTold, Zenon
<1>4. HashHead(t, mask) = s \o v
  BY DEF HashHead
<1> HIDE DEF s, v
<1>5. s \o v \in Seq(Nat)
  BY <1>2, <1>3, ConcatProperties
<1>6. QED
  BY <1>2, <1>3, <1>4, <1>5 DEF s, v

\* Input by input, up to the reference.
LEMMA HashesUpto ==
  ASSUME NEW t \in Txs
  PROVE  /\ PrefixUpto(t, 0) = HashHead(t, PrefixOnly) /\ WitnessUpto(t, 0) = HashHead(t, WitnessOnly)
         /\ \A k \in 0 .. Len(t.inputs) : PrefixUpto(t, k) \in Seq(Nat) /\ WitnessUpto(t, k) \in Seq(Nat)
         /\ \A k \in 0 .. Len(t.inputs) - 1 :
              /\ PrefixUpto(t, k + 1) = PrefixUpto(t, k) \o PrefixPart(t.inputs[k + 1])
              /\ WitnessUpto(t, k + 1) = WitnessUpto(t, k) \o WitnessPart(t.inputs[k + 1], t.wide)
         /\ PrefixUpto(t, Len(t.inputs)) = PrefixInputs(t, HashedTree)
         /\ WitnessUpto(t, Len(t.inputs)) = WitnessInputs(t)
<1> DEFINE n == Len(t.inputs)
           Upto(head, list, k) == head \o FlattenSeq(First(k, list))
<1>1. n \in Nat /\ DOMAIN t.inputs = 1 .. n
  BY ListsAre
<1>2. ASSUME NEW head \in Seq(Nat), NEW list \in Seq(Seq(Nat)), Len(list) = n
      PROVE  /\ Upto(head, list, 0) = head
             /\ \A k \in 0 .. n : Upto(head, list, k) \in Seq(Nat)
             /\ \A k \in 0 .. n - 1 : Upto(head, list, k + 1) = Upto(head, list, k) \o list[k + 1]
             /\ Upto(head, list, n) = head \o FlattenSeq(list)
  <2>1. /\ \A k \in 0 .. n : FlattenSeq(First(k, list)) \in Seq(Nat)
        /\ \A k \in 0 .. n - 1 : /\ list[k + 1] \in Seq(Nat)
                                 /\ FlattenSeq(First(k + 1, list)) = FlattenSeq(First(k, list)) \o list[k + 1]
        /\ FlattenSeq(First(0, list)) = <<>> /\ FlattenSeq(First(n, list)) = FlattenSeq(list)
    <3> DEFINE m == Len(list)
    <3>1. /\ \A k \in 0 .. m : FlattenSeq(First(k, list)) \in Seq(Nat)
          /\ \A k \in 0 .. m - 1 : /\ list[k + 1] \in Seq(Nat)
                                   /\ FlattenSeq(First(k + 1, list)) = FlattenSeq(First(k, list)) \o list[k + 1]
          /\ FlattenSeq(First(0, list)) = <<>> /\ FlattenSeq(First(m, list)) = FlattenSeq(list)
      <4>1. list \in Seq(Seq(Nat))
        OBVIOUS
      <4>2. QED
        BY ONLY <4>1, OneFlattened DEF m
    <3>2. n = m
      BY <1>2
    <3> HIDE DEF n, m
    <3>3. QED
      BY ONLY <3>1, <3>2
  <2>2. head \o <<>> = head
    BY ConcatEmptySeq
  <2>3. ASSUME NEW k \in 0 .. n
        PROVE  Upto(head, list, k) \in Seq(Nat)
    <3> DEFINE f == FlattenSeq(First(k, list))
    <3>1. f \in Seq(Nat)
      BY <2>1
    <3> HIDE DEF f
    <3>2. head \o f \in Seq(Nat)
      BY <3>1, ConcatProperties
    <3>3. QED
      BY <3>2 DEF f
  <2>4. ASSUME NEW k \in 0 .. n - 1
        PROVE  Upto(head, list, k + 1) = Upto(head, list, k) \o list[k + 1]
    <3> DEFINE f == FlattenSeq(First(k, list))
               e == list[k + 1]
    <3>1. f \in Seq(Nat) /\ e \in Seq(Nat) /\ FlattenSeq(First(k + 1, list)) = f \o e
      <4>1. k \in 0 .. n
        BY <1>1
      <4>2. QED
        BY <2>1, <4>1
    <3> HIDE DEF f, e
    <3>2. (head \o f) \o e = head \o (f \o e)
      BY <3>1, Regrouped
    <3>3. QED
      BY <3>1, <3>2 DEF f, e
  <2>5. QED
    BY <2>1, <2>2, <2>3, <2>4
<1> DEFINE p == PrefixList(t)
           w == WitnessList(t)
           hp == HashHead(t, PrefixOnly)
           hw == HashHead(t, WitnessOnly)
<1>3. hp \in Seq(Nat) /\ hw \in Seq(Nat)
  BY HashHeadIs
<1>4. p \in Seq(Seq(Nat)) /\ Len(p) = n /\ \A i \in 1 .. n : p[i] = PrefixPart(t.inputs[i])
  <2>1. \A i \in 1 .. n : PrefixPart(t.inputs[i]) \in Seq(Nat)
    BY PartsAre, Zenon
  <2>2. p = [i \in 1 .. n |-> PrefixPart(t.inputs[i])]
    BY <1>1 DEF PrefixList
  <2> HIDE DEF n, p
  <2>3. QED
    BY <1>1, <2>1, <2>2
<1>5. w \in Seq(Seq(Nat)) /\ Len(w) = n /\ \A i \in 1 .. n : w[i] = WitnessPart(t.inputs[i], t.wide)
  <2>1. \A i \in 1 .. n : WitnessPart(t.inputs[i], t.wide) \in Seq(Nat)
    BY PartsAre, Zenon
  <2>2. w = [i \in 1 .. n |-> WitnessPart(t.inputs[i], t.wide)]
    BY <1>1 DEF WitnessList
  <2> HIDE DEF n, w
  <2>3. QED
    BY <1>1, <2>1, <2>2
<1>6. \A k \in 0 .. n - 1 : k + 1 \in 1 .. n
  BY <1>1
<1>7. PrefixInputs(t, HashedTree) = hp \o FlattenSeq(p)
  BY DEF PrefixInputs, HashHead, PrefixList, PrefixPart
<1>8. WitnessInputs(t) = hw \o FlattenSeq(w)
  BY DEF WitnessInputs, HashHead, WitnessList, WitnessPart
<1>9. /\ \A k : PrefixUpto(t, k) = Upto(hp, p, k)
      /\ \A k : WitnessUpto(t, k) = Upto(hw, w, k)
  BY DEF PrefixUpto, WitnessUpto
<1> HIDE DEF Upto, p, w, hp, hw, n
<1>10. /\ Upto(hp, p, 0) = hp
       /\ \A k \in 0 .. n : Upto(hp, p, k) \in Seq(Nat)
       /\ \A k \in 0 .. n - 1 : Upto(hp, p, k + 1) = Upto(hp, p, k) \o p[k + 1]
       /\ Upto(hp, p, n) = hp \o FlattenSeq(p)
  BY <1>2, <1>3, <1>4
<1>11. /\ Upto(hw, w, 0) = hw
       /\ \A k \in 0 .. n : Upto(hw, w, k) \in Seq(Nat)
       /\ \A k \in 0 .. n - 1 : Upto(hw, w, k + 1) = Upto(hw, w, k) \o w[k + 1]
       /\ Upto(hw, w, n) = hw \o FlattenSeq(w)
  BY <1>2, <1>3, <1>5
<1>12. \A k \in 0 .. n - 1 : p[k + 1] = PrefixPart(t.inputs[k + 1]) /\ w[k + 1] = WitnessPart(t.inputs[k + 1], t.wide)
  BY <1>4, <1>5, <1>6
<1>13. QED
  BY <1>7, <1>8, <1>9, <1>10, <1>11, <1>12, Zenon DEF n, hp, hw

-----------------------------------------------------------------------------
\* The amounts of the inputs.

\* What an input adds to the sum.
AmountOf(in) == IF in.trusted = 0 THEN 0 ELSE TrustedInputs[in.trusted].amount

\* The recursion of TrustedAmounts, a fold from the right.
Accounted(g, t) ==
  g = [d \in SUBSET DOMAIN t.inputs |->
         IF d = {} THEN 0
         ELSE g[d \ {Min(d)}] + IF t.inputs[Min(d)].trusted = 0 THEN 0
                                ELSE TrustedInputs[t.inputs[Min(d)].trusted].amount]

\* The sum of the amounts after the first k inputs.
AmountsAfter(t, k) == (CHOOSE g : Accounted(g, t))[k + 1 .. Len(t.inputs)]

\* It is a number.
LEMMA AmountOfIs ==
  ASSUME NEW t \in Txs, NEW i \in 1 .. Len(t.inputs)
  PROVE  AmountOf(t.inputs[i]) \in Nat
<1> DEFINE in == t.inputs[i]
<1>1. in.trusted # 0 => TrustedInputs[in.trusted].amount \in Nat
  BY InputIs
<1> HIDE DEF in
<1>2. AmountOf(in) \in Nat
  BY <1>1 DEF AmountOf
<1>3. QED
  BY <1>2 DEF in

\* The recursion is one of a function that exists.
LEMMA AmountsExist ==
  ASSUME NEW t \in Txs
  PROVE  \E g : Accounted(g, t)
<1> DEFINE n == Len(t.inputs)
           s == [i \in 1 .. n |-> AmountOf(t.inputs[i])]
           D == DOMAIN t.inputs
           pick == [d \in SUBSET D |-> Min(d)]
           step == [p \in D \X Nat |-> p[2] + s[p[1]]]
<1>1. n \in Nat /\ D = 1 .. n
  BY ListsAre
<1>2. s \in Seq(Nat) /\ DOMAIN s = D
  <2>1. \A i \in 1 .. n : AmountOf(t.inputs[i]) \in Nat
    BY AmountOfIs
  <2> HIDE DEF n
  <2>2. QED
    BY <1>1, <2>1
<1>3. \A i \in D : s[i] = AmountOf(t.inputs[i])
  BY <1>1
<1> HIDE DEF s, D, n
<1>4. IsFiniteSet(D) /\ Picks(pick, D) /\ \A i \in D : s[i] \in Nat
  BY <1>2, FirstPlace
<1>5. step \in [D \X Nat -> Nat]
  BY <1>4
<1>6. \A i \in D, m \in Nat : step[<<i, m>>] = m + s[i]
  OBVIOUS
<1>7. \A d \in SUBSET D : pick[d] = Min(d)
  OBVIOUS
<1> HIDE DEF pick, step
<1>8. PICK g \in [SUBSET D -> Nat] : Folded(g, 0, step, pick, D)
  <2>1. 0 \in Nat
    OBVIOUS
  <2>2. QED
    BY <1>4, <1>5, <2>1, SubsetRecursion, Zenon
<1>9. ASSUME NEW d \in SUBSET D
      PROVE  g[d] = IF d = {} THEN 0 ELSE g[d \ {Min(d)}] + AmountOf(t.inputs[Min(d)])
  <2>1. g[d] = IF d = {} THEN 0 ELSE step[<<Min(d), g[d \ {Min(d)}]>>]
    BY <1>7, <1>8 DEF Folded
  <2>2. CASE d = {}
    BY <2>1, <2>2
  <2>3. CASE d # {}
    <3>1. Min(d) \in D
      BY <1>4, <1>7, <2>3 DEF Picks
    <3>2. g[d \ {Min(d)}] \in Nat
      BY <1>8
    <3>3. step[<<Min(d), g[d \ {Min(d)}]>>] = g[d \ {Min(d)}] + s[Min(d)]
      <4> DEFINE i == Min(d)
                 m == g[d \ {i}]
      <4>1. i \in D /\ m \in Nat
        BY <3>1, <3>2
      <4> HIDE DEF i, m
      <4>2. step[<<i, m>>] = m + s[i]
        BY <1>6, <4>1
      <4>3. QED
        BY <4>2 DEF i, m
    <3>4. s[Min(d)] = AmountOf(t.inputs[Min(d)])
      BY <1>3, <3>1
    <3>5. QED
      BY <2>1, <2>3, <3>3, <3>4
  <2>4. QED
    BY <2>2, <2>3
<1>10. g = [d \in SUBSET D |-> g[d]]
  BY <1>8
<1>11. Accounted(g, t)
  BY <1>9, <1>10, Zenon DEF Accounted, AmountOf, D
<1>12. QED
  BY <1>11

\* The sum goes down by the amount of the input that was read.
LEMMA AmountsAre ==
  ASSUME NEW t \in Txs
  PROVE  /\ TrustedAmounts(t) = AmountsAfter(t, 0)
         /\ \A k \in 0 .. Len(t.inputs) - 1 :
              AmountsAfter(t, k) = AmountsAfter(t, k + 1) + AmountOf(t.inputs[k + 1])
         /\ AmountsAfter(t, Len(t.inputs)) = 0
         /\ \A k \in 0 .. Len(t.inputs) : AmountsAfter(t, k) \in Nat
<1> DEFINE n == Len(t.inputs)
           D == DOMAIN t.inputs
           g == CHOOSE g : Accounted(g, t)
           A(k) == AmountsAfter(t, k)
<1>1. n \in Nat /\ D = 1 .. n
  BY ListsAre
<1>2. Accounted(g, t)
  BY AmountsExist
<1>3. TrustedAmounts(t) = g[D]
  BY Zenon DEF TrustedAmounts, FoldRight, MapThenFoldSet, Accounted
<1>4. \A k : A(k) = g[k + 1 .. n]
  BY DEF AmountsAfter
<1> HIDE DEF g
<1>5. ASSUME NEW d \in SUBSET D
      PROVE  g[d] = IF d = {} THEN 0 ELSE g[d \ {Min(d)}] + AmountOf(t.inputs[Min(d)])
  BY <1>2, Zenon DEF Accounted, AmountOf
<1> HIDE DEF D, A, n
<1>6. A(n) = 0
  <2>1. n + 1 .. n = {} /\ {} \in SUBSET D
    BY <1>1
  <2>2. QED
    BY <1>4, <1>5, <2>1
<1>7. ASSUME NEW k \in 0 .. n - 1
      PROVE  A(k) = A(k + 1) + AmountOf(t.inputs[k + 1])
  <2> DEFINE d == k + 1 .. n
  <2>1. d \in SUBSET D /\ d # {} /\ k + 1 \in d /\ \A j \in d : k + 1 <= j
    BY <1>1
  <2>2. Min(d) = k + 1
    <3>1. \A j \in d : (\A i \in d : j <= i) => j = k + 1
      BY <1>1
    <3>2. QED
      BY <2>1, <3>1 DEF Min
  <2>3. d \ {k + 1} = (k + 1) + 1 .. n
    BY <1>1
  <2> HIDE DEF d
  <2>4. g[d] = g[d \ {Min(d)}] + AmountOf(t.inputs[Min(d)])
    BY <1>5, <2>1
  <2>5. A(k) = g[d] /\ A(k + 1) = g[(k + 1) + 1 .. n]
    BY <1>4 DEF d
  <2>6. QED
    BY <2>2, <2>3, <2>4, <2>5
<1>8. \A k \in 0 .. n : A(k) \in Nat
  <2> DEFINE T == {m \in Nat : m <= n => A(n - m) \in Nat}
  <2>1. 0 \in T
    BY <1>1, <1>6
  <2>2. ASSUME NEW m \in Nat, m \in T
        PROVE  m + 1 \in T
    <3>1. CASE m + 1 <= n
      <4> DEFINE k == n - (m + 1)
      <4>1. k \in 0 .. n - 1 /\ k + 1 = n - m /\ m <= n /\ k + 1 \in 1 .. n
        BY <1>1, <3>1
      <4>2. A(n - m) \in Nat
        BY <2>2, <4>1
      <4> HIDE DEF k
      <4>3. A(k + 1) \in Nat
        BY <4>1, <4>2
      <4>4. AmountOf(t.inputs[k + 1]) \in Nat
        BY <4>1, AmountOfIs DEF n
      <4>5. A(k) \in Nat
        BY <1>7, <4>1, <4>3, <4>4
      <4>6. QED
        BY <4>5 DEF k
    <3>2. CASE ~(m + 1 <= n)
      BY <3>2
    <3>3. QED
      BY <3>1, <3>2
  <2>3. Nat \subseteq T
    <3> HIDE DEF T
    <3>1. QED
      BY <2>1, <2>2, NaturalsIn
  <2>4. ASSUME NEW k \in 0 .. n
        PROVE  A(k) \in Nat
    <3>1. n - k \in Nat /\ n - k <= n /\ n - (n - k) = k
      BY <1>1
    <3>2. A(n - (n - k)) \in Nat
      BY <2>3, <3>1
    <3>3. QED
      BY <3>1, <3>2
  <2>5. QED
    BY <2>4
<1>9. TrustedAmounts(t) = A(0)
  BY <1>1, <1>3, <1>4
<1>10. QED
  BY <1>6, <1>7, <1>8, <1>9 DEF A, n

-----------------------------------------------------------------------------
\* The device follows the host.

\* The transaction arrives in order, and in groups if its outputs are read.
Followed == host.orderly /\ (host.mode = "TRUSTED_INPUT" => host.grouped)

\* What the turns know of what the host sends.
Fed ==
  /\ BlockInv
  /\ Followed
  /\ host.tx \in Txs /\ host.mode \in Modes /\ running = host.mode
  /\ host.grouped => host.sent \in GroupCuts[host.tx][host.mode]

\* The hashes, the sum and the flags after k inputs.
InputsHash(h, k, p, w) == h.mode = "SIGNATURE" => p = PrefixUpto(h.tx, k) /\ w = WitnessUpto(h.tx, k)
InputsSum(h, k, amount) ==
  /\ amount \in Nat
  /\ IF h.mode = "SIGNATURE" THEN amount + AmountsAfter(h.tx, k) = TrustedAmounts(h.tx) ELSE amount = 0
RelaxedUpto(h, k, rel) ==
  h.mode = "SIGNATURE" => ((\E i \in 1 .. k : h.tx.inputs[i].trusted = 0) => rel)
ConsumeUpto(h, k, p2sh) ==
  \A i \in 1 .. k :
    /\ h.tx.inputs[i].script # <<>>
    /\ \A j \in 1 .. k : j > i => h.tx.inputs[j].script = <<>>
    => p2sh = (Last(h.tx.inputs[i].script) = OP_CHECKMULTISIG)

\* Before an input.
AtInput ==
  LET k == transactionCurrentInputOutput
      n == Len(host.tx.inputs)
  IN  /\ k \in 0 .. n
      /\ transactionRemainingInputsOutputs = n - k
      /\ transactionHashOption = {"FULL"}
      /\ Follows(host, block, InputsAhead(host.tx, host.mode, k) \o Ending(host.tx, host.mode))
      /\ InputsHash(host, k, prefix, witness)
      /\ InputsSum(host, k, transactionAmount)
      /\ RelaxedUpto(host, k, relaxed)
      /\ ConsumeUpto(host, k, consumeP2SH)

\* The version and the number of inputs, if they can be read or come in a group.
LEMMA BeginHead ==
  ASSUME Fed, Follows(host, block, Groups(host.tx, host.mode)),
         VarintReadable(Rest(Width.version, block)) \/ host.grouped
  PROVE  LET t == host.tx
             count == Rest(Width.version, block)
             v == Varint(Len(t.inputs), FALSE)
         IN  /\ VarintReadable(count)
             /\ VarintValue(count) = Len(t.inputs)
             /\ First(Width.version, block) = t.version
             /\ First(VarintBytes(count), count) = v
             /\ Follows(host, Rest(Width.version + VarintBytes(count), block),
                        InputsAhead(t, host.mode, 0) \o Ending(t, host.mode))
<1> DEFINE t == host.tx
           mode == host.mode
           n == Len(t.inputs)
           wide == FALSE
           v == Varint(n, wide)
           x == t.version
           g == <<x, v>>
           a == InputsAhead(t, mode, 0) \o Ending(t, mode)
<1>1. t \in Txs /\ mode \in Modes /\ block \in Seq(Nat)
  BY BlockIsNaturals DEF Fed
<1>2. x \in Seq(Nat) /\ Len(x) = Width.version /\ n \in 0 .. 252
  BY <1>1, TxIs
<1>3. /\ Groups(t, mode) = <<g>> \o a /\ g \in Seq(Seq(Nat)) /\ a \in GroupLists
      /\ BytesOf(<<g>>) = x \o v
  BY <1>1, GroupsAre
<1>4. Told(n, wide)
  BY <1>2, CountIsTold, Zenon
<1>5. HeadIs(g, x, n, wide)
  BY <1>3 DEF HeadIs
<1>6. Follows(host, block, <<g>> \o a)
  BY <1>3
<1>7. host.grouped => host.sent \in GroupCuts[host.tx][host.mode]
  BY DEF Fed
<1>8. Readable(host, block, x, g, a)
  BY <1>2, <1>3, <1>7, Zenon DEF Readable
<1>81. x \in Seq(Nat)
  BY <1>2
<1>82. g \in Seq(Seq(Nat)) /\ a \in GroupLists
  BY <1>3
<1> HIDE DEF n, x, g, a, wide
<1>9. /\ VarintReadable(Rest(Len(x), block)) /\ VarintBytes(Rest(Len(x), block)) = Len(v)
      /\ VarintValue(Rest(Len(x), block)) = n
      /\ First(Len(x), block) = x
      /\ First(Len(v), Rest(Len(x), block)) = v
      /\ Follows(host, Rest(Len(x) + Len(v), block), a)
  BY <1>1, <1>4, <1>5, <1>6, <1>8, <1>81, <1>82, HeadRead
<1>10. QED
  BY <1>2, <1>9 DEF n, x, a, wide

\* The first turn.
LEMMA BeginFollows ==
  ASSUME Fed, Follows(host, block, Groups(host.tx, host.mode)), BeginTransaction
  PROVE  /\ transactionState' # "NONE" => transactionState' = "DEFINED_WAIT_INPUT" /\ AtInput' /\ host' = host
         /\ host.grouped => transactionState' # "NONE"
<1> DEFINE t == host.tx
           count == Rest(Width.version, block)
           v == Varint(Len(t.inputs), FALSE)
<1>1. CASE VarintReadable(count)
  <2>1. /\ VarintValue(count) = Len(t.inputs)
        /\ First(Width.version, block) = t.version
        /\ First(VarintBytes(count), count) = v
        /\ Follows(host, Rest(Width.version + VarintBytes(count), block),
                   InputsAhead(t, host.mode, 0) \o Ending(t, host.mode))
    BY <1>1, BeginHead
  <2>2. /\ transactionState' = "DEFINED_WAIT_INPUT"
        /\ transactionRemainingInputsOutputs' = VarintValue(count)
        /\ transactionCurrentInputOutput' = 0
        /\ transactionAmount' = 0
        /\ transactionHashOption' = {"FULL"}
        /\ prefix' = SetBits(First(Width.version, block), PrefixOnly) \o First(VarintBytes(count), count)
        /\ witness' = SetBits(First(Width.version, block), WitnessOnly) \o First(VarintBytes(count), count)
        /\ block' = Rest(Width.version + VarintBytes(count), block)
        /\ host' = host
    BY <1>1 DEF BeginTransaction
  <2>3. t \in Txs /\ Len(t.inputs) \in Nat
    BY ListsAre DEF Fed
  <2>4. prefix' = PrefixUpto(t, 0) /\ witness' = WitnessUpto(t, 0)
    BY <2>1, <2>2, <2>3, HashesUpto DEF HashHead
  <2>5. InputsHash(host, 0, prefix', witness')
    BY <2>4 DEF InputsHash
  <2>6. InputsSum(host, 0, transactionAmount')
    <3>1. TrustedAmounts(t) = AmountsAfter(t, 0) /\ AmountsAfter(t, 0) \in Nat
      <4>1. 0 \in 0 .. Len(t.inputs)
        BY <2>3
      <4>2. QED
        BY <2>3, <4>1, AmountsAre
    <3>2. QED
      BY <2>2, <3>1 DEF InputsSum
  <2>7. RelaxedUpto(host, 0, relaxed') /\ ConsumeUpto(host, 0, consumeP2SH')
    BY DEF RelaxedUpto, ConsumeUpto
  <2>8. Len(t.inputs) - 0 = Len(t.inputs) /\ 0 \in 0 .. Len(t.inputs)
    BY <2>3
  <2>9. AtInput'
    BY <2>1, <2>2, <2>5, <2>6, <2>7, <2>8 DEF AtInput
  <2>10. QED
    BY <2>2, <2>9
<1>2. CASE ~VarintReadable(count)
  <2>1. transactionState' = "NONE"
    BY <1>2 DEF BeginTransaction, Fail
  <2>2. ~host.grouped
    BY <1>2, BeginHead
  <2>3. QED
    BY <2>1, <2>2
<1>3. QED
  BY <1>1, <1>2

\* Where the first bytes of a block are x and then y, the bytes after x are y.
TwoFirst(b, x, y) == Len(x) + Len(y) <= Len(b) /\ First(Len(x) + Len(y), b) = x \o y

\* The second part, when both are there.
LEMMA SecondPart ==
  ASSUME NEW b \in Seq(Nat), NEW x \in Seq(Nat), NEW y \in Seq(Nat), TwoFirst(b, x, y)
  PROVE  Slice(Len(x) + 1, Len(x) + Len(y), b) = y /\ First(Len(x), b) = x
<1> DEFINE m == Len(x)
           n == Len(y)
           f == First(m + n, b)
           w == Slice(m + 1, m + n, b)
           u == First(m, b)
<1>1. /\ m \in Nat /\ n \in Nat /\ Len(b) \in Nat /\ m + n <= Len(b) /\ m + n \in Nat /\ m <= Len(b)
      /\ \A i \in 1 .. Len(b) : b[i] \in Nat
  BY LenProperties, ElementOfSeq DEF TwoFirst
<1>2. /\ \A i \in 1 .. m : (x \o y)[i] = x[i]
      /\ \A i \in 1 .. n : (x \o y)[m + i] = y[i]
  BY ConcatProperties
<1>3. f = x \o y
  BY DEF TwoFirst
<1> HIDE DEF f, m, n
<1>4. \A i \in 1 .. m + n : f[i] = b[i]
  BY <1>1, FirstIs DEF f
<1>5. w = SubSeq(b, m + 1, m + n)
  BY <1>1 DEF Slice
<1>6. w \in Seq(Nat) /\ Len(w) = n /\ \A i \in 1 .. n : w[i] = b[m + i]
  <2> DEFINE c == m + 1
             d == m + n
  <2>1. c \in Int /\ d \in Int /\ c <= d + 1 /\ \A i \in c .. d : b[i] \in Nat
    BY <1>1
  <2>2. \A i \in 1 .. n : i \in 1 .. d - c + 1 /\ c + i - 1 = m + i
    BY <1>1
  <2>3. (IF c <= d THEN d - c + 1 ELSE 0) = n
    BY <1>1
  <2> HIDE DEF c, d
  <2>4. /\ SubSeq(b, c, d) \in Seq(Nat)
        /\ Len(SubSeq(b, c, d)) = IF c <= d THEN d - c + 1 ELSE 0
        /\ \A i \in 1 .. d - c + 1 : SubSeq(b, c, d)[i] = b[c + i - 1]
    BY <2>1, SubSeqProperties
  <2>5. QED
    BY <1>5, <2>2, <2>3, <2>4 DEF c, d
<1>7. \A i \in 1 .. n : m + i \in 1 .. m + n
  BY <1>1
<1>8. \A i \in 1 .. m : i \in 1 .. m + n
  BY <1>1
<1>9. u \in Seq(Nat) /\ Len(u) = m /\ \A i \in 1 .. m : u[i] = b[i]
  BY <1>1, FirstIs
<1> HIDE DEF w, u
<1>10. \A i \in 1 .. n : w[i] = y[i]
  BY <1>2, <1>3, <1>4, <1>6, <1>7
<1>11. \A i \in 1 .. m : u[i] = x[i]
  BY <1>2, <1>3, <1>4, <1>8, <1>9
<1>12. w = y
  BY <1>6, <1>10, SeqEqual DEF n
<1>13. u = x
  BY <1>9, <1>11, SeqEqual DEF m
<1>14. QED
  BY <1>12, <1>13 DEF w, u, m, n

\* The three forms of an input, as the host writes them.
LEMMA FormsAre ==
  ASSUME NEW t \in Txs, NEW i \in 1 .. Len(t.inputs)
  PROVE  LET in == t.inputs[i]
             plain == FormOf(in, "TRUSTED_INPUT")
             form == FormOf(in, "SIGNATURE")
             coded == <<1, in.trusted>> \o Filler(Width.trusted - 1)
         IN  /\ plain \in Seq(Nat) /\ Len(plain) = Width.outpoint + Width.tree
             /\ form \in Seq(Nat)
             /\ in.trusted = 0 =>
                  /\ form = <<0>> \o in.outpoint /\ Len(form) = 1 + Width.outpoint
                  /\ Len(form) >= 2 /\ form[1] = 0
             /\ in.trusted # 0 =>
                  /\ form = coded \o in.tree /\ coded \in Seq(Nat) /\ Len(coded) = 1 + Width.trusted
                  /\ Len(form) = 1 + Width.trusted + Width.tree
                  /\ Len(form) >= 2 /\ form[1] = 1 /\ form[2] = in.trusted
<1> DEFINE in == t.inputs[i]
           plain == FormOf(in, "TRUSTED_INPUT")
           form == FormOf(in, "SIGNATURE")
           c == in.trusted
           a == Outpoint(in)
           o == in.outpoint
           b == in.tree
           f == Filler(Width.trusted - 1)
           pair == <<1, c>>
           coded == pair \o f
<1>1. /\ o \in Seq(Nat) /\ Len(o) = Width.outpoint /\ b \in Seq(Nat) /\ Len(b) = Width.tree
      /\ a \in Seq(Nat) /\ Len(a) = Width.outpoint
  BY InputIs
<1>2. c # 0 => c \in Nat
  BY InputIs
<1>3. Width.outpoint \in Nat \ {0} /\ Width.tree \in Nat \ {0} /\ Width.trusted \in Nat \ {0}
  BY WidthAssumption DEF WidthAssumption
<1>4. f \in Seq(Nat) /\ Len(f) = Width.trusted - 1
  <2>1. Width.trusted - 1 \in Nat
    BY <1>3
  <2>2. QED
    BY <2>1, FillerIs
<1>5. plain = a \o b
  BY DEF FormOf
<1>6. c = 0 => form = <<0>> \o o
  BY DEF FormOf
<1>7. c # 0 => form = coded \o b
  BY DEF FormOf
<1>61. a \in Seq(Nat) /\ b \in Seq(Nat)
  BY <1>1
<1>62. o \in Seq(Nat)
  BY <1>1
<1>63. f \in Seq(Nat)
  BY <1>4
<1> HIDE DEF plain, form, a, b, o, f, c, in
<1>8. plain \in Seq(Nat) /\ Len(plain) = Width.outpoint + Width.tree
  <2>1. a \o b \in Seq(Nat) /\ Len(a \o b) = Len(a) + Len(b)
    BY <1>61, ConcatProperties
  <2>2. QED
    BY <1>1, <1>5, <2>1
<1>9. ASSUME c = 0
      PROVE  form \in Seq(Nat) /\ Len(form) = 1 + Width.outpoint /\ form[1] = 0
  <2> DEFINE z == <<0>>
  <2>1. z \in Seq(Nat) /\ Len(z) = 1 /\ z[1] = 0
    OBVIOUS
  <2>2. form = z \o o
    BY <1>6, <1>9
  <2> HIDE DEF z
  <2>3. /\ z \o o \in Seq(Nat) /\ Len(z \o o) = Len(z) + Len(o)
        /\ \A j \in 1 .. Len(z) : (z \o o)[j] = z[j]
    <3>1. z \in Seq(Nat)
      BY <2>1
    <3>2. QED
      BY <1>62, <3>1, ConcatProperties
  <2>4. QED
    BY <1>1, <2>1, <2>2, <2>3
<1>10. ASSUME c # 0
       PROVE  /\ coded \in Seq(Nat) /\ Len(coded) = 1 + Width.trusted
              /\ form \in Seq(Nat) /\ Len(form) = 1 + Width.trusted + Width.tree
              /\ form[1] = 1 /\ form[2] = c
  <2>1. pair \in Seq(Nat) /\ Len(pair) = 2 /\ pair[1] = 1 /\ pair[2] = c
    BY <1>2, <1>10
  <2> HIDE DEF pair
  <2>2. /\ coded \in Seq(Nat) /\ Len(coded) = Len(pair) + Len(f)
        /\ \A j \in 1 .. Len(pair) : coded[j] = pair[j]
    <3>1. pair \in Seq(Nat)
      BY <2>1
    <3>2. QED
      BY <1>63, <3>1, ConcatProperties
  <2> HIDE DEF coded
  <2>3. /\ coded \o b \in Seq(Nat) /\ Len(coded \o b) = Len(coded) + Len(b)
        /\ \A j \in 1 .. Len(coded) : (coded \o b)[j] = coded[j]
    <3>1. coded \in Seq(Nat)
      BY <2>2
    <3>2. QED
      BY <1>61, <3>1, ConcatProperties
  <2>4. Len(coded) = 1 + Width.trusted
    BY <1>3, <1>4, <2>1, <2>2
  <2>5. 1 \in 1 .. Len(coded) /\ 2 \in 1 .. Len(coded) /\ 1 \in 1 .. Len(pair) /\ 2 \in 1 .. Len(pair)
    BY <1>3, <2>1, <2>4
  <2>6. form = coded \o b
    BY <1>7, <1>10
  <2>7. form[1] = 1 /\ form[2] = c
    BY <2>1, <2>2, <2>3, <2>5, <2>6
  <2>8. Len(form) = 1 + Width.trusted + Width.tree
    BY <1>1, <2>3, <2>4, <2>6
  <2>9. QED
    BY <2>2, <2>3, <2>4, <2>6, <2>7, <2>8
<1>11. c = 0 => Len(form) >= 2
  BY <1>3, <1>9
<1>12. c # 0 => Len(form) >= 2
  BY <1>3, <1>10
<1>13. form \in Seq(Nat)
  BY <1>9, <1>10
<1>14. QED
  BY <1>6, <1>7, <1>8, <1>9, <1>10, <1>11, <1>12, <1>13 DEF plain, form, b, o, f, c, in

-----------------------------------------------------------------------------
\* An input up to its script.

\* Three and four lists of groups.
LEMMA ThreeGroups ==
  \A a, b, c \in GroupLists : (a \o b) \o c = a \o (b \o c)
BY GroupsRegrouped

\* Lists of groups that follow each other, grouped in another way.
LEMMA FourGroups ==
  ASSUME NEW a, NEW b, NEW c, NEW d,
         a \in GroupLists, b \in GroupLists, c \in GroupLists, d \in GroupLists
  PROVE  ((a \o b) \o c) \o d = a \o (b \o (c \o d)) /\ b \o (c \o d) \in GroupLists
<1> DEFINE ab == a \o b
           cd == c \o d
           bcd == b \o cd
<1>1. ab \in GroupLists /\ cd \in GroupLists
  BY GroupsTogether
<1> HIDE DEF ab, cd
<1>2. bcd \in GroupLists
  BY <1>1, GroupsTogether
<1> HIDE DEF bcd
<1>21. a \in GroupLists /\ b \in GroupLists /\ cd \in GroupLists
  BY <1>1
<1>3. (a \o b) \o cd = a \o (b \o cd)
  BY ONLY <1>21, ThreeGroups, Zenon
<1>31. ab \in GroupLists /\ c \in GroupLists /\ d \in GroupLists
  BY <1>1
<1>4. (ab \o c) \o d = ab \o (c \o d)
  BY ONLY <1>31, ThreeGroups, Zenon
<1>6. QED
  BY <1>2, <1>3, <1>4, Zenon DEF ab, cd, bcd

\* The groups after the head of input k + 1.
InputAhead(t, mode, k) ==
  ScriptAhead(t.inputs[k + 1].script, t.inputs[k + 1].sequence) \o (InputsAhead(t, mode, k + 1) \o Ending(t, mode))

\* What the device has to read when it is before an input.
LEMMA InputIsAhead ==
  ASSUME Fed, AtInput, transactionRemainingInputsOutputs # 0
  PROVE  LET t == host.tx
             mode == host.mode
             k == transactionCurrentInputOutput
             in == t.inputs[k + 1]
             g == HeadOf(in, mode, t.wide)
         IN  /\ t \in Txs /\ mode \in Modes /\ block \in Seq(Nat)
             /\ k \in 0 .. Len(t.inputs) - 1 /\ k + 1 \in 1 .. Len(t.inputs)
             /\ FormOf(in, mode) \in Seq(Nat) /\ g \in Seq(Seq(Nat))
             /\ InputAhead(t, mode, k) \in GroupLists
             /\ Told(Len(in.script), t.wide)
             /\ HeadIs(g, FormOf(in, mode), Len(in.script), t.wide)
             /\ Follows(host, block, <<g>> \o InputAhead(t, mode, k))
<1> DEFINE t == host.tx
           mode == host.mode
           k == transactionCurrentInputOutput
           n == Len(t.inputs)
           in == t.inputs[k + 1]
           one == <<HeadOf(in, mode, t.wide)>>
           s == ScriptAhead(in.script, in.sequence)
           i == InputsAhead(t, mode, k + 1)
           j == InputsAhead(t, mode, k)
           e == Ending(t, mode)
           whole == InputGroups(in, mode, t.wide)
<1>1. t \in Txs /\ mode \in Modes /\ block \in Seq(Nat)
  BY BlockIsNaturals DEF Fed
<1>2. n \in Nat
  BY <1>1, ListsAre
<1>3. k \in 0 .. n - 1 /\ k + 1 \in 1 .. n /\ k + 1 \in 0 .. n
  BY <1>2 DEF AtInput
<1>4. /\ whole = one \o s /\ one \in GroupLists /\ s \in GroupLists
      /\ HeadOf(in, mode, t.wide) \in Seq(Seq(Nat)) /\ FormOf(in, mode) \in Seq(Nat)
      /\ BytesOf(one) = FormOf(in, mode) \o Varint(Len(in.script), t.wide)
  BY <1>1, <1>3, InputGroupsAre
<1>5. Told(Len(in.script), t.wide)
  BY <1>1, <1>3, ScriptTold
<1>6. i \in GroupLists /\ j = whole \o i
  BY <1>1, <1>3, InputsAheadAre
<1>7. e \in GroupLists
  BY <1>1, EndingIs
<1>8. Follows(host, block, j \o e)
  BY DEF AtInput
<1>9. HeadIs(HeadOf(in, mode, t.wide), FormOf(in, mode), Len(in.script), t.wide)
  BY <1>4 DEF HeadIs
<1>10. InputAhead(t, mode, k) = s \o (i \o e)
  BY DEF InputAhead
<1>41. one \in GroupLists /\ s \in GroupLists
  BY <1>4
<1>42. j = (one \o s) \o i
  BY <1>4, <1>6, Zenon
<1>61. i \in GroupLists
  BY <1>6
<1> DEFINE ie == i \o e
<1> HIDE DEF one, s, i, j, e, whole, in
<1>13. ((one \o s) \o i) \o e = one \o (s \o ie) /\ s \o ie \in GroupLists
  BY <1>41, <1>61, <1>7, FourGroups DEF ie
<1>14. j \o e = one \o (s \o ie)
  BY <1>42, <1>13, Zenon
<1>15. Follows(host, block, one \o (s \o ie))
  BY <1>8, <1>14, Zenon
<1>16. QED
  BY <1>1, <1>3, <1>4, <1>5, <1>9, <1>10, <1>13, <1>15, Zenon DEF one, in

\* The form of the input the device reads is the form of the input sent.
LEMMA FormIs ==
  ASSUME Fed, AtInput, transactionRemainingInputsOutputs # 0
  PROVE  LET sent == host.tx.inputs[transactionCurrentInputOutput + 1]
             size == Len(FormOf(sent, host.mode))
         IN  /\ host.mode = "TRUSTED_INPUT" => InputForm(running) = {PlainInput} /\ PlainInput.taken = size
             /\ host.mode = "SIGNATURE" /\ Len(block) >= 2 /\ sent.trusted = 0 =>
                  InputForm(running) = {UntrustedInput} /\ UntrustedInput.taken = size
             /\ host.mode = "SIGNATURE" /\ Len(block) >= 2 /\ sent.trusted # 0 =>
                  InputForm(running) = {TrustedInput} /\ TrustedInput.taken = size /\ block[2] = sent.trusted
             /\ host.mode = "SIGNATURE" /\ Len(block) < 2 => InputForm(running) = {}
<1> DEFINE t == host.tx
           mode == host.mode
           k == transactionCurrentInputOutput
           in == t.inputs[k + 1]
           g == HeadOf(in, mode, t.wide)
           x == FormOf(in, mode)
           n == Len(in.script)
           wide == t.wide
           a == InputAhead(t, mode, k)
<1>1. /\ t \in Txs /\ mode \in Modes /\ block \in Seq(Nat)
      /\ k + 1 \in 1 .. Len(t.inputs)
      /\ x \in Seq(Nat) /\ g \in Seq(Seq(Nat)) /\ a \in GroupLists
      /\ Told(n, wide) /\ HeadIs(g, x, n, wide) /\ Follows(host, block, <<g>> \o a)
  BY InputIsAhead
<1>2. running = mode
  BY DEF Fed
<1>3. /\ mode = "TRUSTED_INPUT" => Len(x) = Width.outpoint + Width.tree
      /\ mode = "SIGNATURE" /\ in.trusted = 0 =>
           Len(x) = 1 + Width.outpoint /\ Len(x) >= 2 /\ x[1] = 0
      /\ mode = "SIGNATURE" /\ in.trusted # 0 =>
           /\ Len(x) = 1 + Width.trusted + Width.tree
           /\ Len(x) >= 2 /\ x[1] = 1 /\ x[2] = in.trusted
  <2>1. t \in Txs /\ k + 1 \in 1 .. Len(t.inputs)
    BY <1>1
  <2>2. Len(FormOf(t.inputs[k + 1], "TRUSTED_INPUT")) = Width.outpoint + Width.tree
    BY <2>1, FormsAre
  <2>3. t.inputs[k + 1].trusted = 0 =>
          /\ Len(FormOf(t.inputs[k + 1], "SIGNATURE")) = 1 + Width.outpoint
          /\ Len(FormOf(t.inputs[k + 1], "SIGNATURE")) >= 2
          /\ FormOf(t.inputs[k + 1], "SIGNATURE")[1] = 0
    BY <2>1, FormsAre
  <2>4. t.inputs[k + 1].trusted # 0 =>
          /\ Len(FormOf(t.inputs[k + 1], "SIGNATURE")) = 1 + Width.trusted + Width.tree
          /\ Len(FormOf(t.inputs[k + 1], "SIGNATURE")) >= 2
          /\ FormOf(t.inputs[k + 1], "SIGNATURE")[1] = 1
          /\ FormOf(t.inputs[k + 1], "SIGNATURE")[2] = t.inputs[k + 1].trusted
    BY <2>1, FormsAre
  <2>5. QED
    BY <2>2, <2>3, <2>4, Zenon
<1>4. in.trusted # 0 => in.trusted \in DOMAIN TrustedInputs
  BY <1>1, InputIs
<1>5. Len(x) \in Nat /\ Len(block) \in Nat
  BY <1>1, LenProperties
<1>6. \A i \in 1 .. Len(x) : i <= Len(block) => block[i] = x[i]
  <2> HIDE DEF t, mode, g, x, n, wide, a
  <2>1. host.tx \in Txs /\ host.mode \in Modes
    BY <1>1 DEF t, mode
  <2>2. x \in Seq(Nat) /\ g \in Seq(Seq(Nat)) /\ a \in GroupLists
    BY <1>1
  <2>3. Told(n, wide) /\ HeadIs(g, x, n, wide) /\ Follows(host, block, <<g>> \o a) /\ block \in Seq(Nat)
    BY <1>1
  <2>4. QED
    BY <2>1, <2>2, <2>3, HeadOpens
<1> HIDE DEF x, in, mode, k, t
<1>7. ASSUME Len(block) >= 2, Len(x) >= 2
      PROVE  block[1] = x[1] /\ block[2] = x[2]
  <2>1. 1 \in 1 .. Len(x) /\ 2 \in 1 .. Len(x) /\ 1 <= Len(block) /\ 2 <= Len(block)
    BY <1>5, <1>7
  <2>2. QED
    BY <1>6, <2>1
<1>8. ASSUME mode = "TRUSTED_INPUT"
      PROVE  InputForm(running) = {PlainInput} /\ PlainInput.taken = Len(x)
  BY <1>2, <1>3, <1>8 DEF InputForm, PlainInput
<1>9. ASSUME mode = "SIGNATURE", Len(block) >= 2, in.trusted = 0
      PROVE  InputForm(running) = {UntrustedInput} /\ UntrustedInput.taken = Len(x)
  <2>1. block[1] = 0 /\ Available(2)
    BY <1>3, <1>7, <1>9 DEF Available
  <2>2. InputForm(running) = {UntrustedInput}
    BY <1>2, <1>9, <2>1 DEF InputForm
  <2>3. QED
    BY <1>3, <1>9, <2>2 DEF UntrustedInput
<1>10. ASSUME mode = "SIGNATURE", Len(block) >= 2, in.trusted # 0
       PROVE  InputForm(running) = {TrustedInput} /\ TrustedInput.taken = Len(x) /\ block[2] = in.trusted
  <2>1. block[1] = 1 /\ block[2] = in.trusted /\ block[2] \in DOMAIN TrustedInputs /\ Available(2)
    BY <1>3, <1>4, <1>7, <1>10 DEF Available
  <2>2. InputForm(running) = {TrustedInput}
    BY <1>2, <1>10, <2>1 DEF InputForm
  <2>3. QED
    BY <1>3, <1>10, <2>1, <2>2 DEF TrustedInput
<1>11. ASSUME mode = "SIGNATURE", Len(block) < 2
       PROVE  InputForm(running) = {}
  <2>1. ~Available(2)
    BY <1>5, <1>11 DEF Available
  <2>2. QED
    BY <1>2, <1>11, <2>1 DEF InputForm
<1>12. QED
  BY <1>8, <1>9, <1>10, <1>11 DEF x, in, mode, k, t

\* The head of an input, if its length can be read or it comes in a group.
LEMMA InputHeadRead ==
  ASSUME Fed, AtInput, transactionRemainingInputsOutputs # 0,
         \/ VarintReadable(Rest(Len(FormOf(host.tx.inputs[transactionCurrentInputOutput + 1], host.mode)), block))
         \/ host.grouped /\ block # <<>>
  PROVE  LET t == host.tx
             in == t.inputs[transactionCurrentInputOutput + 1]
             x == FormOf(in, host.mode)
             v == Varint(Len(in.script), t.wide)
             c == Rest(Len(x), block)
         IN  /\ Len(x) + Len(v) <= Len(block) /\ v \in Seq(Nat)
             /\ First(Len(x), block) = x
             /\ VarintReadable(c) /\ VarintBytes(c) = Len(v) /\ VarintValue(c) = Len(in.script)
             /\ First(VarintBytes(c), c) = v
             /\ Follows(host, Rest(VarintBytes(c), c), InputAhead(t, host.mode, transactionCurrentInputOutput))
<1> DEFINE t == host.tx
           mode == host.mode
           k == transactionCurrentInputOutput
           in == t.inputs[k + 1]
           g == HeadOf(in, mode, t.wide)
           x == FormOf(in, mode)
           n == Len(in.script)
           wide == t.wide
           a == InputAhead(t, mode, k)
           v == Varint(n, wide)
           c == Rest(Len(x), block)
<1>1. /\ t \in Txs /\ mode \in Modes /\ block \in Seq(Nat)
      /\ x \in Seq(Nat) /\ g \in Seq(Seq(Nat)) /\ a \in GroupLists
      /\ Told(n, wide) /\ HeadIs(g, x, n, wide) /\ Follows(host, block, <<g>> \o a)
  BY InputIsAhead
<1>2. host.grouped => host.sent \in GroupCuts[host.tx][host.mode]
  BY DEF Fed
<1> HIDE DEF x, g, a, n, wide, in
<1>3. VarintReadable(c) \/ (host.grouped /\ block # <<>>)
  BY DEF x, in
<1>4. Readable(host, block, x, g, a)
  BY <1>2, <1>3 DEF Readable
<1>5. host.tx \in Txs /\ host.mode \in Modes
  BY <1>1
<1>6. x \in Seq(Nat) /\ g \in Seq(Seq(Nat)) /\ a \in GroupLists
  BY <1>1
<1>7. Told(n, wide) /\ HeadIs(g, x, n, wide) /\ Follows(host, block, <<g>> \o a) /\ block \in Seq(Nat)
  BY <1>1
<1>8. /\ Len(x) + Len(v) <= Len(block) /\ v \in Seq(Nat)
      /\ First(Len(x), block) = x
      /\ VarintReadable(c) /\ VarintBytes(c) = Len(v) /\ VarintValue(c) = n
      /\ First(Len(v), c) = v
      /\ Rest(Len(v), c) = Rest(Len(x) + Len(v), block)
      /\ Follows(host, Rest(Len(x) + Len(v), block), a)
  BY <1>4, <1>5, <1>6, <1>7, HeadRead
<1>9. QED
  BY <1>8 DEF x, a, n, wide, in

\* What is hashed of an input and what it is worth, in the transaction to sign.
LEMMA FormHashed ==
  ASSUME Fed, AtInput, transactionRemainingInputsOutputs # 0, host.mode = "SIGNATURE",
         NEW form \in InputForm(running), VarintReadable(Rest(form.taken, block))
  PROVE  LET sent == host.tx.inputs[transactionCurrentInputOutput + 1]
         IN  /\ form.hashed = Outpoint(sent) \o HashedTree(sent)
             /\ form.amount = AmountOf(sent)
             /\ sent.trusted = 0 => form.relaxed
<1> DEFINE t == host.tx
           k == transactionCurrentInputOutput
           in == t.inputs[k + 1]
           x == FormOf(in, "SIGNATURE")
           o == in.outpoint
           b == in.tree
           coded == <<1, in.trusted>> \o Filler(Width.trusted - 1)
<1>1. t \in Txs /\ block \in Seq(Nat) /\ k + 1 \in 1 .. Len(t.inputs)
  BY InputIsAhead
<1>2. Len(block) >= 2
  <2>1. Len(block) \in Nat
    BY <1>1, LenProperties
  <2>2. Len(block) < 2 => InputForm(running) = {}
    BY FormIs
  <2>3. QED
    BY <2>1, <2>2
<1>3. /\ in.trusted = 0 => form = UntrustedInput /\ form.taken = Len(x)
      /\ in.trusted # 0 => form = TrustedInput /\ form.taken = Len(x) /\ block[2] = in.trusted
  BY <1>2, FormIs
<1>31. VarintReadable(Rest(Len(FormOf(host.tx.inputs[transactionCurrentInputOutput + 1], host.mode)), block))
  <2>1. form.taken = Len(x)
    BY <1>3
  <2>2. QED
    BY <2>1
<1>4. First(Len(x), block) = x /\ Len(x) <= Len(block)
  <2>1. LET v == Varint(Len(in.script), t.wide)
        IN  Len(x) + Len(v) <= Len(block) /\ v \in Seq(Nat) /\ First(Len(x), block) = x
    BY <1>31, InputHeadRead
  <2> DEFINE v == Varint(Len(in.script), t.wide)
  <2>2. Len(x) + Len(v) <= Len(block) /\ v \in Seq(Nat) /\ First(Len(x), block) = x
    BY <2>1
  <2>3. x \in Seq(Nat)
    BY <1>1, FormsAre
  <2> HIDE DEF v, x
  <2>4. Len(v) \in Nat /\ Len(x) \in Nat /\ Len(block) \in Nat
    BY <1>1, <2>2, <2>3, LenProperties
  <2>5. QED
    BY <2>2, <2>4
<1>5. /\ in.trusted = 0 => x = <<0>> \o o
      /\ in.trusted # 0 => x = coded \o b /\ coded \in Seq(Nat) /\ Len(coded) = 1 + Width.trusted
  <2>1. t.inputs[k + 1].trusted = 0 => x = <<0>> \o t.inputs[k + 1].outpoint
    BY <1>1, FormsAre
  <2>2. in.trusted # 0 => x = coded \o b /\ coded \in Seq(Nat) /\ Len(coded) = 1 + Width.trusted
    BY <1>1, FormsAre
  <2>3. QED
    BY <2>1, <2>2
<1>6. /\ o \in Seq(Nat) /\ Len(o) = Width.outpoint /\ b \in Seq(Nat) /\ Len(b) = Width.tree
  BY <1>1, InputIs
<1>61. o \in Seq(Nat)
  BY <1>6
<1>62. b \in Seq(Nat)
  BY <1>6
<1>63. block \in Seq(Nat)
  BY <1>1
<1>7. CASE in.trusted = 0
  <2> DEFINE z == <<0>>
  <2>1. z \in Seq(Nat) /\ Len(z) = 1
    OBVIOUS
  <2>11. z \in Seq(Nat)
    BY <2>1
  <2>2. form.hashed = Slice(2, 1 + Width.outpoint, block) /\ form.amount = 0 /\ form.relaxed
    BY <1>3, <1>7 DEF UntrustedInput
  <2>3. Outpoint(in) = o /\ HashedTree(in) = <<>> /\ AmountOf(in) = 0
    BY <1>7 DEF Outpoint, HashedTree, AmountOf
  <2>4. x = z \o o
    BY <1>5, <1>7
  <2> HIDE DEF z, o, x, in
  <2>5. TwoFirst(block, z, o)
    <3>1. Len(z \o o) = Len(z) + Len(o)
      BY <1>61, <2>11, ConcatProperties
    <3>2. QED
      BY <1>4, <2>4, <3>1 DEF TwoFirst
  <2>6. Slice(Len(z) + 1, Len(z) + Len(o), block) = o
    BY <1>61, <1>63, <2>11, <2>5, SecondPart
  <2>7. form.hashed = o
    BY <1>6, <2>1, <2>2, <2>6
  <2>8. o \o <<>> = o
    BY <1>61, ConcatEmptySeq
  <2>9. QED
    BY <2>2, <2>3, <2>7, <2>8 DEF in, o
<1>8. CASE in.trusted # 0
  <2>1. /\ form.hashed = TrustedInputs[in.trusted].outpoint
                           \o Slice(1 + Width.trusted + 1, 1 + Width.trusted + Width.tree, block)
        /\ form.amount = TrustedInputs[in.trusted].amount
    <3>1. /\ TrustedInput.hashed = TrustedInputs[block[2]].outpoint
                           \o Slice(1 + Width.trusted + 1, 1 + Width.trusted + Width.tree, block)
          /\ TrustedInput.amount = TrustedInputs[block[2]].amount
      BY Zenon DEF TrustedInput
    <3>2. form = TrustedInput /\ block[2] = in.trusted
      BY <1>3, <1>8
    <3> HIDE DEF in
    <3>3. QED
      BY <3>1, <3>2, Zenon
  <2>2. Outpoint(in) = TrustedInputs[in.trusted].outpoint /\ HashedTree(in) = b
        /\ AmountOf(in) = TrustedInputs[in.trusted].amount
    BY <1>8 DEF Outpoint, HashedTree, AmountOf
  <2>3. x = coded \o b /\ Len(coded) = 1 + Width.trusted
    BY <1>5, <1>8
  <2>31. coded \in Seq(Nat)
    BY <1>5, <1>8
  <2> HIDE DEF coded, b, x, in
  <2>5. TwoFirst(block, coded, b)
    <3>1. Len(coded \o b) = Len(coded) + Len(b)
      BY <1>62, <2>31, ConcatProperties
    <3>2. QED
      BY <1>4, <2>3, <3>1 DEF TwoFirst
  <2>6. Slice(Len(coded) + 1, Len(coded) + Len(b), block) = b
    BY <1>62, <1>63, <2>31, <2>5, SecondPart
  <2>7. QED
    BY <1>6, <1>8, <2>1, <2>2, <2>3, <2>6 DEF in
<1>9. QED
  BY <1>7, <1>8

\* The script of an input has been read up to a place.
ScriptParts(script, read, unread, left) ==
  read \o unread = script /\ (unread = <<>> => read = <<>>) /\ Len(unread) = left

\* Inside an input.
AtScript ==
  LET t == host.tx
      k == transactionCurrentInputOutput
      n == Len(t.inputs)
      in == t.inputs[k + 1]
  IN  /\ k \in 0 .. n - 1
      /\ transactionRemainingInputsOutputs = n - k
      /\ transactionHashOption = {"WITNESS"}
      /\ InputsSum(host, k + 1, transactionAmount)
      /\ RelaxedUpto(host, k + 1, relaxed)
      /\ ConsumeUpto(host, k, consumeP2SH)
      /\ host.mode = "SIGNATURE" => prefix = PrefixUpto(t, k) \o (Outpoint(in) \o HashedTree(in))
      /\ \E read \in Seq(Nat), unread \in Seq(Nat) :
           /\ ScriptParts(in.script, read, unread, scriptRemaining)
           /\ Follows(host, block, ScriptAhead(unread, in.sequence)
                                     \o (InputsAhead(t, host.mode, k + 1) \o Ending(t, host.mode)))
           /\ host.mode = "SIGNATURE" => witness = WitnessUpto(t, k) \o (Varint(Len(in.script), t.wide) \o read)

\* A sum that does not overflow is kept.
LEMMA SumGoesOn ==
  ASSUME Fed, NEW k \in 0 .. Len(host.tx.inputs) - 1, InputsSum(host, k, transactionAmount), NEW amount,
         amount = IF host.mode = "SIGNATURE" THEN AmountOf(host.tx.inputs[k + 1]) ELSE 0
  PROVE  /\ amount \in Nat /\ transactionAmount \in Nat /\ AmountSpan \in Nat \ {0}
         /\ host.mode = "SIGNATURE" => transactionAmount + amount <= TrustedAmounts(host.tx)
         /\ host.mode # "SIGNATURE" => transactionAmount + amount = 0
         /\ ~Overflows(amount) => InputsSum(host, k + 1, (transactionAmount + amount) % AmountSpan)
<1> DEFINE t == host.tx
           n == Len(t.inputs)
<1>1. t \in Txs /\ n \in Nat /\ k + 1 \in 1 .. n /\ k \in 0 .. n /\ k + 1 \in 0 .. n
  <2>1. t \in Txs /\ n \in Nat
    BY ListsAre DEF Fed
  <2> HIDE DEF t, n
  <2>2. k \in 0 .. n - 1
    BY DEF n, t
  <2>3. k + 1 \in 1 .. n /\ k \in 0 .. n /\ k + 1 \in 0 .. n
    BY <2>1, <2>2
  <2>4. QED
    BY <2>1, <2>3
<1>2. AmountsAfter(t, k) = AmountsAfter(t, k + 1) + AmountOf(t.inputs[k + 1])
  BY <1>1, AmountsAre
<1>3. AmountsAfter(t, k) \in Nat /\ AmountsAfter(t, k + 1) \in Nat
  BY <1>1, AmountsAre
<1>4. AmountOf(t.inputs[k + 1]) \in Nat
  BY <1>1, AmountOfIs
<1>5. AmountSpan \in Nat \ {0}
  BY ParseAssumption DEF ParseAssumption
<1>6. /\ transactionAmount \in Nat
      /\ host.mode = "SIGNATURE" => transactionAmount + AmountsAfter(t, k) = TrustedAmounts(t)
      /\ host.mode # "SIGNATURE" => transactionAmount = 0
  BY DEF InputsSum
<1> HIDE DEF t, n
<1>7. amount \in Nat
  BY <1>4 DEF t
<1>8. /\ host.mode = "SIGNATURE" => amount = AmountOf(t.inputs[k + 1])
      /\ host.mode # "SIGNATURE" => amount = 0
  BY DEF t
<1>9. host.mode = "SIGNATURE" => (transactionAmount + amount) + AmountsAfter(t, k + 1) = TrustedAmounts(t)
  BY <1>2, <1>3, <1>4, <1>6, <1>7, <1>8
<1>10. ASSUME ~Overflows(amount)
       PROVE  (transactionAmount + amount) % AmountSpan = transactionAmount + amount
  <2> DEFINE s == transactionAmount + amount
  <2>1. s \in Nat /\ s < AmountSpan
    BY <1>5, <1>6, <1>7, <1>10 DEF Overflows
  <2>2. s = 0 * AmountSpan + s /\ 0 \in Int /\ s \in 0 .. AmountSpan - 1
    BY <1>5, <2>1
  <2> HIDE DEF s
  <2>3. s % AmountSpan = s
    BY <1>5, <2>1
  <2>4. QED
    BY <2>3 DEF s
<1>11. ASSUME ~Overflows(amount)
       PROVE  InputsSum(host, k + 1, (transactionAmount + amount) % AmountSpan)
  <2> DEFINE s == transactionAmount + amount
  <2>1. s \in Nat
    BY <1>6, <1>7
  <2>2. host.mode = "SIGNATURE" => s + AmountsAfter(t, k + 1) = TrustedAmounts(t)
    BY <1>9
  <2>3. host.mode # "SIGNATURE" => s = 0
    BY <1>6, <1>8
  <2>4. (transactionAmount + amount) % AmountSpan = s
    BY <1>10, <1>11
  <2> HIDE DEF s
  <2>5. InputsSum(host, k + 1, s)
    BY <2>1, <2>2, <2>3 DEF InputsSum, t
  <2>6. QED
    BY <2>4, <2>5
<1>12. QED
  BY <1>3, <1>5, <1>6, <1>7, <1>8, <1>9, <1>11 DEF t

\* An input is read up to its script.
LEMMA ReadInputFollows ==
  ASSUME Fed, AtInput, ReadInput
  PROVE  transactionState' = "INPUT_SCRIPT" /\ AtScript' /\ host' = host
<1> DEFINE t == host.tx
           mode == host.mode
           k == transactionCurrentInputOutput
           in == t.inputs[k + 1]
           s == in.script
           v == Varint(Len(s), t.wide)
           o == Outpoint(in) \o HashedTree(in)
<1>1. PICK form \in InputForm(running) :
        LET length == Rest(form.taken, block)
        IN  /\ VarintReadable(length)
            /\ ~Overflows(form.amount)
            /\ transactionState' = "INPUT_SCRIPT"
            /\ transactionAmount' = (transactionAmount + form.amount) % AmountSpan
            /\ relaxed' = (relaxed \/ form.relaxed)
            /\ scriptRemaining' = VarintValue(length)
            /\ prefix' = Hashed(prefix, "FULL", transactionHashOption, form.hashed)
            /\ witness' = Hashed(witness, "WITNESS", transactionHashOption, form.hashed)
                            \o First(VarintBytes(length), length)
            /\ transactionHashOption' = {"WITNESS"}
            /\ block' = Rest(VarintBytes(length), length)
  BY DEF ReadInput
<1>2. /\ transactionRemainingInputsOutputs # 0
      /\ transactionRemainingInputsOutputs' = transactionRemainingInputsOutputs
      /\ transactionCurrentInputOutput' = transactionCurrentInputOutput
      /\ consumeP2SH' = consumeP2SH /\ host' = host
  BY DEF ReadInput
<1> DEFINE length == Rest(form.taken, block)
<1>3. /\ VarintReadable(length)
      /\ ~Overflows(form.amount)
      /\ transactionState' = "INPUT_SCRIPT"
      /\ transactionAmount' = (transactionAmount + form.amount) % AmountSpan
      /\ relaxed' = (relaxed \/ form.relaxed)
      /\ scriptRemaining' = VarintValue(length)
      /\ prefix' = Hashed(prefix, "FULL", transactionHashOption, form.hashed)
      /\ witness' = Hashed(witness, "WITNESS", transactionHashOption, form.hashed)
                      \o First(VarintBytes(length), length)
      /\ transactionHashOption' = {"WITNESS"}
      /\ block' = Rest(VarintBytes(length), length)
  BY <1>1, Zenon
<1>4. /\ t \in Txs /\ mode \in Modes /\ k \in 0 .. Len(t.inputs) - 1 /\ k + 1 \in 1 .. Len(t.inputs)
  BY <1>2, InputIsAhead
<1>5. form.taken = Len(FormOf(in, mode)) /\ (mode = "TRUSTED_INPUT" => form.amount = 0)
  <2>1. mode = "TRUSTED_INPUT" => form = PlainInput /\ PlainInput.taken = Len(FormOf(in, mode))
    BY <1>2, FormIs
  <2>2. PlainInput.amount = 0
    BY DEF PlainInput
  <2>3. mode = "SIGNATURE" /\ Len(block) >= 2 => form.taken = Len(FormOf(in, mode))
    BY <1>2, FormIs
  <2>4. ~(mode = "SIGNATURE" /\ Len(block) < 2)
    BY <1>2, FormIs
  <2>5. Len(block) \in Nat /\ mode \in {"SIGNATURE", "TRUSTED_INPUT"}
    BY <1>2, InputIsAhead, LenProperties DEF Modes
  <2> HIDE DEF in, mode
  <2>6. QED
    BY <2>1, <2>2, <2>3, <2>4, <2>5
<1>6. /\ v \in Seq(Nat) /\ VarintValue(length) = Len(s)
      /\ First(VarintBytes(length), length) = v
      /\ Follows(host, Rest(VarintBytes(length), length), InputAhead(t, mode, k))
  <2>1. VarintReadable(Rest(Len(FormOf(host.tx.inputs[transactionCurrentInputOutput + 1], host.mode)), block))
    BY <1>3, <1>5
  <2>2. length = Rest(Len(FormOf(in, mode)), block)
    BY <1>5
  <2>3. QED
    BY <1>2, <2>1, <2>2, InputHeadRead
<1>7. mode = "SIGNATURE" => /\ form.hashed = o /\ form.amount = AmountOf(in)
                            /\ in.trusted = 0 => form.relaxed
  BY <1>2, <1>3, FormHashed
<1>8. InputsSum(host, k + 1, transactionAmount')
  <2> DEFINE amount == form.amount
  <2>1. amount = IF mode = "SIGNATURE" THEN AmountOf(in) ELSE 0
    BY <1>4, <1>5, <1>7 DEF Modes
  <2>2. ~Overflows(amount) /\ transactionAmount' = (transactionAmount + amount) % AmountSpan
    BY <1>3
  <2> HIDE DEF amount
  <2>3. InputsSum(host, k, transactionAmount)
    BY DEF AtInput
  <2>4. QED
    BY <1>4, <2>1, <2>2, <2>3, SumGoesOn
<1>9. RelaxedUpto(host, k + 1, relaxed')
  <2>1. RelaxedUpto(host, k, relaxed)
    BY DEF AtInput
  <2>2. ASSUME mode = "SIGNATURE", NEW i \in 1 .. k + 1, t.inputs[i].trusted = 0
        PROVE  relaxed'
    <3>1. i \in 1 .. k \/ i = k + 1
      BY <1>4
    <3>2. CASE i \in 1 .. k
      BY <1>3, <2>1, <2>2, <3>2 DEF RelaxedUpto
    <3>3. CASE i = k + 1
      BY <1>3, <1>7, <2>2, <3>3
    <3>4. QED
      BY <3>1, <3>2, <3>3
  <2>3. QED
    BY <2>2 DEF RelaxedUpto
<1>10. ConsumeUpto(host, k, consumeP2SH')
  BY <1>2 DEF AtInput
<1>11. transactionHashOption = {"FULL"} /\ InputsHash(host, k, prefix, witness)
       /\ transactionRemainingInputsOutputs = Len(t.inputs) - k
  BY DEF AtInput
<1>12. mode = "SIGNATURE" =>
         /\ prefix' = PrefixUpto(t, k) \o o
         /\ witness' = WitnessUpto(t, k) \o (v \o <<>>)
  <2>1. v \o <<>> = v
    BY <1>6, ConcatEmptySeq
  <2>2. /\ prefix' = prefix \o form.hashed
        /\ witness' = witness \o First(VarintBytes(length), length)
    BY <1>3, <1>11 DEF Hashed
  <2> HIDE DEF v, o, length
  <2>3. QED
    BY <1>6, <1>7, <1>11, <2>1, <2>2 DEF InputsHash
<1>13. s \in Seq(Nat) /\ <<>> \o s = s
  BY <1>4, InputIs, ConcatEmptySeq
<1>14. ScriptParts(s, <<>>, s, scriptRemaining')
  BY <1>3, <1>6, <1>13 DEF ScriptParts
<1>15. Follows(host, block', ScriptAhead(s, in.sequence) \o (InputsAhead(t, mode, k + 1) \o Ending(t, mode)))
  BY <1>3, <1>6 DEF InputAhead
<1>16. <<>> \in Seq(Nat)
  BY EmptySeq
<1> HIDE DEF s, v, o
<1>17. AtScript'
  <2>1. \E read \in Seq(Nat), unread \in Seq(Nat) :
          /\ ScriptParts(s, read, unread, scriptRemaining')
          /\ Follows(host, block', ScriptAhead(unread, in.sequence)
                                    \o (InputsAhead(t, mode, k + 1) \o Ending(t, mode)))
          /\ mode = "SIGNATURE" => witness' = WitnessUpto(t, k) \o (v \o read)
    BY <1>12, <1>13, <1>14, <1>15, <1>16
  <2>2. QED
    BY <1>2, <1>3, <1>4, <1>8, <1>9, <1>10, <1>11, <1>12, <2>1, Zenon DEF AtScript, s, v, o
<1>18. QED
  BY <1>2, <1>3, <1>17

\* An input that comes in a group is not rejected, unless the sum overflows.
LEMMA InputIsTaken ==
  ASSUME Fed, AtInput, InputRejected, host.grouped
  PROVE  ~CanBeMet(host.tx)
<1> DEFINE t == host.tx
           mode == host.mode
           k == transactionCurrentInputOutput
           in == t.inputs[k + 1]
           x == FormOf(in, mode)
           n == Len(in.script)
           v == Varint(n, t.wide)
           len == Len(v)
<1>1. transactionRemainingInputsOutputs # 0 /\ block # <<>>
  BY DEF InputRejected
<1>2. /\ t \in Txs /\ mode \in Modes /\ block \in Seq(Nat) /\ x \in Seq(Nat)
      /\ k \in 0 .. Len(t.inputs) - 1 /\ k + 1 \in 1 .. Len(t.inputs)
  BY <1>1, InputIsAhead
<1>3. Len(x) + len <= Len(block) /\ v \in Seq(Nat) /\ VarintReadable(Rest(Len(x), block))
  BY <1>1, InputHeadRead
<1>4. mode = "SIGNATURE" => Len(x) >= 2
  <2>1. in.trusted = 0 => Len(FormOf(t.inputs[k + 1], "SIGNATURE")) >= 2
    BY <1>2, FormsAre
  <2>2. in.trusted # 0 => Len(FormOf(t.inputs[k + 1], "SIGNATURE")) >= 2
    BY <1>2, FormsAre
  <2>3. QED
    BY <2>1, <2>2
<1> HIDE DEF v, x
<1>5. Len(x) \in Nat /\ len \in Nat /\ Len(block) \in Nat
  BY <1>2, <1>3, LenProperties
<1>6. mode = "SIGNATURE" => Len(block) >= 2
  BY <1>3, <1>4, <1>5
<1> HIDE DEF len
<1>7. PICK form \in InputForm(running) :
        form.taken = Len(x) /\ (mode = "TRUSTED_INPUT" => form.amount = 0)
  <2>1. mode = "TRUSTED_INPUT" => InputForm(running) = {PlainInput} /\ PlainInput.taken = Len(x)
    BY <1>1, FormIs DEF x
  <2>2. PlainInput.amount = 0
    BY DEF PlainInput
  <2>3. mode = "SIGNATURE" /\ in.trusted = 0 => InputForm(running) = {UntrustedInput} /\ UntrustedInput.taken = Len(x)
    BY <1>1, <1>6, FormIs DEF x
  <2>4. mode = "SIGNATURE" /\ in.trusted # 0 => InputForm(running) = {TrustedInput} /\ TrustedInput.taken = Len(x)
    BY <1>1, <1>6, FormIs DEF x
  <2>5. mode = "TRUSTED_INPUT" \/ mode = "SIGNATURE"
    BY <1>2 DEF Modes
  <2> HIDE DEF in, mode
  <2>6. QED
    BY <2>1, <2>2, <2>3, <2>4, <2>5
<1>8. VarintReadable(Rest(form.taken, block))
  BY <1>3, <1>7
<1>9. Overflows(form.amount)
  BY <1>8 DEF InputRejected
<1>10. mode = "SIGNATURE" => form.amount = AmountOf(in)
  BY <1>1, <1>8, FormHashed
<1> DEFINE amount == form.amount
<1>11. amount = IF mode = "SIGNATURE" THEN AmountOf(in) ELSE 0
  BY <1>2, <1>7, <1>10 DEF Modes
<1>12. Overflows(amount)
  BY <1>9
<1> HIDE DEF amount
<1>13. /\ amount \in Nat /\ transactionAmount \in Nat /\ AmountSpan \in Nat \ {0}
       /\ mode = "SIGNATURE" => transactionAmount + amount <= TrustedAmounts(t)
       /\ mode # "SIGNATURE" => transactionAmount + amount = 0
  <2>1. InputsSum(host, k, transactionAmount)
    BY DEF AtInput
  <2>2. QED
    BY <1>2, <1>11, <2>1, SumGoesOn
<1>14. mode = "SIGNATURE"
  BY <1>12, <1>13 DEF Overflows
<1>15. TrustedAmounts(t) \in Nat
  <2>1. 0 \in 0 .. Len(t.inputs)
    BY <1>2
  <2>2. QED
    BY <1>2, <2>1, AmountsAre
<1>16. ~(TrustedAmounts(t) < AmountSpan)
  BY <1>12, <1>13, <1>14, <1>15 DEF Overflows
<1>17. QED
  BY <1>14, <1>16 DEF CanBeMet

\* Bytes of a script are taken.
LEMMA ScriptTaken ==
  ASSUME NEW h, h.tx \in Txs, h.mode \in Modes, NEW b \in Seq(Nat),
         NEW x \in Seq(Nat), NEW a \in GroupLists, Follows(h, b, ScriptGroups(x) \o a), Len(x) <= Len(b)
  PROVE  First(Len(x), b) = x /\ Rest(Len(x), b) \in Seq(Nat) /\ Follows(h, Rest(Len(x), b), a)
<1> DEFINE g == ScriptGroups(x)
<1>1. g \in GroupLists
  BY ScriptGroupsType
<1>2. BytesOf(g) = x
  BY BytesOfScript
<1>3. Follows(h, b, g \o a)
  OBVIOUS
<1> HIDE DEF g
<1>4. Len(BytesOf(g)) <= Len(b)
  BY <1>2
<1>5. /\ First(Len(BytesOf(g)), b) = BytesOf(g)
      /\ Rest(Len(BytesOf(g)), b) \in Seq(Nat)
      /\ Follows(h, Rest(Len(BytesOf(g)), b), a)
  BY <1>1, <1>3, <1>4, GroupsTaken
<1>6. QED
  BY <1>2, <1>5

\* What a block has of a script, at most to a limit.
LEMMA PortionTaken ==
  ASSUME NEW b \in Seq(Nat), b = block, b # <<>>, NEW u \in Seq(Nat), NEW limit \in Nat, limit <= Len(u)
  PROVE  LET n == Portion(limit)
         IN  /\ n \in 0 .. limit /\ n <= Len(b) /\ (limit # 0 => n # 0)
             /\ First(n, u) \in Seq(Nat) /\ Len(First(n, u)) = n
             /\ Rest(n, u) \in Seq(Nat) /\ Len(Rest(n, u)) = Len(u) - n
             /\ First(n, u) \o Rest(n, u) = u
<1> DEFINE n == Portion(limit)
<1>1. Len(b) \in Nat \ {0} /\ Len(u) \in Nat
  BY EmptySeq, LenProperties
<1>2. n \in 0 .. limit /\ n <= Len(b) /\ (limit # 0 => n # 0)
  BY <1>1 DEF Portion
<1>3. n \in 0 .. Len(u)
  BY <1>1, <1>2
<1> HIDE DEF n
<1>4. /\ First(n, u) \in Seq(Nat) /\ Len(First(n, u)) = n
      /\ Rest(n, u) \in Seq(Nat) /\ Len(Rest(n, u)) = Len(u) - n
      /\ First(n, u) \o Rest(n, u) = u
  BY <1>3, Parts
<1>5. QED
  BY <1>2, <1>4 DEF n

\* The bytes of the script but the last.
LEMMA ScriptBytesFollows ==
  ASSUME Fed, AtScript, ScriptBytes
  PROVE  transactionState' = transactionState /\ AtScript' /\ host' = host
<1> DEFINE t == host.tx
           mode == host.mode
           k == transactionCurrentInputOutput
           in == t.inputs[k + 1]
           e == in.sequence
           v == Varint(Len(in.script), t.wide)
           w == WitnessUpto(t, k)
           a == InputsAhead(t, mode, k + 1) \o Ending(t, mode)
<1>1. PICK read \in Seq(Nat), unread \in Seq(Nat) :
        /\ ScriptParts(in.script, read, unread, scriptRemaining)
        /\ Follows(host, block, ScriptAhead(unread, e) \o a)
        /\ mode = "SIGNATURE" => witness = w \o (v \o read)
  BY DEF AtScript
<1>2. t \in Txs /\ mode \in Modes /\ block \in Seq(Nat)
  BY BlockIsNaturals DEF Fed
<1>3. k \in 0 .. Len(t.inputs) - 1 /\ k + 1 \in 1 .. Len(t.inputs) /\ k + 1 \in 0 .. Len(t.inputs) /\ k \in 0 .. Len(t.inputs)
  <2>1. Len(t.inputs) \in Nat
    BY <1>2, ListsAre
  <2>2. QED
    BY <2>1 DEF AtScript
<1>4. /\ scriptRemaining > 1 /\ block # <<>>
      /\ Consume(Portion(scriptRemaining - 1))
      /\ scriptRemaining' = scriptRemaining - Portion(scriptRemaining - 1)
      /\ transactionState' = transactionState /\ transactionHashOption' = transactionHashOption
      /\ transactionRemainingInputsOutputs' = transactionRemainingInputsOutputs
      /\ transactionCurrentInputOutput' = transactionCurrentInputOutput
      /\ transactionAmount' = transactionAmount /\ relaxed' = relaxed /\ consumeP2SH' = consumeP2SH
      /\ host' = host
  BY DEF ScriptBytes, session
<1>5. read \o unread = in.script /\ Len(unread) = scriptRemaining
  BY <1>1 DEF ScriptParts
<1>6. e \in Seq(Nat) /\ v \in Seq(Nat) /\ w \in Seq(Nat)
  BY <1>2, <1>3, InputIs, ScriptTold, HashesUpto
<1>7. a \in GroupLists
  <2> DEFINE i == InputsAhead(t, mode, k + 1)
             f == Ending(t, mode)
  <2>1. i \in GroupLists /\ f \in GroupLists
    BY <1>2, <1>3, InputsAheadAre, EndingIs
  <2> HIDE DEF i, f
  <2>2. i \o f \in GroupLists
    BY <2>1, GroupsTogether
  <2>3. QED
    BY <2>2 DEF i, f
<1> DEFINE limit == scriptRemaining - 1
           n == Portion(limit)
           x == First(n, unread)
           y == Rest(n, unread)
<1>8. limit \in Nat /\ limit <= Len(unread) /\ scriptRemaining \in Nat
  BY <1>4, <1>5 DEF Fed, BlockInv
<1> HIDE DEF limit, in, e, v, w, a
<1>9. /\ n \in 0 .. limit /\ n <= Len(block)
      /\ x \in Seq(Nat) /\ Len(x) = n
      /\ y \in Seq(Nat) /\ Len(y) = Len(unread) - n
      /\ x \o y = unread
  BY <1>2, <1>4, <1>8, PortionTaken
<1>10. Len(y) = scriptRemaining' /\ y # <<>>
  <2> HIDE DEF n, x, y
  <2>1. limit = scriptRemaining - 1 /\ scriptRemaining' = scriptRemaining - n /\ Consume(n)
    BY <1>4 DEF limit, n
  <2>2. Len(y) = scriptRemaining' /\ Len(y) # 0
    BY <1>5, <1>8, <1>9, <2>1
  <2>3. QED
    BY <2>2, EmptySeq
<1>11. Consume(n)
  BY <1>4 DEF limit
<1>12. x \in Seq(Nat) /\ y \in Seq(Nat)
  BY <1>9
<1> HIDE DEF n, x, y
<1>13. /\ ScriptAhead(unread, e) = ScriptGroups(x) \o ScriptAhead(y, e)
       /\ ScriptGroups(x) \in GroupLists /\ ScriptAhead(y, e) \in GroupLists
  <2>1. ScriptAhead(x \o y, e) = ScriptGroups(x) \o ScriptAhead(y, e)
        /\ ScriptGroups(x) \in GroupLists /\ ScriptAhead(y, e) \in GroupLists
    BY <1>6, <1>10, <1>12, ScriptAheadBoth
  <2>2. QED
    BY <1>9, <2>1
<1> DEFINE c == ScriptAhead(y, e)
           ca == c \o a
<1>14. c \in GroupLists
  BY <1>13
<1> HIDE DEF c
<1>15. ca \in GroupLists /\ (ScriptGroups(x) \o c) \o a = ScriptGroups(x) \o ca
  <2>1. ca \in GroupLists
    BY <1>7, <1>14, GroupsTogether
  <2> DEFINE d == ScriptGroups(x)
  <2>2. d \in GroupLists
    BY <1>13
  <2> HIDE DEF d
  <2>3. (d \o c) \o a = d \o (c \o a)
    BY <1>7, <1>14, <2>2, ThreeGroups, Zenon
  <2>4. QED
    BY <2>1, <2>3 DEF d
<1>16. Follows(host, block, ScriptGroups(x) \o ca)
  BY <1>1, <1>13, <1>15 DEF c
<1> HIDE DEF ca
<1>17. First(Len(x), block) = x /\ Follows(host, Rest(Len(x), block), ca)
  <2>1. Len(x) <= Len(block)
    BY <1>9
  <2>2. host.tx \in Txs /\ host.mode \in Modes /\ block \in Seq(Nat)
    BY <1>2
  <2>3. ca \in GroupLists
    BY <1>15
  <2>4. QED
    BY <1>12, <1>16, <2>1, <2>2, <2>3, ScriptTaken
<1>18. transactionHashOption = {"WITNESS"}
  BY DEF AtScript
<1>19. First(n, block) = x
  BY <1>9, <1>17
<1>191. prefix' = prefix /\ witness' = witness \o x /\ block' = Rest(Len(x), block)
  BY <1>9, <1>11, <1>18, <1>19 DEF Consume, Hashed
<1>20. Follows(host, block', ScriptAhead(y, e) \o a)
  BY <1>17, <1>191 DEF ca, c
<1> DEFINE r == read \o x
<1>21. r \in Seq(Nat) /\ r \o y = read \o (x \o y)
  BY <1>12, Regrouped
<1>22. ScriptParts(in.script, r, y, scriptRemaining')
  <2>1. r \o y = in.script
    BY <1>5, <1>9, <1>21, Zenon
  <2> HIDE DEF r
  <2>2. QED
    BY <1>10, <2>1 DEF ScriptParts
<1>23. mode = "SIGNATURE" => witness' = w \o (v \o r)
  <2>1. (w \o (v \o read)) \o x = w \o (v \o (read \o x))
    <3>1. read \in Seq(Nat)
      OBVIOUS
    <3> HIDE DEF r
    <3>2. w \in Seq(Nat)
      BY <1>6
    <3>3. v \in Seq(Nat)
      BY <1>6
    <3>4. x \in Seq(Nat)
      BY <1>12
    <3> DEFINE vr == v \o read
    <3>41. Listed(w) /\ Listed(v) /\ Listed(read) /\ Listed(x)
      BY <3>1, <3>2, <3>3, <3>4 DEF Listed
    <3>5. vr \o x = v \o (read \o x)
      <4>1. Regroups(v, read, x)
        BY ONLY <3>41, ThreeListed, Zenon
      <4>2. QED
        BY ONLY <4>1 DEF Regroups, vr
    <3>6. vr \in Seq(Nat)
      BY <3>1, <3>3, ConcatProperties
    <3> HIDE DEF vr
    <3>61. Listed(vr)
      BY <3>6 DEF Listed
    <3>7. (w \o vr) \o x = w \o (vr \o x)
      <4>1. Regroups(w, vr, x)
        BY ONLY <3>41, <3>61, ThreeListed, Zenon
      <4>2. QED
        BY ONLY <4>1 DEF Regroups
    <3>8. QED
      BY <3>5, <3>7, Zenon DEF vr
  <2>2. mode = "SIGNATURE" => witness' = (w \o (v \o read)) \o x
    BY <1>1, <1>191
  <2>3. QED
    BY <2>1, <2>2
<1>24. \E rd \in Seq(Nat), ur \in Seq(Nat) :
         /\ ScriptParts(in.script, rd, ur, scriptRemaining')
         /\ Follows(host, block', ScriptAhead(ur, e) \o a)
         /\ mode = "SIGNATURE" => witness' = w \o (v \o rd)
  <2>1. r \in Seq(Nat)
    BY <1>21
  <2> HIDE DEF r
  <2>2. QED
    BY <1>12, <1>20, <1>22, <1>23, <2>1
<1>25. AtScript'
  BY <1>4, <1>191, <1>24, Zenon DEF AtScript, in, e, v, w, a
<1>26. QED
  BY <1>4, <1>25

\* The group at the end of an input, when at most one byte of its script is
\* to come.
LEMMA LastGroup ==
  ASSUME NEW unread \in Seq(Nat), Len(unread) <= 1, NEW e \in Seq(Nat)
  PROVE  LET g == IF unread = <<>> THEN <<e>> ELSE <<unread, e>>
         IN  /\ ScriptAhead(unread, e) = <<g>> /\ g \in Seq(Seq(Nat))
             /\ BytesOf(<<g>>) = unread \o e /\ unread \o e \in Seq(Nat)
             /\ Len(unread \o e) = Len(unread) + Len(e)
<1> DEFINE g == IF unread = <<>> THEN <<e>> ELSE <<unread, e>>
<1>1. Len(unread) \in Nat
  BY LenProperties
<1>2. /\ unread \o e \in Seq(Nat) /\ Len(unread \o e) = Len(unread) + Len(e)
      /\ <<>> \o e = e
  BY ConcatProperties, ConcatEmptySeq
<1>3. CASE unread = <<>>
  <2> DEFINE u == <<e>>
  <2>1. ScriptAhead(unread, e) = <<u>> /\ g = u
    BY <1>3, ScriptAheadIs
  <2>2. u \in Seq(Seq(Nat)) /\ FlattenSeq(u) = e
    BY ElementsTogether
  <2> HIDE DEF u
  <2>3. BytesOf(<<u>>) = e
    BY <2>2, BytesOfFew
  <2>4. QED
    BY <1>2, <1>3, <2>1, <2>2, <2>3
<1>4. CASE unread # <<>>
  <2>1. Len(unread) = 1
    <3>1. Len(unread) # 0
      BY <1>4, EmptySeq
    <3> DEFINE m == Len(unread)
    <3>2. m \in Nat /\ m <= 1 /\ m # 0
      BY <1>1, <3>1
    <3> HIDE DEF m
    <3>3. m = 1
      BY <3>2
    <3>4. QED
      BY <3>3 DEF m
  <2> DEFINE d == unread[1]
             u == <<unread, e>>
  <2>2. d \in Nat
    BY <2>1, ElementOfSeq
  <2>3. unread = <<d>>
    <3> DEFINE z == <<d>>
    <3>1. z \in Seq(Nat) /\ Len(z) = 1 /\ z[1] = d
      BY <2>2
    <3> HIDE DEF z
    <3>2. \A i \in 1 .. 1 : unread[i] = z[i]
      BY <3>1
    <3>3. unread = z
      BY <2>1, <3>1, <3>2, SeqEqual
    <3>4. QED
      BY <3>3 DEF z
  <2>4. ScriptAhead(unread, e) = <<u>> /\ g = u
    <3> HIDE DEF d
    <3>1. ScriptAhead(<<d>>, e) = <<<<<<d>>, e>>>>
      BY <2>2, ScriptAheadIs
    <3>2. QED
      BY <1>4, <2>3, <3>1
  <2>5. u \in Seq(Seq(Nat)) /\ FlattenSeq(u) = unread \o e
    BY ElementsTogether
  <2> HIDE DEF u
  <2>6. BytesOf(<<u>>) = unread \o e
    BY <2>5, BytesOfFew
  <2>7. QED
    BY <1>2, <2>4, <2>5, <2>6
<1>5. QED
  BY <1>3, <1>4

\* The last byte of a script is the last of what was still to come.
LEMMA LastOfScript ==
  ASSUME NEW read \in Seq(Nat), NEW unread \in Seq(Nat), Len(unread) = 1
  PROVE  Last(read \o unread) = unread[1] /\ read \o unread # <<>>
<1> DEFINE s == read \o unread
<1>1. /\ s \in Seq(Nat) /\ Len(s) = Len(read) + Len(unread)
      /\ \A i \in 1 .. Len(unread) : s[Len(read) + i] = unread[i]
  <2> USE DEF s
  <2>1. s \in Seq(Nat)
    BY ConcatProperties
  <2>2. Len(s) = Len(read) + Len(unread)
    BY ConcatProperties
  <2>3. \A i \in 1 .. Len(unread) : s[Len(read) + i] = unread[i]
    BY ConcatProperties
  <2>4. QED
    BY <2>1, <2>2, <2>3
<1>2. Len(read) \in Nat
  BY LenProperties
<1> HIDE DEF s
<1>3. Len(s) = Len(read) + 1 /\ s[Len(read) + 1] = unread[1]
  BY <1>1, <1>2
<1>4. s # <<>>
  BY <1>1, <1>2, <1>3, EmptySeq
<1>5. QED
  BY <1>3, <1>4 DEF Last, s

\* The flag after one more script.
LEMMA ConsumeGoesOn ==
  ASSUME NEW h, NEW k \in Nat, NEW flag, NEW next, ConsumeUpto(h, k, flag),
         h.tx.inputs[k + 1].script = <<>> => next = flag,
         h.tx.inputs[k + 1].script # <<>> => next = (Last(h.tx.inputs[k + 1].script) = OP_CHECKMULTISIG)
  PROVE  ConsumeUpto(h, k + 1, next)
<1> DEFINE s(i) == h.tx.inputs[i].script
           Lasts(i, n) == s(i) # <<>> /\ \A j \in 1 .. n : j > i => s(j) = <<>>
           End(i) == Last(s(i)) = OP_CHECKMULTISIG
<1>1. \A i \in 1 .. k : Lasts(i, k) => flag = End(i)
  BY DEF ConsumeUpto
<1>2. ASSUME NEW i \in 1 .. k + 1, Lasts(i, k + 1)
      PROVE  next = End(i)
  <2>1. CASE i = k + 1
    BY <1>2, <2>1
  <2>2. CASE i # k + 1
    <3>1. i \in 1 .. k /\ k + 1 > i /\ k + 1 \in 1 .. k + 1
      BY <2>2
    <3>2. s(k + 1) = <<>>
      BY <1>2, <3>1
    <3>3. \A j \in 1 .. k : j \in 1 .. k + 1
      OBVIOUS
    <3>4. Lasts(i, k)
      BY <1>2, <3>3
    <3>5. next = flag
      BY <3>2
    <3>6. flag = End(i)
      BY <1>1, <3>1, <3>4
    <3>7. QED
      BY <3>5, <3>6
  <2>3. QED
    BY <2>1, <2>2
<1>3. QED
  BY <1>2 DEF ConsumeUpto

\* The end of an input: it is read whole, or its group has not been sent whole.
LEMMA EndOfInputFollows ==
  ASSUME Fed, AtScript, EndOfInput
  PROVE  /\ host' = host
         /\ transactionState' # "NONE" => transactionState' = "DEFINED_WAIT_INPUT" /\ AtInput'
         /\ host.grouped => transactionState' # "NONE"
<1> DEFINE t == host.tx
           mode == host.mode
           k == transactionCurrentInputOutput
           n == Len(t.inputs)
           in == t.inputs[k + 1]
           script == in.script
           e == in.sequence
           v == Varint(Len(script), t.wide)
           o == Outpoint(in) \o HashedTree(in)
           w == WitnessUpto(t, k)
           p == PrefixUpto(t, k)
           a == InputsAhead(t, mode, k + 1) \o Ending(t, mode)
           left == scriptRemaining
<1>1. PICK read \in Seq(Nat), unread \in Seq(Nat) :
        /\ ScriptParts(script, read, unread, left)
        /\ Follows(host, block, ScriptAhead(unread, e) \o a)
        /\ mode = "SIGNATURE" => witness = w \o (v \o read)
  BY DEF AtScript
<1>2. t \in Txs /\ mode \in Modes /\ block \in Seq(Nat)
  BY BlockIsNaturals DEF Fed
<1>3. n \in Nat /\ k \in 0 .. n - 1 /\ k + 1 \in 1 .. n /\ k + 1 \in 0 .. n /\ k \in 0 .. n /\ k \in Nat
  <2>1. n \in Nat
    BY <1>2, ListsAre
  <2>2. QED
    BY <2>1 DEF AtScript
<1>4. /\ left <= 1 /\ block # <<>>
      /\ consumeP2SH' = IF left = 1 THEN block[1] = OP_CHECKMULTISIG ELSE consumeP2SH
      /\ transactionState = "INPUT_SCRIPT" /\ left \in Nat
  BY DEF EndOfInput, Turn, Fed, BlockInv
<1>5. read \o unread = script /\ Len(unread) = left /\ (unread = <<>> => read = <<>>)
  BY <1>1 DEF ScriptParts
<1>6. e \in Seq(Nat) /\ Len(e) = Width.sequence
  BY <1>2, <1>3, InputIs
<1>7. v \in Seq(Nat) /\ w \in Seq(Nat) /\ p \in Seq(Nat)
  BY <1>2, <1>3, ScriptTold, HashesUpto
<1>71. o \in Seq(Nat)
  BY <1>2, <1>3, PartsAre
<1>72. WitnessUpto(t, k + 1) = w \o (v \o script) /\ PrefixUpto(t, k + 1) = p \o (o \o e)
  <2>1. /\ WitnessUpto(t, k + 1) = w \o WitnessPart(in, t.wide)
        /\ PrefixUpto(t, k + 1) = p \o PrefixPart(in)
    BY <1>2, <1>3, HashesUpto
  <2>2. WitnessPart(in, t.wide) = v \o script
    BY DEF WitnessPart
  <2>3. PrefixPart(in) = (Outpoint(in) \o HashedTree(in)) \o e
    BY DEF PrefixPart
  <2>4. QED
    BY <2>1, <2>2, <2>3
<1>8. a \in GroupLists
  <2> DEFINE i == InputsAhead(t, mode, k + 1)
             f == Ending(t, mode)
  <2>1. i \in GroupLists /\ f \in GroupLists
    BY <1>2, <1>3, InputsAheadAre, EndingIs
  <2> HIDE DEF i, f
  <2>2. i \o f \in GroupLists
    BY <2>1, GroupsTogether
  <2>3. QED
    BY <2>2 DEF i, f
<1> HIDE DEF script, e, v, o, w, p, a, in
<1> DEFINE g == IF unread = <<>> THEN <<e>> ELSE <<unread, e>>
           one == <<g>>
           ue == unread \o e
<1>9. /\ ScriptAhead(unread, e) = one /\ g \in Seq(Seq(Nat))
      /\ BytesOf(one) = ue /\ ue \in Seq(Nat) /\ Len(ue) = Len(unread) + Len(e)
  <2>1. Len(unread) <= 1
    BY <1>4, <1>5
  <2>2. QED
    BY <1>6, <2>1, LastGroup
<1>10. one \in GroupLists
  BY <1>9, BytesOfFew
<1> HIDE DEF g
<1>11. Follows(host, block, one \o a)
  BY <1>1, <1>9
<1> DEFINE taken == left + Width.sequence
<1>12. taken = Len(BytesOf(one)) /\ taken = Len(unread) + Len(e)
  BY <1>5, <1>6, <1>9
<1>13. ASSUME host.grouped
       PROVE  Available(taken)
  <2>1. host.sent \in GroupCuts[host.tx][host.mode]
    BY <1>13 DEF Fed
  <2>2. g \in Seq(Seq(Nat))
    BY <1>9
  <2>3. Len(BytesOf(<<g>>)) <= Len(block)
    BY <1>2, <1>4, <1>8, <1>11, <2>1, <2>2, WholeGroups
  <2>4. QED
    BY <1>12, <2>3 DEF Available
<1> HIDE DEF one, ue
<1>14. CASE ~Available(taken)
  <2>1. Fail
    BY <1>14 DEF EndOfInput
  <2>2. host' = host /\ transactionState' = "NONE"
    BY <2>1 DEF Fail
  <2>3. ~host.grouped
    BY <1>13, <1>14
  <2>4. QED
    BY <2>2, <2>3
<1>15. CASE Available(taken)
  <2>1. /\ transactionState' = "DEFINED_WAIT_INPUT"
        /\ transactionRemainingInputsOutputs' = transactionRemainingInputsOutputs - 1
        /\ transactionCurrentInputOutput' = k + 1
        /\ prefix' = Hashed(prefix, "FULL", transactionHashOption, First(left, block))
                       \o Slice(left + 1, taken, block)
        /\ witness' = Hashed(witness, "WITNESS", transactionHashOption, First(left, block))
        /\ transactionHashOption' = {"FULL"}
        /\ block' = Rest(taken, block)
        /\ transactionAmount' = transactionAmount /\ relaxed' = relaxed
        /\ host' = host
    BY <1>15 DEF EndOfInput
  <2>2. Len(BytesOf(one)) <= Len(block)
    BY <1>12, <1>15 DEF Available
  <2>3. /\ First(Len(BytesOf(one)), block) = BytesOf(one)
        /\ Follows(host, Rest(Len(BytesOf(one)), block), a)
    BY <1>2, <1>8, <1>10, <1>11, <2>2, GroupsTaken
  <2>4. Follows(host, block', a)
    BY <1>12, <2>1, <2>3
  <2>5. TwoFirst(block, unread, e)
    BY <1>9, <1>12, <2>2, <2>3 DEF TwoFirst, ue
  <2>6. Slice(Len(unread) + 1, Len(unread) + Len(e), block) = e /\ First(Len(unread), block) = unread
    BY <1>2, <1>6, <2>5, SecondPart
  <2>7. Slice(left + 1, taken, block) = e /\ First(left, block) = unread
    BY <1>5, <1>12, <2>6
  <2>8. /\ transactionHashOption = {"WITNESS"}
        /\ mode = "SIGNATURE" => prefix = p \o o
        /\ InputsSum(host, k + 1, transactionAmount)
        /\ RelaxedUpto(host, k + 1, relaxed)
        /\ ConsumeUpto(host, k, consumeP2SH)
        /\ transactionRemainingInputsOutputs = n - k
    BY DEF AtScript, p, o, in
  <2>9. prefix' = prefix \o e /\ witness' = witness \o unread
    BY <2>1, <2>7, <2>8 DEF Hashed
  <2>10. InputsHash(host, k + 1, prefix', witness')
    <3>1. unread \in Seq(Nat) /\ read \in Seq(Nat)
      OBVIOUS
    <3>2. e \in Seq(Nat)
      BY <1>6
    <3>3. (p \o o) \o e = p \o (o \o e)
      <4>1. p \in Seq(Nat)
        BY <1>7
      <4>2. o \in Seq(Nat)
        BY <1>71
      <4>3. Listed(p) /\ Listed(o) /\ Listed(e)
        BY <3>2, <4>1, <4>2 DEF Listed
      <4>4. Regroups(p, o, e)
        BY ONLY <4>3, ThreeListed, Zenon
      <4>5. QED
        BY ONLY <4>4 DEF Regroups
    <3> DEFINE vr == v \o read
    <3>31. v \in Seq(Nat)
      BY <1>7
    <3>32. w \in Seq(Nat)
      BY <1>7
    <3>33. Listed(w) /\ Listed(v) /\ Listed(read) /\ Listed(unread)
      BY <3>1, <3>31, <3>32 DEF Listed
    <3>4. vr \o unread = v \o (read \o unread)
      <4>1. Regroups(v, read, unread)
        BY ONLY <3>33, ThreeListed, Zenon
      <4>2. QED
        BY ONLY <4>1 DEF Regroups, vr
    <3>5. vr \in Seq(Nat)
      BY <1>7, <3>1, ConcatProperties
    <3>6. mode = "SIGNATURE" => witness = w \o vr
      BY <1>1
    <3> HIDE DEF vr
    <3>51. Listed(vr)
      BY <3>5 DEF Listed
    <3>7. (w \o vr) \o unread = w \o (vr \o unread)
      <4>1. Regroups(w, vr, unread)
        BY ONLY <3>33, <3>51, ThreeListed, Zenon
      <4>2. QED
        BY ONLY <4>1 DEF Regroups
    <3>8. mode = "SIGNATURE" => prefix' = PrefixUpto(t, k + 1)
      BY <1>72, <2>8, <2>9, <3>3
    <3>9. mode = "SIGNATURE" => witness' = WitnessUpto(t, k + 1)
      BY <1>5, <1>72, <2>9, <3>4, <3>6, <3>7
    <3>10. QED
      BY <3>8, <3>9 DEF InputsHash
  <2>11. ConsumeUpto(host, k + 1, consumeP2SH')
    <3>1. CASE left = 0
      <4>1. unread = <<>>
        <5>1. Len(unread) = 0
          BY <1>5, <3>1
        <5>2. QED
          BY <5>1, EmptySeq
      <4>2. script = <<>>
        <5>1. <<>> \o <<>> = <<>> /\ <<>> \in Seq(Nat)
          BY EmptySeq, ConcatEmptySeq
        <5>2. QED
          BY <1>5, <4>1, <5>1
      <4>3. consumeP2SH' = consumeP2SH
        BY <1>4, <3>1
      <4>4. host.tx.inputs[k + 1].script = <<>>
        BY <4>2 DEF script, in
      <4>5. QED
        BY <1>3, <2>8, <4>3, <4>4, ConsumeGoesOn
    <3>2. CASE left = 1
      <4>1. Len(unread) = 1
        BY <1>5, <3>2
      <4>2. Last(script) = unread[1] /\ script # <<>>
        BY <1>5, <4>1, LastOfScript
      <4>3. block[1] = unread[1]
        <5>1. Len(unread) <= Len(block)
          <6>1. Len(e) \in Nat /\ Len(block) \in Nat
            BY <1>2, <1>6, LenProperties
          <6>2. Len(unread) + Len(e) <= Len(block)
            BY <2>5 DEF TwoFirst
          <6> DEFINE m == Len(unread)
          <6>3. m = 1
            BY <4>1
          <6> HIDE DEF m
          <6>4. QED
            BY <6>1, <6>2, <6>3 DEF m
        <5>2. \A i \in 1 .. Len(unread) : First(Len(unread), block)[i] = block[i]
          BY <1>2, <4>1, <5>1, FirstIs
        <5>3. 1 \in 1 .. Len(unread)
          BY <4>1
        <5>4. QED
          BY <2>6, <5>2, <5>3
      <4>4. consumeP2SH' = (Last(script) = OP_CHECKMULTISIG)
        BY <1>4, <3>2, <4>2, <4>3
      <4>5. /\ host.tx.inputs[k + 1].script # <<>>
            /\ consumeP2SH' = (Last(host.tx.inputs[k + 1].script) = OP_CHECKMULTISIG)
        BY <4>2, <4>4 DEF script, in
      <4>6. QED
        BY <1>3, <2>8, <4>5, ConsumeGoesOn
    <3>3. QED
      BY <1>4, <3>1, <3>2
  <2>12. /\ k + 1 \in 0 .. n
         /\ transactionRemainingInputsOutputs' = n - (k + 1)
    BY <1>3, <2>1, <2>8
  <2>13. AtInput'
    BY <2>1, <2>4, <2>8, <2>10, <2>11, <2>12, Zenon DEF AtInput, a
  <2>14. QED
    BY <2>1, <2>13
<1>16. QED
  BY <1>14, <1>15

\* All the inputs were read.
AfterInputs ==
  LET n == Len(host.tx.inputs)
  IN  /\ Follows(host, block, Ending(host.tx, host.mode))
      /\ InputsHash(host, n, prefix, witness)
      /\ InputsSum(host, n, transactionAmount)
      /\ RelaxedUpto(host, n, relaxed)
      /\ ConsumeUpto(host, n, consumeP2SH)

\* The inputs are over when the count is.
LEMMA InputsDoneFollows ==
  ASSUME Fed, AtInput, InputsDone
  PROVE  transactionState' = "INPUT_HASHING_DONE" /\ AfterInputs' /\ host' = host
<1> DEFINE t == host.tx
           mode == host.mode
           k == transactionCurrentInputOutput
           n == Len(t.inputs)
           i == InputsAhead(t, mode, k)
           f == Ending(t, mode)
<1>1. t \in Txs /\ mode \in Modes /\ n \in Nat
  BY ListsAre DEF Fed
<1>2. transactionRemainingInputsOutputs = 0
  BY DEF InputsDone
<1>3. k = n
  BY <1>1, <1>2 DEF AtInput
<1>4. i = <<>> /\ f \in GroupLists
  BY <1>1, <1>3, InputsAheadAre, EndingIs
<1>5. i \o f = f
  <2> HIDE DEF i, f
  <2>1. <<>> \o f = f
    BY <1>4, GroupsTogether
  <2>2. QED
    BY <1>4, <2>1
<1>6. Follows(host, block, f)
  <2>1. Follows(host, block, i \o f)
    BY DEF AtInput
  <2> HIDE DEF i, f
  <2>2. QED
    BY <1>5, <2>1
<1>7. /\ InputsHash(host, n, prefix, witness) /\ InputsSum(host, n, transactionAmount)
      /\ RelaxedUpto(host, n, relaxed) /\ ConsumeUpto(host, n, consumeP2SH)
  BY <1>3 DEF AtInput
<1>8. UNCHANGED <<block, prefix, witness, transactionAmount, relaxed, consumeP2SH, host>>
      /\ transactionState' = "INPUT_HASHING_DONE"
  BY DEF InputsDone, hashes, session
<1>9. AfterInputs'
  BY <1>6, <1>7, <1>8, Zenon DEF AfterInputs
<1>10. QED
  BY <1>8, <1>9

-----------------------------------------------------------------------------
\* The outputs, which only a request for a trusted input reads.

\* The output asked for, if it is one of the first k, was read.
TargetIn(k) == transactionTargetInput < k => trustedInputProcessed

\* Before an output.
AtOutput ==
  LET k == transactionCurrentInputOutput
      m == Len(host.tx.outputs)
  IN  /\ k \in 0 .. m
      /\ transactionRemainingInputsOutputs = m - k
      /\ Follows(host, block, OutputsAhead(host.tx, k) \o TailGroups(host.tx))
      /\ TargetIn(k)

\* The bytes of a script that are still to come.
ScriptLeft(unread, a) == Len(unread) = scriptRemaining /\ Follows(host, block, ScriptGroups(unread) \o a)

\* Inside the script of an output.
AtOutputScript ==
  LET k == transactionCurrentInputOutput
      m == Len(host.tx.outputs)
  IN  /\ k \in 0 .. m - 1
      /\ transactionRemainingInputsOutputs = m - k
      /\ TargetIn(k + 1)
      /\ \E unread \in Seq(Nat) : ScriptLeft(unread, OutputsAhead(host.tx, k + 1) \o TailGroups(host.tx))

\* After the outputs, before the lock time, and inside the extra data.
AllOutputs == TargetIn(Len(host.tx.outputs))
AtTail == Follows(host, block, TailGroups(host.tx)) /\ AllOutputs
AtExtra == (\E unread \in Seq(Nat) : ScriptLeft(unread, <<>>)) /\ AllOutputs

\* A request for a trusted input, whose blocks end with a group.
Reads == Fed /\ host.mode = "TRUSTED_INPUT" /\ transactionTargetInput \in Nat

\* The number of outputs is read, or the block is over.
LEMMA OutputCountFollows ==
  ASSUME Reads, AfterInputs, ReadOutputCount, block # <<>>
  PROVE  transactionState' = "DEFINED_WAIT_OUTPUT" /\ AtOutput' /\ host' = host
<1> DEFINE t == host.tx
           m == Len(t.outputs)
           wide == FALSE
           v == Varint(m, wide)
           x == <<>>
           g == <<v>>
           a == OutputsAhead(t, 0) \o TailGroups(t)
<1>1. t \in Txs /\ host.mode \in Modes /\ block \in Seq(Nat) /\ host.grouped
      /\ host.sent \in GroupCuts[host.tx][host.mode]
  BY BlockIsNaturals DEF Reads, Fed, Followed
<1>2. m \in 0 .. 252
  BY <1>1, TxIs
<1>3. Told(m, wide)
  BY <1>2, CountIsTold, Zenon
<1>4. g \in Seq(Seq(Nat)) /\ a \in GroupLists /\ BytesOf(<<g>>) = v
  BY <1>1, EndingIs
<1>41. v \in Seq(Nat)
  BY <1>3, VarintTold DEF Told
<1>5. x \in Seq(Nat) /\ Len(x) = 0 /\ x \o v = v
  BY <1>41, EmptySeq, ConcatEmptySeq
<1>6. HeadIs(g, x, m, wide)
  BY <1>4, <1>5 DEF HeadIs
<1>7. Follows(host, block, <<g>> \o a)
  BY DEF AfterInputs, Ending, Reads
<1>8. Readable(host, block, x, g, a)
  BY <1>1 DEF Readable
<1>81. x \in Seq(Nat) /\ g \in Seq(Seq(Nat)) /\ a \in GroupLists
  BY <1>4, <1>5
<1> DEFINE c == Rest(Len(x), block)
<1>9. c = block
  <2>1. Rest(0, block) = block
    BY <1>1, ListEnds
  <2>2. QED
    BY <1>5, <2>1
<1> HIDE DEF m, x, g, a, wide, c
<1>10. /\ Len(x) + Len(v) <= Len(block) /\ VarintReadable(c) /\ VarintBytes(c) = Len(v) /\ VarintValue(c) = m
       /\ Follows(host, Rest(Len(x) + Len(v), block), a)
  BY <1>1, <1>3, <1>6, <1>7, <1>8, <1>81, HeadRead DEF c
<1>11. Len(x) + Len(v) = Len(v)
  BY <1>41, <1>5, LenProperties DEF x
<1>12. /\ VarintReadable(block) /\ VarintBytes(block) = Len(v) /\ VarintValue(block) = m
       /\ Follows(host, Rest(Len(v), block), a)
  BY <1>9, <1>10, <1>11
<1>13. /\ transactionState' = "DEFINED_WAIT_OUTPUT"
       /\ transactionRemainingInputsOutputs' = VarintValue(block)
       /\ transactionCurrentInputOutput' = 0
       /\ Consume(VarintBytes(block))
       /\ transactionTargetInput' = transactionTargetInput
       /\ host' = host
  BY <1>12 DEF ReadOutputCount, request
<1>14. Follows(host, block', a)
  BY <1>12, <1>13 DEF Consume
<1>15. TargetIn(0)'
  <2>1. transactionTargetInput' \in Nat
    BY <1>13 DEF Reads
  <2>2. QED
    BY <2>1 DEF TargetIn
<1>16. transactionRemainingInputsOutputs' = m - 0 /\ 0 \in 0 .. m
  BY <1>2, <1>12, <1>13
<1>17. AtOutput'
  BY <1>13, <1>14, <1>15, <1>16 DEF AtOutput, TargetIn, m, a
<1>18. QED
  BY <1>13, <1>17

\* The outputs are over.
LEMMA OutputsDoneFollows ==
  ASSUME Reads, AtOutput, OutputsDone
  PROVE  transactionState' = "OUTPUT_HASHING_DONE" /\ AtTail' /\ host' = host
<1> DEFINE t == host.tx
           k == transactionCurrentInputOutput
           m == Len(t.outputs)
           o == OutputsAhead(t, k)
           e == TailGroups(t)
<1>1. t \in Txs /\ m \in Nat
  BY ListsAre DEF Reads, Fed
<1>2. k = m
  BY <1>1 DEF AtOutput, OutputsDone
<1>3. o = <<>> /\ e \in GroupLists
  BY <1>1, <1>2, OutputsAheadAre, TailGroupsAre
<1>4. Follows(host, block, o \o e)
  BY DEF AtOutput
<1>5. Follows(host, block, e)
  <2> HIDE DEF o, e
  <2>1. <<>> \o e = e
    BY <1>3, GroupsTogether
  <2>2. QED
    BY <1>3, <1>4, <2>1
<1>6. AllOutputs
  BY <1>2 DEF AllOutputs, AtOutput
<1>7. UNCHANGED <<block, transactionTargetInput, trustedInputProcessed, host>>
      /\ transactionState' = "OUTPUT_HASHING_DONE"
  BY DEF OutputsDone, request
<1>8. AtTail'
  BY <1>5, <1>6, <1>7, Zenon DEF AtTail, AllOutputs, TargetIn
<1>9. QED
  BY <1>7, <1>8

\* An output is read up to its script.
LEMMA ReadOutputFollows ==
  ASSUME Reads, AtOutput, ReadOutput
  PROVE  transactionState' = "OUTPUT_SCRIPT" /\ AtOutputScript' /\ host' = host
<1> DEFINE t == host.tx
           k == transactionCurrentInputOutput
           m == Len(t.outputs)
           out == t.outputs[k + 1]
           n == Len(out.script)
           wide == t.wide
           v == Varint(n, wide)
           x == out.amount \o out.scriptVersion
           g == <<out.amount, out.scriptVersion, v>>
           one == <<g>>
           s == ScriptGroups(out.script)
           i == OutputsAhead(t, k + 1)
           e == TailGroups(t)
           a == s \o (i \o e)
<1>1. /\ t \in Txs /\ host.mode \in Modes /\ block \in Seq(Nat) /\ host.grouped
      /\ host.sent \in GroupCuts[host.tx][host.mode]
      /\ running = "TRUSTED_INPUT" /\ transactionTargetInput \in Nat
  BY BlockIsNaturals DEF Reads, Fed, Followed
<1>2. /\ block # <<>> /\ transactionRemainingInputsOutputs # 0
  BY DEF ReadOutput
<1>3. m \in Nat /\ k \in 0 .. m - 1 /\ k + 1 \in 1 .. m /\ k + 1 \in 0 .. m /\ k \in Nat
  <2>1. m \in Nat
    BY <1>1, ListsAre
  <2>2. QED
    BY <1>2, <2>1 DEF AtOutput
<1>4. /\ OutputGroups(out, wide) = one \o s /\ g \in Seq(Seq(Nat)) /\ one \in GroupLists
      /\ s \in GroupLists /\ x \in Seq(Nat) /\ BytesOf(one) = x \o v
  BY <1>1, <1>3, OutputGroupsAre
<1>5. out.script \in Seq(Nat) /\ n < (IF wide THEN 256 ELSE 253) /\ wide \in BOOLEAN
  BY <1>1, <1>3, OutputIs, TxIs
<1>6. Told(n, wide) /\ v \in Seq(Nat) /\ n \in Nat
  <2>1. n \in Nat
    BY <1>5, LenProperties
  <2> HIDE DEF n, wide
  <2>2. Told(n, wide)
    BY <1>5, <2>1 DEF Told
  <2>3. QED
    BY <2>1, <2>2, VarintTold DEF Told
<1>7. Len(out.amount) = Width.amount /\ Len(x) = Width.amount + Width.scriptVersion
      /\ Width.amount \in Nat /\ Width.scriptVersion \in Nat
  <2> DEFINE am == out.amount
             ver == out.scriptVersion
  <2>1. am \in Seq(Nat) /\ ver \in Seq(Nat) /\ Len(am) = Width.amount /\ Len(ver) = Width.scriptVersion
    BY <1>1, <1>3, OutputIs
  <2>2. x = am \o ver
    OBVIOUS
  <2> HIDE DEF am, ver
  <2>3. Len(am \o ver) = Len(am) + Len(ver)
    BY <2>1, ConcatProperties
  <2>4. Width.amount \in Nat /\ Width.scriptVersion \in Nat
    BY WidthAssumption DEF WidthAssumption
  <2>5. QED
    BY <2>1, <2>2, <2>3, <2>4 DEF am
<1>8. i \in GroupLists /\ OutputsAhead(t, k) = OutputGroups(out, wide) \o i
  BY <1>1, <1>3, OutputsAheadAre
<1>9. e \in GroupLists
  BY <1>1, TailGroupsAre
<1>10. HeadIs(g, x, n, wide)
  BY <1>4 DEF HeadIs
<1>11. Follows(host, block, OutputsAhead(t, k) \o e)
  BY DEF AtOutput
<1>12. OutputsAhead(t, k) = (one \o s) \o i
  BY <1>4, <1>8
<1>41. s \in GroupLists
  BY <1>4
<1>42. one \in GroupLists
  BY <1>4
<1> HIDE DEF one, s, i, e
<1>13. ((one \o s) \o i) \o e = one \o (s \o (i \o e)) /\ s \o (i \o e) \in GroupLists
  BY <1>41, <1>42, <1>8, <1>9, FourGroups
<1>14. Follows(host, block, <<g>> \o a) /\ a \in GroupLists
  BY <1>11, <1>12, <1>13 DEF one
<1>15. Readable(host, block, x, g, a)
  BY <1>1, <1>2 DEF Readable
<1> DEFINE length == Rest(Len(x), block)
<1>151. g \in Seq(Seq(Nat)) /\ x \in Seq(Nat) /\ a \in GroupLists
  BY <1>4, <1>14
<1>152. Follows(host, block, <<g>> \o a)
  BY <1>14
<1>153. Told(n, wide)
  BY <1>6
<1> HIDE DEF v, x, g, a, n, wide
<1>16. /\ Len(x) + Len(Varint(n, wide)) <= Len(block)
       /\ VarintReadable(length) /\ VarintBytes(length) = Len(Varint(n, wide)) /\ VarintValue(length) = n
       /\ Follows(host, Rest(Len(x) + Len(Varint(n, wide)), block), a)
  BY <1>1, <1>10, <1>15, <1>151, <1>152, <1>153, HeadRead
<1>17. length = Rest(Width.amount + Width.scriptVersion, block)
  BY <1>7
<1> DEFINE found == IsTarget /\ Available(Width.amount)
           taken == Width.amount + Width.scriptVersion + VarintBytes(length)
<1>18. /\ trustedInputProcessed' = (trustedInputProcessed \/ found)
       /\ transactionState' = "OUTPUT_SCRIPT"
       /\ scriptRemaining' = n
       /\ Consume(taken)
       /\ transactionRemainingInputsOutputs' = transactionRemainingInputsOutputs
       /\ transactionCurrentInputOutput' = k
       /\ transactionTargetInput' = transactionTargetInput
       /\ host' = host
  <2> DEFINE l == Rest(Width.amount + Width.scriptVersion, block)
  <2>1. VarintReadable(l) /\ VarintValue(l) = n /\ length = l
    BY <1>16, <1>17
  <2>2. /\ trustedInputProcessed' = (trustedInputProcessed \/ found)
        /\ transactionState' = "OUTPUT_SCRIPT"
        /\ scriptRemaining' = VarintValue(l)
        /\ Consume(Width.amount + Width.scriptVersion + VarintBytes(l))
        /\ transactionRemainingInputsOutputs' = transactionRemainingInputsOutputs
        /\ transactionCurrentInputOutput' = k
        /\ transactionTargetInput' = transactionTargetInput
        /\ host' = host
    BY <2>1, Zenon DEF ReadOutput
  <2>3. QED
    BY <2>1, <2>2
<1>19. taken = Len(x) + Len(Varint(n, wide))
  BY <1>7, <1>16
<1>20. Follows(host, block', a)
  BY <1>16, <1>18, <1>19 DEF Consume
<1>21. transactionTargetInput < k + 1 => trustedInputProcessed'
  <2>1. TargetIn(k)
    BY DEF AtOutput
  <2>2. ASSUME transactionTargetInput = k
        PROVE  found
    <3>1. Width.amount <= Len(block)
      <4>1. Len(Varint(n, wide)) \in Nat /\ Len(block) \in Nat
        BY <1>1, <1>6, LenProperties DEF v
      <4>2. QED
        BY <1>7, <1>16, <4>1
    <3>2. QED
      BY <1>1, <2>2, <3>1 DEF IsTarget, Available
  <2>3. transactionTargetInput < k + 1 => transactionTargetInput < k \/ transactionTargetInput = k
    BY <1>1, <1>3
  <2>4. QED
    BY <1>18, <2>1, <2>2, <2>3 DEF TargetIn
<1>22. AtOutputScript'
  <2>1. Len(out.script) = scriptRemaining' /\ Follows(host, block', s \o (i \o e))
    BY <1>18, <1>20 DEF n, a
  <2>2. \E unread \in Seq(Nat) : /\ Len(unread) = scriptRemaining'
                                 /\ Follows(host, block', ScriptGroups(unread) \o (i \o e))
    BY <1>5, <2>1 DEF s
  <2>3. transactionRemainingInputsOutputs = m - k
    BY DEF AtOutput
  <2>4. TargetIn(k + 1)'
    BY <1>18, <1>21 DEF TargetIn
  <2>5. QED
    BY <1>3, <1>18, <2>2, <2>3, <2>4, Zenon DEF AtOutputScript, ScriptLeft, TargetIn, i, e
<1>23. QED
  BY <1>18, <1>22

\* Bytes of a script are read, and the rest is still to come.
LEMMA ScriptLeftFollows ==
  ASSUME Fed, NEW unread \in Seq(Nat), NEW a \in GroupLists, ScriptLeft(unread, a), block # <<>>,
         Consume(Portion(scriptRemaining)), scriptRemaining' = scriptRemaining - Portion(scriptRemaining),
         host' = host
  PROVE  \E u \in Seq(Nat) : /\ Len(u) = scriptRemaining'
                             /\ Follows(host, block', ScriptGroups(u) \o a)
<1> DEFINE limit == scriptRemaining
           n == Portion(limit)
           x == First(n, unread)
           y == Rest(n, unread)
           c == ScriptGroups(y)
           d == ScriptGroups(x)
           ca == c \o a
<1>1. block \in Seq(Nat) /\ host.tx \in Txs /\ host.mode \in Modes /\ limit \in Nat
  BY BlockIsNaturals DEF Fed, BlockInv
<1>2. Len(unread) = limit /\ Follows(host, block, ScriptGroups(unread) \o a)
  BY DEF ScriptLeft
<1>3. limit <= Len(unread)
  BY <1>1, <1>2
<1>4. Consume(n) /\ scriptRemaining' = limit - n
  OBVIOUS
<1> HIDE DEF limit
<1>5. /\ n \in 0 .. limit /\ n <= Len(block)
      /\ x \in Seq(Nat) /\ Len(x) = n
      /\ y \in Seq(Nat) /\ Len(y) = Len(unread) - n
      /\ x \o y = unread
  BY <1>1, <1>3, PortionTaken
<1> HIDE DEF n, x, y
<1>6. x \in Seq(Nat) /\ y \in Seq(Nat)
  BY <1>5
<1>7. ScriptGroups(x \o y) = d \o c
  BY <1>6, ScriptGroupsBoth
<1>8. d \in GroupLists
  BY <1>6, ScriptGroupsType
<1>9. c \in GroupLists
  BY <1>6, ScriptGroupsType
<1>91. a \in GroupLists
  OBVIOUS
<1> HIDE DEF c, d
<1>10. ca \in GroupLists
  BY <1>9, <1>91, GroupsTogether
<1>11. (d \o c) \o a = d \o ca
  BY <1>8, <1>9, <1>91, ThreeGroups, Zenon
<1>12. ScriptGroups(unread) = d \o c
  BY <1>5, <1>7
<1>13. Follows(host, block, d \o ca)
  BY <1>2, <1>11, <1>12
<1> HIDE DEF ca
<1>14. Follows(host, Rest(Len(x), block), ca)
  <2>1. Len(x) <= Len(block)
    BY <1>5
  <2>2. Follows(host, block, ScriptGroups(x) \o ca)
    BY <1>13 DEF d
  <2>3. QED
    BY <1>1, <1>6, <1>10, <2>1, <2>2, ScriptTaken
<1>15. block' = Rest(n, block)
  BY <1>4 DEF Consume
<1>16. Follows(host, block', ca)
  BY <1>5, <1>14, <1>15
<1>17. Len(y) = scriptRemaining'
  BY <1>2, <1>4, <1>5
<1>18. QED
  BY <1>6, <1>16, <1>17 DEF ca, c

\* The script of an output.
LEMMA OutputScriptFollows ==
  ASSUME Reads, AtOutputScript, ReadOutputScript, block # <<>>
  PROVE  /\ host' = host
         /\ \/ transactionState' = transactionState /\ AtOutputScript'
            \/ transactionState' = "DEFINED_WAIT_OUTPUT" /\ AtOutput'
<1> DEFINE t == host.tx
           k == transactionCurrentInputOutput
           m == Len(t.outputs)
           o == OutputsAhead(t, k + 1)
           e == TailGroups(t)
           a == o \o e
<1>1. t \in Txs /\ m \in Nat
  BY ListsAre DEF Reads, Fed
<1>2. /\ k \in 0 .. m - 1 /\ k + 1 \in 0 .. m
      /\ transactionRemainingInputsOutputs = m - k
      /\ TargetIn(k + 1)
  BY <1>1 DEF AtOutputScript
<1>3. a \in GroupLists
  <2>1. o \in GroupLists /\ e \in GroupLists
    BY <1>1, <1>2, OutputsAheadAre, TailGroupsAre
  <2> HIDE DEF o, e
  <2>2. o \o e \in GroupLists
    BY <2>1, GroupsTogether
  <2>3. QED
    BY <2>2
<1>4. PICK unread \in Seq(Nat) : ScriptLeft(unread, a)
  BY DEF AtOutputScript
<1> HIDE DEF a
<1>5. CASE scriptRemaining = 0
  <2>1. /\ transactionState' = "DEFINED_WAIT_OUTPUT"
        /\ transactionRemainingInputsOutputs' = transactionRemainingInputsOutputs - 1
        /\ transactionCurrentInputOutput' = k + 1
        /\ transactionTargetInput' = transactionTargetInput
        /\ trustedInputProcessed' = trustedInputProcessed
        /\ block' = block /\ host' = host
    BY <1>5 DEF ReadOutputScript, request
  <2>2. unread = <<>>
    <3>1. Len(unread) = 0
      BY <1>4, <1>5 DEF ScriptLeft
    <3>2. QED
      BY <3>1, EmptySeq
  <2>3. ScriptGroups(unread) = <<>>
    BY <2>2 DEF ScriptGroups
  <2>4. Follows(host, block, a)
    <3>1. <<>> \o a = a
      BY <1>3, GroupsTogether
    <3>2. Follows(host, block, ScriptGroups(unread) \o a)
      BY <1>4 DEF ScriptLeft
    <3>3. QED
      BY <2>3, <3>1, <3>2
  <2>5. transactionRemainingInputsOutputs' = m - (k + 1)
    BY <1>1, <1>2, <2>1
  <2>6. AtOutput'
    BY <1>2, <2>1, <2>4, <2>5, Zenon DEF AtOutput, TargetIn, a
  <2>7. QED
    BY <2>1, <2>6
<1>6. CASE scriptRemaining # 0
  <2>1. /\ transactionState' = transactionState
        /\ Consume(Portion(scriptRemaining))
        /\ scriptRemaining' = scriptRemaining - Portion(scriptRemaining)
        /\ transactionRemainingInputsOutputs' = transactionRemainingInputsOutputs
        /\ transactionCurrentInputOutput' = k
        /\ transactionTargetInput' = transactionTargetInput
        /\ trustedInputProcessed' = trustedInputProcessed
        /\ host' = host
    BY <1>6 DEF ReadOutputScript, request
  <2>2. Fed
    BY DEF Reads
  <2>3. \E u \in Seq(Nat) : /\ Len(u) = scriptRemaining'
                            /\ Follows(host, block', ScriptGroups(u) \o a)
    BY <1>3, <1>4, <2>1, <2>2, ScriptLeftFollows
  <2>4. AtOutputScript'
    BY <1>2, <2>1, <2>3, Zenon DEF AtOutputScript, ScriptLeft, TargetIn, a
  <2>5. QED
    BY <2>1, <2>4
<1>7. QED
  BY <1>5, <1>6

\* The lock time, and the length of the extra data if there is any.
LEMMA LockTimeFollows ==
  ASSUME Reads, AtTail, ReadLockTime
  PROVE  /\ host' = host /\ AllOutputs'
         /\ \/ transactionState' = "PARSED"
            \/ transactionState' = "PROCESS_EXTRA" /\ AtExtra'
<1> DEFINE t == host.tx
           x == t.lockTime
           n == Len(t.extra)
           wide == FALSE
           g == TailHead(t)
           a == ScriptGroups(t.extra)
           extra == Rest(Width.lockTime, block)
<1>1. /\ t \in Txs /\ host.mode \in Modes /\ block \in Seq(Nat) /\ host.grouped
      /\ host.sent \in GroupCuts[host.tx][host.mode] /\ block # <<>>
  BY BlockIsNaturals DEF Reads, Fed, Followed, ReadLockTime
<1>2. x \in Seq(Nat) /\ Len(x) = Width.lockTime /\ t.extra \in Seq(Nat) /\ n \in 0 .. 252
  BY <1>1, TxIs
<1>3. /\ TailGroups(t) = <<g>> \o a /\ g \in Seq(Seq(Nat)) /\ <<g>> \in GroupLists /\ a \in GroupLists
      /\ TailCount(t) \in Seq(Nat) /\ BytesOf(<<g>>) = x \o TailCount(t)
  BY <1>1, TailGroupsAre
<1>4. Follows(host, block, <<g>> \o a)
  BY <1>3 DEF AtTail
<1>5. AllOutputs
  BY DEF AtTail
<1>6. CASE t.extra = <<>>
  <2>1. TailCount(t) = <<>> /\ a = <<>>
    BY <1>6 DEF TailCount, ScriptGroups
  <2>2. x \o <<>> = x
    BY <1>2, ConcatEmptySeq
  <2>3. BytesOf(<<g>>) = x
    BY <1>3, <2>1, <2>2
  <2>31. g \in Seq(Seq(Nat)) /\ a \in GroupLists
    BY <1>3
  <2>32. <<g>> \in GroupLists
    BY <1>3
  <2> DEFINE one == <<g>>
  <2> HIDE DEF x, a, g
  <2>4. Len(BytesOf(<<g>>)) <= Len(block)
    BY <1>1, <1>4, <2>31, WholeGroups
  <2> HIDE DEF one
  <2>5. Rest(Len(BytesOf(one)), block) \in Seq(Nat) /\ Follows(host, Rest(Len(BytesOf(one)), block), a)
    BY <1>1, <1>4, <2>31, <2>32, <2>4, GroupsTaken DEF one
  <2>6. Width.lockTime = Len(BytesOf(one))
    BY <1>2, <2>3 DEF one
  <2>7. extra \in Seq(Nat) /\ Follows(host, extra, <<>>)
    BY <2>1, <2>5, <2>6
  <2>8. extra = <<>>
    BY <1>1, <2>7, NothingAhead
  <2>9. Available(Width.lockTime)
    BY <2>4, <2>6 DEF Available, one
  <2>10. transactionState' = "PARSED" /\ host' = host
         /\ transactionTargetInput' = transactionTargetInput /\ trustedInputProcessed' = trustedInputProcessed
    BY <2>8, <2>9 DEF ReadLockTime, request
  <2>11. AllOutputs'
    BY <1>5, <2>10, Zenon DEF AllOutputs, TargetIn
  <2>12. QED
    BY <2>10, <2>11
<1>7. CASE t.extra # <<>>
  <2> DEFINE v == Varint(n, wide)
  <2>1. TailCount(t) = v
    BY <1>7 DEF TailCount
  <2>2. HeadIs(g, x, n, wide)
    BY <1>3, <2>1 DEF HeadIs
  <2>3. Told(n, wide)
    BY <1>2, CountIsTold, Zenon
  <2>4. Readable(host, block, x, g, a)
    BY <1>1 DEF Readable
  <2>5. x \in Seq(Nat) /\ g \in Seq(Seq(Nat)) /\ a \in GroupLists
    BY <1>2, <1>3
  <2>51. Follows(host, block, <<g>> \o a)
    BY <1>4
  <2> DEFINE c == Rest(Len(x), block)
  <2>52. c = extra
    BY <1>2
  <2> HIDE DEF x, g, a, n, wide, v
  <2>6. /\ Len(x) + Len(v) <= Len(block)
        /\ VarintReadable(c) /\ VarintBytes(c) = Len(v) /\ VarintValue(c) = n
        /\ Rest(Len(v), c) = Rest(Len(x) + Len(v), block)
        /\ Follows(host, Rest(Len(x) + Len(v), block), a)
    BY <1>1, <2>2, <2>3, <2>4, <2>5, <2>51, HeadRead DEF v
  <2>7. v \in Seq(Nat) /\ Len(v) \in Nat /\ Len(block) \in Nat /\ Width.lockTime \in Nat
    <3>1. v \in Seq(Nat)
      BY <2>3, VarintTold DEF Told, v
    <3>2. QED
      BY <1>1, <3>1, WidthAssumption, LenProperties DEF WidthAssumption
  <2>8. Available(Width.lockTime)
    BY <1>2, <2>6, <2>7 DEF Available
  <2>9. extra # <<>> /\ VarintReadable(extra)
    BY <2>52, <2>6 DEF VarintReadable
  <2>10. /\ transactionState' = "PROCESS_EXTRA" /\ host' = host
         /\ transactionTargetInput' = transactionTargetInput /\ trustedInputProcessed' = trustedInputProcessed
         /\ scriptRemaining' = VarintValue(extra)
         /\ block' = Rest(VarintBytes(extra), extra)
    <3>1. ~(extra = <<>>) /\ Available(Width.lockTime) /\ VarintReadable(extra)
      BY <2>8, <2>9
    <3>2. QED
      BY <3>1 DEF ReadLockTime, request
  <2>11. AllOutputs'
    BY <1>5, <2>10, Zenon DEF AllOutputs, TargetIn
  <2>12. scriptRemaining' = Len(t.extra) /\ Follows(host, block', a)
    BY <2>10, <2>52, <2>6 DEF n
  <2>13. a \o <<>> = a
    BY <2>5, GroupsTogether
  <2>14. \E u \in Seq(Nat) : Len(u) = scriptRemaining' /\ Follows(host, block', ScriptGroups(u) \o <<>>)
    BY <1>2, <2>12, <2>13 DEF a
  <2>15. AtExtra'
    BY <2>10, <2>11, <2>14 DEF AtExtra, ScriptLeft
  <2>16. QED
    BY <2>10, <2>11, <2>15
<1>8. QED
  BY <1>6, <1>7

\* The extra data.
LEMMA ExtraFollows ==
  ASSUME Reads, AtExtra, ReadExtra, block # <<>> \/ scriptRemaining = 0
  PROVE  /\ host' = host /\ AllOutputs'
         /\ \/ transactionState' = transactionState /\ AtExtra'
            \/ transactionState' = "PARSED"
<1>1. AllOutputs
  BY DEF AtExtra
<1>2. CASE scriptRemaining = 0
  <2>1. /\ transactionState' = "PARSED" /\ host' = host
        /\ transactionTargetInput' = transactionTargetInput /\ trustedInputProcessed' = trustedInputProcessed
    BY <1>2 DEF ReadExtra, request
  <2>2. QED
    BY <1>1, <2>1, Zenon DEF AllOutputs, TargetIn
<1>3. CASE scriptRemaining # 0
  <2>1. /\ transactionState' = transactionState /\ host' = host
        /\ Consume(Portion(scriptRemaining))
        /\ scriptRemaining' = scriptRemaining - Portion(scriptRemaining)
        /\ transactionTargetInput' = transactionTargetInput /\ trustedInputProcessed' = trustedInputProcessed
    BY <1>3 DEF ReadExtra, request
  <2>2. PICK unread \in Seq(Nat) : ScriptLeft(unread, <<>>)
    BY DEF AtExtra
  <2>3. Fed /\ block # <<>> /\ <<>> \in GroupLists
    BY <1>3, BytesOfFew DEF Reads
  <2>4. \E u \in Seq(Nat) : /\ Len(u) = scriptRemaining'
                            /\ Follows(host, block', ScriptGroups(u) \o <<>>)
    BY <2>1, <2>2, <2>3, ScriptLeftFollows
  <2>5. AllOutputs'
    BY <1>1, <2>1, Zenon DEF AllOutputs, TargetIn
  <2>6. AtExtra'
    BY <2>1, <2>4, <2>5 DEF AtExtra, ScriptLeft
  <2>7. QED
    BY <2>1, <2>5, <2>6
<1>4. QED
  BY <1>2, <1>3

-----------------------------------------------------------------------------
\* The device follows the host, whatever it does.

\* What is known in each state of a transaction that arrives in order.
FollowInv ==
  /\ transactionState = "NONE" /\ running # "none" => Follows(host, block, Groups(host.tx, host.mode))
  /\ transactionState = "DEFINED_WAIT_INPUT" => AtInput
  /\ transactionState = "INPUT_SCRIPT" => AtScript
  /\ transactionState \in {"INPUT_HASHING_DONE", "PRESIGN_READY"} => AfterInputs
  /\ transactionState = "DEFINED_WAIT_OUTPUT" => AtOutput
  /\ transactionState = "OUTPUT_SCRIPT" => AtOutputScript
  /\ transactionState = "OUTPUT_HASHING_DONE" => AtTail
  /\ transactionState = "PROCESS_EXTRA" => AtExtra
  /\ transactionState = "PARSED" => AllOutputs

SentInv ==
  /\ host.grouped => host.orderly
  /\ host.orderly => host.tx \in Txs /\ host.mode \in Modes /\ parseMode = host.mode
  /\ host.grouped => host.sent \in GroupCuts[host.tx][host.mode]
  /\ running = "none" => block = <<>>
  /\ Followed => FollowInv
  /\ OrderlyAccepted

\* It stays known when the device does nothing, and when more bytes come.
LEMMA FollowKept ==
  ASSUME FollowInv, NEW h, NEW b, host' = h, block' = b, h.tx = host.tx, h.mode = host.mode,
         \A a : Follows(host, block, a) => Follows(h, b, a),
         UNCHANGED <<transactionState, counters, transactionAmount, session, hashes, request>>,
         transactionState = "NONE" /\ running' # "none" => running # "none"
  PROVE  FollowInv'
<1>1. /\ transactionState' = transactionState
      /\ transactionRemainingInputsOutputs' = transactionRemainingInputsOutputs
      /\ transactionCurrentInputOutput' = transactionCurrentInputOutput
      /\ scriptRemaining' = scriptRemaining /\ transactionAmount' = transactionAmount
      /\ relaxed' = relaxed /\ consumeP2SH' = consumeP2SH
      /\ transactionHashOption' = transactionHashOption /\ prefix' = prefix /\ witness' = witness
      /\ transactionTargetInput' = transactionTargetInput
      /\ trustedInputProcessed' = trustedInputProcessed
      /\ host' = h /\ block' = b /\ h.tx = host.tx /\ h.mode = host.mode
  BY DEF counters, session, hashes, request
<1>2. \A a : Follows(host, block, a) => Follows(h, b, a)
  OBVIOUS
<1>3. /\ \A k, p, w : InputsHash(host, k, p, w) => InputsHash(h, k, p, w)
      /\ \A k, amount : InputsSum(host, k, amount) => InputsSum(h, k, amount)
      /\ \A k, rel : RelaxedUpto(host, k, rel) => RelaxedUpto(h, k, rel)
      /\ \A k, p2sh : ConsumeUpto(host, k, p2sh) => ConsumeUpto(h, k, p2sh)
  <2>1. \A k, p, w : InputsHash(host, k, p, w) => InputsHash(h, k, p, w)
    BY <1>1 DEF InputsHash
  <2>2. \A k, amount : InputsSum(host, k, amount) => InputsSum(h, k, amount)
    BY <1>1 DEF InputsSum
  <2>3. \A k, rel : RelaxedUpto(host, k, rel) => RelaxedUpto(h, k, rel)
    BY <1>1 DEF RelaxedUpto
  <2>4. \A k, p2sh : ConsumeUpto(host, k, p2sh) => ConsumeUpto(h, k, p2sh)
    BY <1>1 DEF ConsumeUpto
  <2>5. QED
    BY <2>1, <2>2, <2>3, <2>4
<1>4. AtInput => AtInput'
  BY <1>1, <1>2, <1>3 DEF AtInput
<1>5. AtScript => AtScript'
  <2> SUFFICES ASSUME AtScript
               PROVE  AtScript'
    OBVIOUS
  <2> DEFINE t == host.tx
             k == transactionCurrentInputOutput
             in == t.inputs[k + 1]
             a == InputsAhead(t, host.mode, k + 1) \o Ending(t, host.mode)
             w == WitnessUpto(t, k)
             v == Varint(Len(in.script), t.wide)
  <2>1. PICK read \in Seq(Nat), unread \in Seq(Nat) :
          /\ ScriptParts(in.script, read, unread, scriptRemaining)
          /\ Follows(host, block, ScriptAhead(unread, in.sequence) \o a)
          /\ host.mode = "SIGNATURE" => witness = w \o (v \o read)
    BY DEF AtScript
  <2>2. /\ ScriptParts(in.script, read, unread, scriptRemaining')
        /\ Follows(h, b, ScriptAhead(unread, in.sequence) \o a)
        /\ h.mode = "SIGNATURE" => witness' = w \o (v \o read)
    BY <1>1, <1>2, <2>1
  <2>3. \E rd \in Seq(Nat), ur \in Seq(Nat) :
          /\ ScriptParts(in.script, rd, ur, scriptRemaining')
          /\ Follows(h, b, ScriptAhead(ur, in.sequence) \o a)
          /\ h.mode = "SIGNATURE" => witness' = w \o (v \o rd)
    BY <2>2
  <2>4. /\ k \in 0 .. Len(t.inputs) - 1
        /\ transactionRemainingInputsOutputs = Len(t.inputs) - k
        /\ transactionHashOption = {"WITNESS"}
        /\ InputsSum(h, k + 1, transactionAmount)
        /\ RelaxedUpto(h, k + 1, relaxed)
        /\ ConsumeUpto(h, k, consumeP2SH)
        /\ host.mode = "SIGNATURE" => prefix = PrefixUpto(t, k) \o (Outpoint(in) \o HashedTree(in))
    BY <1>3 DEF AtScript
  <2>5. QED
    BY <1>1, <2>3, <2>4 DEF AtScript
<1>6. AfterInputs => AfterInputs'
  BY <1>1, <1>2, <1>3 DEF AfterInputs
<1>7. AllOutputs => AllOutputs'
  BY <1>1 DEF AllOutputs, TargetIn
<1>8. AtOutput => AtOutput'
  BY <1>1, <1>2 DEF AtOutput, TargetIn
<1>9. AtOutputScript => AtOutputScript'
  <2> SUFFICES ASSUME AtOutputScript
               PROVE  AtOutputScript'
    OBVIOUS
  <2> DEFINE a == OutputsAhead(host.tx, transactionCurrentInputOutput + 1) \o TailGroups(host.tx)
  <2>1. PICK unread \in Seq(Nat) : ScriptLeft(unread, a)
    BY DEF AtOutputScript
  <2>2. ScriptLeft(unread, a)'
    BY <1>1, <1>2, <2>1 DEF ScriptLeft
  <2>3. QED
    BY <1>1, <2>2 DEF AtOutputScript, TargetIn, ScriptLeft
<1>10. AtTail => AtTail'
  BY <1>1, <1>2, <1>7 DEF AtTail
<1>11. AtExtra => AtExtra'
  <2> SUFFICES ASSUME AtExtra
               PROVE  AtExtra'
    OBVIOUS
  <2>1. PICK unread \in Seq(Nat) : ScriptLeft(unread, <<>>)
    BY DEF AtExtra
  <2>2. ScriptLeft(unread, <<>>)'
    BY <1>1, <1>2, <2>1 DEF ScriptLeft
  <2>3. QED
    BY <1>7, <2>2 DEF AtExtra
<1>12. transactionState' = "NONE" /\ running' # "none" => Follows(host, block, Groups(host.tx, host.mode))'
  BY <1>1, <1>2 DEF FollowInv
<1>13. QED
  BY <1>1, <1>4, <1>5, <1>6, <1>7, <1>8, <1>9, <1>10, <1>11, <1>12, Zenon DEF FollowInv

\* A command that waits for more has read the whole block.
LEMMA WaitFollows ==
  ASSUME SentInv, Wait, Followed => block = <<>>
  PROVE  SentInv'
<1>1. /\ host' = host /\ block' = <<>> /\ running' = "none" /\ reply' = "ok" /\ parseMode' = parseMode
      /\ UNCHANGED <<transactionState, counters, transactionAmount, session, hashes, request>>
  BY DEF Wait
<1>2. Followed => FollowInv'
  <2> SUFFICES ASSUME Followed
               PROVE  FollowInv'
    OBVIOUS
  <2>1. FollowInv /\ block' = block
    BY <1>1 DEF SentInv
  <2> DEFINE h == host
             b == block
  <2>2. host' = h /\ block' = b /\ h.tx = host.tx /\ h.mode = host.mode
    BY <1>1, <2>1
  <2>3. \A a : Follows(host, block, a) => Follows(h, b, a)
    OBVIOUS
  <2>4. transactionState = "NONE" /\ running' # "none" => running # "none"
    BY <1>1
  <2> HIDE DEF h, b
  <2>5. QED
    BY <1>1, <2>1, <2>2, <2>3, <2>4, FollowKept
<1>3. OrderlyAccepted' /\ (Followed' => Followed)
  BY <1>1 DEF OrderlyAccepted, Followed
<1>4. QED
  BY <1>1, <1>2, <1>3 DEF SentInv

\* A transaction is refused if its blocks end anywhere, or its request cannot be met.
LEMMA FailFollows ==
  ASSUME SentInv, Fail, host.grouped => ~CanBeMet(host.tx)
  PROVE  SentInv'
<1>1. /\ host' = host /\ block' = <<>> /\ running' = "none" /\ parseMode' = parseMode
      /\ transactionState' = "NONE" /\ transactionTargetInput' = transactionTargetInput
  BY DEF Fail
<1>2. FollowInv'
  BY <1>1 DEF FollowInv
<1>3. OrderlyAccepted'
  BY <1>1 DEF OrderlyAccepted, CanBeMet
<1>4. QED
  BY <1>1, <1>2, <1>3 DEF SentInv

\* A turn that does not leave the loop.
LEMMA TurnFollows ==
  ASSUME SentInv, running # "none", UNCHANGED command, host' = host, Followed => FollowInv'
  PROVE  SentInv'
<1>1. running' = running /\ parseMode' = parseMode
  BY DEF command
<1>2. OrderlyAccepted' /\ (Followed' => Followed)
  BY <1>1 DEF OrderlyAccepted, Followed
<1>3. QED
  BY <1>1, <1>2 DEF SentInv

\* What is known of a turn of a transaction that arrives in order.
LEMMA TurnIsFed ==
  ASSUME SentInv, BlockInv, OneMode, Followed, running # "none"
  PROVE  Fed /\ FollowInv /\ (host.mode = "TRUSTED_INPUT" => host.grouped)
  BY DEF SentInv, OneMode, Followed, Fed

\* The turns that read the inputs.
LEMMA InputsFollowed ==
  ASSUME SentInv, BlockInv, OneMode, Followed, ParseInputs
  PROVE  SentInv'
<1>1. running # "none"
  BY ParseRuns DEF Parse
<1>2. Fed /\ FollowInv
  BY <1>1, TurnIsFed
<1>3. host.tx \in Txs /\ host.mode \in Modes /\ running = host.mode
  BY <1>2 DEF Fed
<1>4. CASE BeginTransaction
  <2>1. Follows(host, block, Groups(host.tx, host.mode))
    BY <1>1, <1>2, <1>4 DEF FollowInv, BeginTransaction, Turn
  <2>2. /\ transactionState' # "NONE" => transactionState' = "DEFINED_WAIT_INPUT" /\ AtInput' /\ host' = host
        /\ host.grouped => transactionState' # "NONE"
    BY <1>2, <1>4, <2>1, BeginFollows
  <2>3. \/ Fail
        \/ transactionState' = "DEFINED_WAIT_INPUT" /\ UNCHANGED command
    BY <1>4 DEF BeginTransaction
  <2>4. CASE Fail
    <3>1. ~host.grouped
      BY <2>2, <2>4 DEF Fail
    <3>2. QED
      BY <2>4, <3>1, FailFollows
  <2>5. CASE transactionState' = "DEFINED_WAIT_INPUT" /\ UNCHANGED command
    <3>1. FollowInv'
      BY <2>2, <2>5 DEF FollowInv
    <3>2. QED
      BY <1>1, <2>2, <2>5, <3>1, TurnFollows
  <2>6. QED
    BY <2>3, <2>4, <2>5
<1>5. CASE InputsDone
  <2>1. AtInput
    BY <1>2, <1>5 DEF FollowInv, InputsDone, Turn
  <2>2. transactionState' = "INPUT_HASHING_DONE" /\ AfterInputs' /\ host' = host
    BY <1>2, <1>5, <2>1, InputsDoneFollows
  <2>3. FollowInv'
    BY <2>2 DEF FollowInv
  <2>4. UNCHANGED command
    BY <1>5 DEF InputsDone
  <2>5. QED
    BY <1>1, <2>2, <2>3, <2>4, TurnFollows
<1>6. CASE WaitForInput \/ WaitForScript
  <2>1. Wait /\ block = <<>>
    BY <1>6 DEF WaitForInput, WaitForScript
  <2>2. QED
    BY <2>1, WaitFollows
<1>7. CASE ReadInput
  <2>1. AtInput
    BY <1>2, <1>7 DEF FollowInv, ReadInput, Turn
  <2>2. transactionState' = "INPUT_SCRIPT" /\ AtScript' /\ host' = host
    BY <1>2, <1>7, <2>1, ReadInputFollows
  <2>3. FollowInv'
    BY <2>2 DEF FollowInv
  <2>4. UNCHANGED command
    BY <1>7 DEF ReadInput
  <2>5. QED
    BY <1>1, <2>2, <2>3, <2>4, TurnFollows
<1>8. CASE InputRejected
  <2>1. AtInput
    BY <1>2, <1>8 DEF FollowInv, InputRejected, Turn
  <2>2. host.grouped => ~CanBeMet(host.tx)
    BY <1>2, <1>8, <2>1, InputIsTaken
  <2>3. Fail
    BY <1>8 DEF InputRejected
  <2>4. QED
    BY <2>2, <2>3, FailFollows
<1>9. CASE ScriptBytes
  <2>1. AtScript /\ transactionState = "INPUT_SCRIPT"
    BY <1>2, <1>9 DEF FollowInv, ScriptBytes, Turn
  <2>2. transactionState' = transactionState /\ AtScript' /\ host' = host
    BY <1>2, <1>9, <2>1, ScriptBytesFollows
  <2>3. FollowInv'
    BY <2>1, <2>2 DEF FollowInv
  <2>4. UNCHANGED command
    BY <1>9 DEF ScriptBytes
  <2>5. QED
    BY <1>1, <2>2, <2>3, <2>4, TurnFollows
<1>10. CASE EndOfInput
  <2>1. AtScript
    BY <1>2, <1>10 DEF FollowInv, EndOfInput, Turn
  <2>2. /\ host' = host
        /\ transactionState' # "NONE" => transactionState' = "DEFINED_WAIT_INPUT" /\ AtInput'
        /\ host.grouped => transactionState' # "NONE"
    BY <1>2, <1>10, <2>1, EndOfInputFollows
  <2>3. \/ Fail
        \/ transactionState' = "DEFINED_WAIT_INPUT" /\ UNCHANGED command
    BY <1>10 DEF EndOfInput
  <2>4. CASE Fail
    <3>1. ~host.grouped
      BY <2>2, <2>4 DEF Fail
    <3>2. QED
      BY <2>4, <3>1, FailFollows
  <2>5. CASE transactionState' = "DEFINED_WAIT_INPUT" /\ UNCHANGED command
    <3>1. FollowInv'
      BY <2>2, <2>5 DEF FollowInv
    <3>2. QED
      BY <1>1, <2>2, <2>5, <3>1, TurnFollows
  <2>6. QED
    BY <2>3, <2>4, <2>5
<1>11. CASE PresignReady
  <2>1. AfterInputs
    BY <1>2, <1>11 DEF FollowInv, PresignReady, Turn
  <2>2. /\ transactionState' = "PRESIGN_READY" /\ host' = host /\ UNCHANGED command
        /\ UNCHANGED <<block, prefix, witness, transactionAmount, relaxed, consumeP2SH>>
    BY <1>11 DEF PresignReady, hashes, session
  <2>3. AfterInputs'
    BY <2>1, <2>2, Zenon DEF AfterInputs
  <2>4. FollowInv'
    BY <2>2, <2>3 DEF FollowInv
  <2>5. QED
    BY <1>1, <2>2, <2>4, TurnFollows
<1>12. CASE EndOfInputs
  <2>1. AfterInputs /\ parseMode = "SIGNATURE" /\ Wait
    BY <1>2, <1>12 DEF FollowInv, EndOfInputs, Turn, OneMode
  <2>2. host.mode = "SIGNATURE"
    BY <1>1, <1>3, <2>1 DEF OneMode
  <2>3. Follows(host, block, <<>>)
    BY <2>1, <2>2 DEF AfterInputs, Ending
  <2>4. block \in Seq(Nat)
    BY BlockIsNaturals
  <2>5. block = <<>>
    BY <1>3, <2>3, <2>4, NothingAhead
  <2>6. QED
    BY <2>1, <2>5, WaitFollows
<1>13. QED
  BY <1>4, <1>5, <1>6, <1>7, <1>8, <1>9, <1>10, <1>11, <1>12 DEF ParseInputs

\* The end of the transaction finds the output asked for, if there is one.
LEMMA EndFollows ==
  ASSUME SentInv, Followed, Reads, AllOutputs, EndOfTransaction
  PROVE  SentInv'
<1>1. /\ host' = host /\ block' = <<>> /\ running' = "none" /\ parseMode' = parseMode
      /\ transactionState' = "NONE" /\ transactionTargetInput' = transactionTargetInput
      /\ trustedInputProcessed => reply' = "ok"
  BY DEF EndOfTransaction, request
<1>2. FollowInv'
  BY <1>1 DEF FollowInv
<1>3. OrderlyAccepted'
  BY <1>1 DEF OrderlyAccepted, CanBeMet, AllOutputs, TargetIn, Reads
<1>4. QED
  BY <1>1, <1>2, <1>3 DEF SentInv

\* The turns that read the outputs, and what follows them.
LEMMA OutputsFollowed ==
  ASSUME SentInv, BlockInv, OneMode, transactionTargetInput \in Nat, Followed, ParseOutputs
  PROVE  SentInv'
<1>1. running # "none"
  BY ParseRuns DEF Parse
<1>2. Fed /\ FollowInv
  BY <1>1, TurnIsFed
<1>3. host.tx \in Txs /\ host.mode \in Modes /\ running = host.mode /\ parseMode = running
  BY <1>1, <1>2 DEF Fed, OneMode
<1>4. running = "TRUSTED_INPUT"
  BY <1>3 DEF OneMode, ParseOutputs, ReadOutputCount, OutputsDone, WaitForOutput, ReadOutput,
              ReadOutputScript, ReadLockTime, WaitForLockTime, ReadExtra, EndOfTransaction, Turn
<1>5. Reads
  BY <1>2, <1>3, <1>4 DEF Reads
<1>6. CASE Wait /\ block = <<>>
  BY <1>6, WaitFollows
<1>7. CASE ReadOutputCount /\ block # <<>>
  <2>1. AfterInputs
    BY <1>2, <1>7 DEF FollowInv, ReadOutputCount, Turn
  <2>2. transactionState' = "DEFINED_WAIT_OUTPUT" /\ AtOutput' /\ host' = host
    BY <1>5, <1>7, <2>1, OutputCountFollows
  <2>3. FollowInv'
    BY <2>2 DEF FollowInv
  <2>4. UNCHANGED command
    BY <1>7, <2>2 DEF ReadOutputCount, Fail
  <2>5. QED
    BY <1>1, <2>2, <2>3, <2>4, TurnFollows
<1>8. CASE OutputsDone
  <2>1. AtOutput
    BY <1>2, <1>8 DEF FollowInv, OutputsDone, Turn
  <2>2. transactionState' = "OUTPUT_HASHING_DONE" /\ AtTail' /\ host' = host
    BY <1>5, <1>8, <2>1, OutputsDoneFollows
  <2>3. FollowInv'
    BY <2>2 DEF FollowInv
  <2>4. UNCHANGED command
    BY <1>8 DEF OutputsDone
  <2>5. QED
    BY <1>1, <2>2, <2>3, <2>4, TurnFollows
<1>9. CASE ReadOutput
  <2>1. AtOutput
    BY <1>2, <1>9 DEF FollowInv, ReadOutput, Turn
  <2>2. transactionState' = "OUTPUT_SCRIPT" /\ AtOutputScript' /\ host' = host
    BY <1>5, <1>9, <2>1, ReadOutputFollows
  <2>3. FollowInv'
    BY <2>2 DEF FollowInv
  <2>4. UNCHANGED command
    BY <1>9, <2>2 DEF ReadOutput, Fail
  <2>5. QED
    BY <1>1, <2>2, <2>3, <2>4, TurnFollows
<1>10. CASE ReadOutputScript /\ block # <<>>
  <2>1. AtOutputScript /\ transactionState = "OUTPUT_SCRIPT"
    BY <1>2, <1>10 DEF FollowInv, ReadOutputScript, Turn
  <2>2. /\ host' = host
        /\ \/ transactionState' = transactionState /\ AtOutputScript'
           \/ transactionState' = "DEFINED_WAIT_OUTPUT" /\ AtOutput'
    BY <1>5, <1>10, <2>1, OutputScriptFollows
  <2>3. FollowInv'
    BY <2>1, <2>2 DEF FollowInv
  <2>4. UNCHANGED command
    BY <1>10 DEF ReadOutputScript
  <2>5. QED
    BY <1>1, <2>2, <2>3, <2>4, TurnFollows
<1>11. CASE ReadLockTime
  <2>1. AtTail
    BY <1>2, <1>11 DEF FollowInv, ReadLockTime, Turn
  <2>2. /\ host' = host /\ AllOutputs'
        /\ \/ transactionState' = "PARSED"
           \/ transactionState' = "PROCESS_EXTRA" /\ AtExtra'
    BY <1>5, <1>11, <2>1, LockTimeFollows
  <2>3. FollowInv'
    BY <2>2 DEF FollowInv
  <2>4. UNCHANGED command
    BY <1>11, <2>2 DEF ReadLockTime, Fail
  <2>5. QED
    BY <1>1, <2>2, <2>3, <2>4, TurnFollows
<1>12. CASE ReadExtra /\ (block # <<>> \/ scriptRemaining = 0)
  <2>1. AtExtra /\ transactionState = "PROCESS_EXTRA"
    BY <1>2, <1>12 DEF FollowInv, ReadExtra, Turn
  <2>2. /\ host' = host /\ AllOutputs'
        /\ \/ transactionState' = transactionState /\ AtExtra'
           \/ transactionState' = "PARSED"
    BY <1>5, <1>12, <2>1, ExtraFollows
  <2>3. FollowInv'
    BY <2>1, <2>2 DEF FollowInv
  <2>4. UNCHANGED command
    BY <1>12 DEF ReadExtra
  <2>5. QED
    BY <1>1, <2>2, <2>3, <2>4, TurnFollows
<1>13. CASE EndOfTransaction
  <2>1. AllOutputs
    BY <1>2, <1>13 DEF FollowInv, EndOfTransaction, Turn
  <2>2. QED
    BY <1>5, <1>13, <2>1, EndFollows
<1>14. ReadOutputCount /\ block = <<>> => Wait
  <2>1. ~VarintReadable(<<>>)
    BY DEF VarintReadable
  <2>2. QED
    BY <2>1 DEF ReadOutputCount
<1>15. QED
  BY <1>6, <1>7, <1>8, <1>9, <1>10, <1>11, <1>12, <1>13, <1>14
     DEF ParseOutputs, WaitForOutput, WaitForLockTime, ReadOutputScript, ReadExtra

\* A turn that leaves the loop leaves nothing to read.
LEMMA ParseEnds ==
  ASSUME Parse
  PROVE  running' = running \/ block' = <<>>
<1>1. Fail \/ Wait => block' = <<>>
  BY DEF Fail, Wait
<1>2. ParseInputs => running' = running \/ block' = <<>>
  BY <1>1 DEF ParseInputs, BeginTransaction, InputsDone, WaitForInput, ReadInput, InputRejected,
              WaitForScript, ScriptBytes, EndOfInput, PresignReady, EndOfInputs, command
<1>3. ParseOutputs => running' = running \/ block' = <<>>
  BY <1>1 DEF ParseOutputs, ReadOutputCount, OutputsDone, WaitForOutput, ReadOutput, ReadOutputScript,
              ReadLockTime, WaitForLockTime, ReadExtra, EndOfTransaction, command
<1>4. QED
  BY <1>2, <1>3 DEF Parse

\* The turns follow the host, if it sends in order; else nothing is claimed.
LEMMA ParseFollows ==
  ASSUME SentInv, BlockInv, OneMode, transactionTargetInput \in Nat, Parse
  PROVE  SentInv'
<1>1. CASE Followed
  BY <1>1, InputsFollowed, OutputsFollowed DEF Parse
<1>2. CASE ~Followed
  <2>1. host' = host
    BY InputsProgress, OutputsProgress DEF Parse
  <2>2. /\ running # "none" /\ parseMode' = parseMode
        /\ running' = running \/ block' = <<>>
    BY ParseRuns, ParseEnds
  <2>3. ~Followed' /\ ~host.grouped
    BY <1>2, <2>1 DEF Followed, SentInv
  <2>4. OrderlyAccepted'
    BY <2>1, <2>3 DEF OrderlyAccepted
  <2>5. QED
    BY <2>1, <2>2, <2>3, <2>4 DEF SentInv
<1>3. QED
  BY <1>1, <1>2

-----------------------------------------------------------------------------
\* What the host sends.

\* A transaction that starts is all ahead.
LEMMA AllAhead ==
  ASSUME NEW h, h.tx \in Txs, h.mode \in Modes, h.sent \in 0 .. Len(Stream[h.tx][h.mode]),
         NEW b, b = First(h.sent, Stream[h.tx][h.mode])
  PROVE  Follows(h, b, Groups(h.tx, h.mode))
<1> DEFINE G == Groups(h.tx, h.mode)
           s == Stream[h.tx][h.mode]
           behind == <<>>
<1>1. s \in Seq(Nat)
  BY StreamIs
<1>2. G \in GroupLists
  <2> DEFINE g == <<<<h.tx.version, Varint(Len(h.tx.inputs), FALSE)>>>>
             a == InputsAhead(h.tx, h.mode, 0) \o Ending(h.tx, h.mode)
  <2>1. G = g \o a
    BY GroupsAre
  <2>2. g \in GroupLists
    BY GroupsAre, BytesOfFew
  <2>3. a \in GroupLists
    BY GroupsAre
  <2> HIDE DEF G, g, a
  <2>4. g \o a \in GroupLists
    BY <2>2, <2>3, GroupsTogether
  <2>5. QED
    BY <2>1, <2>4
<1>3. First(h.sent, s) \in Seq(Nat)
  BY <1>1, Parts
<1> DEFINE f == First(h.sent, s)
<1> HIDE DEF f
<1>4. f \in Seq(Nat) /\ b = f
  BY <1>3 DEF f
<1>5. behind \in GroupLists /\ BytesOf(behind) = <<>>
  BY BytesOfFew
<1>6. <<>> \o f = f
  BY <1>4, ConcatEmptySeq
<1>7. BytesOf(behind) \o b = f
  BY <1>4, <1>5, <1>6
<1>8. behind \o G = G
  <2> HIDE DEF G
  <2>1. <<>> \o G = G
    BY <1>2, GroupsTogether
  <2>2. QED
    BY <2>1
<1>9. QED
  BY <1>5, <1>7, <1>8 DEF Follows, f

\* More bytes of it are what the device has still to read.
LEMMA MoreComes ==
  ASSUME NEW h, h.tx \in Txs, h.mode \in Modes, NEW a, Follows(h, <<>>, a),
         NEW g, g.tx = h.tx, g.mode = h.mode, NEW n, g.sent = n,
         n \in h.sent + 1 .. Len(Stream[h.tx][h.mode])
  PROVE  Follows(g, SubSeq(Stream[h.tx][h.mode], h.sent + 1, n), a)
<1> DEFINE s == Stream[h.tx][h.mode]
           k == h.sent
           b == SubSeq(s, k + 1, n)
<1>1. s \in Seq(Nat) /\ Len(s) \in Nat
  BY StreamIs, LenProperties
<1>2. k \in 0 .. Len(s)
  BY DEF Follows
<1>3. PICK behind \in GroupLists :
        /\ behind \o a = Groups(h.tx, h.mode)
        /\ BytesOf(behind) \o <<>> = First(k, s)
  BY DEF Follows
<1> DEFINE x == BytesOf(behind)
<1>4. x \in Seq(Nat)
  BY BytesOfBoth
<1> HIDE DEF x, s, k
<1>5. x = First(k, s)
  <2>1. x \o <<>> = x
    BY <1>4, ConcatEmptySeq
  <2>2. QED
    BY <1>3, <2>1 DEF x
<1>6. n \in k + 1 .. Len(s)
  BY DEF k, s
<1>7. n \in 0 .. Len(s) /\ k \in 1 - 1 .. Len(s) /\ n \in k .. Len(s) /\ 1 \in 1 .. Len(s) + 1
  BY <1>1, <1>2, <1>6
<1>8. First(k, s) = SubSeq(s, 1, k) /\ First(n, s) = SubSeq(s, 1, n)
  BY <1>1, <1>2, <1>7 DEF First, Slice
<1>9. SubSeq(s, 1, k) \o SubSeq(s, k + 1, n) = SubSeq(s, 1, n)
  BY <1>1, <1>7, ConcatAdjacentSubSeq
<1>10. x \o b = First(n, s)
  BY <1>5, <1>8, <1>9
<1>11. QED
  BY <1>3, <1>7, <1>10 DEF Follows, x, s, k

\* The history of the host when a block is sent in order, or out of order.
LEMMA HostSays ==
  ASSUME SendingInv, NEW a, NEW b, NEW n
  PROVE  /\ LET h == [host EXCEPT !.sent = n, !.orderly = a, !.grouped = b]
            IN  /\ h.tx = host.tx /\ h.mode = host.mode /\ h.sent = n
                /\ h.orderly = a /\ h.grouped = b
         /\ Disturbed.orderly = FALSE /\ Disturbed.grouped = FALSE
         /\ [Disturbed EXCEPT !.sent = n].orderly = FALSE
         /\ [Disturbed EXCEPT !.sent = n].grouped = FALSE
  BY DEF SendingInv, Disturbed

\* Nothing is claimed of what comes out of order.
LEMMA OutOfOrder ==
  ASSUME SentInv, UNCHANGED <<running, block>> \/ running' # "none",
         host'.orderly = FALSE, host'.grouped = FALSE
  PROVE  SentInv'
<1>1. ~Followed' /\ OrderlyAccepted'
  BY DEF Followed, OrderlyAccepted
<1>2. running' = "none" => block' = <<>>
  BY DEF SentInv
<1>3. QED
  BY <1>1, <1>2 DEF SentInv

\* The first block of a transaction.
LEMMA FirstFollows ==
  ASSUME NEW t \in Txs, NEW mode \in Modes, NEW n, SendFrom(t, mode, n, TRUE),
         transactionState' = "NONE", parseMode' = mode, running' = mode
  PROVE  SentInv'
<1>1. mode # "none"
  BY DEF Modes
<1> DEFINE grouped == TRUE /\ n \in GroupCuts[t][mode]
<1>2. /\ host' = [tx |-> t, mode |-> mode, sent |-> n, orderly |-> TRUE, grouped |-> grouped,
                  begun |-> host.begun + 1]
      /\ n \in 0 .. Len(Stream[t][mode])
      /\ block' = First(n, Stream[t][mode])
  BY DEF SendFrom
<1> DEFINE h == host'
<1>3. h.tx = t /\ h.mode = mode /\ h.sent = n /\ h.orderly = TRUE /\ h.grouped = grouped
  <2> HIDE DEF grouped
  <2>1. QED
    BY <1>2
<1>4. Follows(h, block', Groups(h.tx, h.mode))
  <2> DEFINE b == block'
  <2>1. h.tx \in Txs /\ h.mode \in Modes /\ h.sent \in 0 .. Len(Stream[h.tx][h.mode])
        /\ b = First(h.sent, Stream[h.tx][h.mode])
    BY <1>2, <1>3
  <2> HIDE DEF h, b
  <2>2. Follows(h, b, Groups(h.tx, h.mode))
    BY <2>1, AllAhead
  <2>3. QED
    BY <2>2 DEF b
<1>5. FollowInv'
  BY <1>4 DEF FollowInv
<1>6. OrderlyAccepted'
  BY <1>1 DEF OrderlyAccepted
<1>7. h.grouped => h.sent \in GroupCuts[h.tx][h.mode]
  BY <1>3
<1>8. QED
  BY <1>1, <1>3, <1>5, <1>6, <1>7 DEF SentInv

\* The next block of a transaction.
LEMMA NextFollows ==
  ASSUME RestartsWithFirst, SentInv, SendingInv, NEW mode \in Modes, NEW n, NextBlock(mode, n)
  PROVE  SentInv'
<1> DEFINE a == host.orderly /\ host.mode = mode
           b == host.grouped /\ host.mode = mode /\ n \in GroupCuts[host.tx][mode]
           g == [host EXCEPT !.sent = n, !.orderly = a, !.grouped = b]
<1>1. host' = g
  BY DEF NextBlock
<1>2. g.tx = host.tx /\ g.mode = host.mode /\ g.sent = n /\ g.orderly = a /\ g.grouped = b
  <2> HIDE DEF a, b
  <2>1. QED
    BY HostSays
<1>3. /\ running = "none" /\ running' = mode /\ mode # "none" /\ parseMode' = parseMode
      /\ parseMode = mode /\ transactionState # "NONE"
      /\ UNCHANGED <<transactionState, counters, transactionAmount, session, hashes, request>>
  BY DEF NextBlock, NextRuns, Listening, ModeBound, Modes
<1>4. /\ n \in host.sent + 1 .. Len(Stream[host.tx][host.mode])
      /\ block' = SubSeq(Stream[host.tx][host.mode], host.sent + 1, n)
  BY DEF NextBlock, SendUpTo
<1> HIDE DEF g
<1>5. Followed' => FollowInv'
  <2> SUFFICES ASSUME Followed'
               PROVE  FollowInv'
    OBVIOUS
  <2>1. Followed
    BY <1>1, <1>2 DEF Followed
  <2>2. FollowInv /\ block = <<>> /\ host.tx \in Txs /\ host.mode \in Modes
    BY <1>3, <2>1 DEF SentInv, Followed
  <2> DEFINE c == SubSeq(Stream[host.tx][host.mode], host.sent + 1, n)
  <2>3. \A ahead : Follows(host, block, ahead) => Follows(g, c, ahead)
    <3> SUFFICES ASSUME NEW ahead, Follows(host, block, ahead)
                 PROVE  Follows(g, c, ahead)
      OBVIOUS
    <3>1. Follows(host, <<>>, ahead)
      BY <2>2
    <3>2. QED
      BY <1>2, <1>4, <2>2, <3>1, MoreComes
  <2>4. block' = c
    BY <1>4
  <2> HIDE DEF c
  <2>5. QED
    BY <1>1, <1>2, <1>3, <2>2, <2>3, <2>4, FollowKept
<1>6. OrderlyAccepted'
  BY <1>3 DEF OrderlyAccepted
<1> DEFINE h == host'
<1>7. /\ h.grouped => h.orderly
      /\ h.orderly => h.tx \in Txs /\ h.mode \in Modes /\ parseMode' = h.mode
      /\ h.grouped => h.sent \in GroupCuts[h.tx][h.mode]
  BY <1>1, <1>2, <1>3 DEF SentInv
<1>8. QED
  BY <1>3, <1>5, <1>6, <1>7 DEF SentInv

\* What comes from the host, and a reset.
LEMMA ReceiveFollows ==
  ASSUME RestartsWithFirst, SentInv, SendingInv, Receive \/ IoReset
  PROVE  SentInv'
<1>1. ASSUME NEW t \in Txs, NEW n \in Positions, NEW target \in Targets,
             TrustedInputFirst(t, target, n)
      PROVE  SentInv'
  BY <1>1, FirstFollows DEF TrustedInputFirst, Modes
<1>2. ASSUME NEW t \in Txs, NEW n \in Positions, NEW new \in BOOLEAN, StartFirst(t, new, n)
      PROVE  SentInv'
  BY <1>2, FirstFollows DEF StartFirst, Modes
<1>3. ASSUME NEW mode \in Modes, NEW t \in Txs, NEW n \in Positions, NextAsFirst(mode, t, n)
      PROVE  SentInv'
  <2> DEFINE grouped == FALSE /\ n \in GroupCuts[t][mode]
  <2>1. /\ host' = [tx |-> t, mode |-> mode, sent |-> n, orderly |-> FALSE, grouped |-> grouped,
                    begun |-> host.begun + 1]
        /\ running' = mode /\ mode # "none"
    BY <1>3 DEF NextAsFirst, SendFrom, NextRuns, Modes
  <2>2. grouped = FALSE
    OBVIOUS
  <2> HIDE DEF grouped
  <2>3. host'.orderly = FALSE /\ host'.grouped = FALSE
    BY <2>1, <2>2
  <2>4. QED
    BY <2>1, <2>3, OutOfOrder
<1>4. ASSUME host' = Disturbed, UNCHANGED <<running, block>>
      PROVE  SentInv'
  BY <1>4, HostSays, OutOfOrder
<1>5. ASSUME NEW n \in Positions, BlockLost(n)
      PROVE  SentInv'
  <2>1. host' = [Disturbed EXCEPT !.sent = n] /\ UNCHANGED <<running, block>>
    BY <1>5 DEF BlockLost, command
  <2>2. host'.orderly = FALSE /\ host'.grouped = FALSE
    BY <2>1, HostSays
  <2>3. QED
    BY <2>1, <2>2, OutOfOrder
<1>6. ASSUME NEW n \in Positions, NEW mode \in Modes, NextBlock(mode, n)
      PROVE  SentInv'
  BY <1>6, NextFollows
<1>7. ASSUME NEW target \in Targets, TrustedInputFirstRefused(target)
      PROVE  SentInv'
  BY <1>4, <1>7 DEF TrustedInputFirstRefused
<1>8. CASE StartFirstRefused
  BY <1>4, <1>8 DEF StartFirstRefused
<1>9. ASSUME NEW mode \in Modes, NextRefused(mode)
      PROVE  SentInv'
  BY <1>4, <1>9 DEF NextRefused
<1>10. CASE IoReset
  BY <1>4, <1>10 DEF IoReset
<1>11. QED
  BY <1>1, <1>2, <1>3, <1>5, <1>6, <1>7, <1>8, <1>9, <1>10 DEF Receive

\* The device follows the host, for one that starts every request with a FIRST block.
LEMMA SentInductive ==
  ASSUME RestartsWithFirst, Vouched, SentInv, [Next]_vars
  PROVE  SentInv'
<1>1. CASE UNCHANGED vars
  <2>1. /\ host' = host /\ block' = block /\ running' = running /\ parseMode' = parseMode
        /\ reply' = reply /\ transactionTargetInput' = transactionTargetInput
        /\ UNCHANGED <<transactionState, counters, transactionAmount, session, hashes, request>>
    BY <1>1 DEF vars, command, request
  <2>2. Followed' => FollowInv'
    <3> SUFFICES ASSUME Followed
                 PROVE  FollowInv'
      BY <2>1 DEF Followed
    <3> DEFINE h == host
               b == block
    <3>1. FollowInv /\ host' = h /\ block' = b /\ h.tx = host.tx /\ h.mode = host.mode
      BY <2>1 DEF SentInv
    <3>2. \A a : Follows(host, block, a) => Follows(h, b, a)
      OBVIOUS
    <3>3. transactionState = "NONE" /\ running' # "none" => running # "none"
      BY <2>1
    <3> HIDE DEF h, b
    <3>4. QED
      BY <2>1, <3>1, <3>2, <3>3, FollowKept
  <2>3. OrderlyAccepted'
    BY <2>1 DEF SentInv, OrderlyAccepted, CanBeMet
  <2>4. QED
    BY <2>1, <2>2, <2>3 DEF SentInv
<1>2. CASE Receive \/ IoReset
  BY <1>2, ReceiveFollows DEF Vouched, LoopInv
<1>3. CASE Parse
  BY <1>3, ParseFollows DEF Vouched, LoopInv, TargetInv
<1>4. QED
  BY <1>1, <1>2, <1>3 DEF Next

\* The invariant, under the same hypothesis.
LEMMA SentInvariance ==
  ASSUME RestartsWithFirst
  PROVE  Spec => [](Vouched /\ SentInv)
<1>1. Init => SentInv
  BY DEF Init, SentInv, Followed, OrderlyAccepted
<1>2. Vouched /\ SentInv /\ [Next]_vars => SentInv'
  BY SentInductive
<1>3. QED
  BY <1>1, <1>2, VouchedInvariance, PTL DEF Spec

\* When a transaction that arrived in order has its inputs read, it was read
\* as it was sent: the prefix and the witness hash cover exactly its inputs,
\* the sum is that of their amounts, an input without an amount is remembered
\* and consumeP2SH tells how the last script ended.  This holds wherever the
\* blocks end, after any number of lost blocks, refused commands, abandoned
\* transactions and resets, for transactions of any length.
THEOREM TheInputsAreReadAsSent ==
  ASSUME RestartsWithFirst
  PROVE  Spec => []InputsAsSent
<1>1. Vouched /\ SentInv => InputsAsSent
  <2> SUFFICES ASSUME Vouched, SentInv, transactionState = "PRESIGN_READY", host.orderly
               PROVE  InputsAsSent
    BY DEF InputsAsSent
  <2> DEFINE t == host.tx
             n == Len(t.inputs)
  <2>1. t \in Txs /\ host.mode = "SIGNATURE"
    BY DEF Vouched, OneMode, SentInv
  <2>2. AfterInputs
    BY <2>1 DEF SentInv, Followed, FollowInv
  <2>3. n \in Nat /\ DOMAIN t.inputs = 1 .. n
    BY <2>1, ListsAre
  <2>4. prefix = PrefixInputs(t, HashedTree) /\ witness = WitnessInputs(t)
    <3>1. prefix = PrefixUpto(t, n) /\ witness = WitnessUpto(t, n)
      BY <2>1, <2>2 DEF AfterInputs, InputsHash
    <3>2. PrefixUpto(t, n) = PrefixInputs(t, HashedTree) /\ WitnessUpto(t, n) = WitnessInputs(t)
      BY <2>1, HashesUpto
    <3>3. QED
      BY <3>1, <3>2
  <2>5. transactionAmount = TrustedAmounts(t)
    <3>1. transactionAmount \in Nat /\ transactionAmount + AmountsAfter(t, n) = TrustedAmounts(t)
      BY <2>1, <2>2 DEF AfterInputs, InputsSum
    <3>2. AmountsAfter(t, n) = 0
      BY <2>1, AmountsAre
    <3>3. QED
      BY <3>1, <3>2
  <2>6. (\E i \in 1 .. n : t.inputs[i].trusted = 0) => relaxed
    BY <2>1, <2>2 DEF AfterInputs, RelaxedUpto
  <2>7. ASSUME NEW i \in 1 .. n, LastScript(t, i)
        PROVE  consumeP2SH = (Last(t.inputs[i].script) = OP_CHECKMULTISIG)
    <3>1. ConsumeUpto(host, n, consumeP2SH)
      BY <2>2 DEF AfterInputs
    <3>2. /\ t.inputs[i].script # <<>>
          /\ \A j \in 1 .. n : j > i => t.inputs[j].script = <<>>
      BY <2>3, <2>7 DEF LastScript
    <3>3. QED
      BY <3>1, <3>2 DEF ConsumeUpto
  <2>8. QED
    BY <2>3, <2>4, <2>5, <2>6, <2>7, Zenon DEF InputsAsSent
<1>2. QED
  BY <1>1, SentInvariance, PTL

\* A transaction sent in order, in blocks that end where the host may end them,
\* is never refused if its request can be met: the sum of its inputs can be
\* written down, or the output asked for is there.
THEOREM TransactionsInOrderAreTaken ==
  ASSUME RestartsWithFirst
  PROVE  Spec => []OrderlyAccepted
<1>1. SentInv => OrderlyAccepted
  BY DEF SentInv
<1>2. QED
  BY <1>1, SentInvariance, PTL
=============================================================================
