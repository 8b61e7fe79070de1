-------------------------- MODULE TransactionFormat --------------------------
(***************************************************************************)
(* A Decred transaction as a host sends it to the device, and what the two *)
(* hashes of a transaction cover.  Nothing here is code of the device,     *)
(* except the variable-length integers both sides have to agree on: it is  *)
(* the reference the parser of the device is compared with.                *)
(*                                                                         *)
(* A byte is a number.  The elements of fixed length keep their order but  *)
(* not their lengths, which are given by Width: two bytes are enough for a *)
(* block to end inside an element.                                         *)
(***************************************************************************)
EXTENDS Integers, Sequences, SequencesExt

CONSTANTS
  Width,          \* bytes of each element of fixed length
  TrustedInputs   \* the trusted inputs issued earlier: a code, what it stands for

WidthAssumption ==
  /\ Width \in [version : Nat \ {0}, outpoint : Nat \ {0}, tree : Nat \ {0},
                sequence : Nat \ {0}, amount : Nat \ {0}, scriptVersion : Nat \ {0},
                lockTime : Nat \ {0}, trusted : Nat \ {0}]
  /\ \A c \in DOMAIN TrustedInputs :
       TrustedInputs[c] \in [outpoint : Seq(Nat), amount : Nat]

ASSUME WidthAssumption

Bytes == 0 .. 255

\* Bytes a to b, as far as they are there.
Slice(a, b, s) == SubSeq(s, a, IF b <= Len(s) THEN b ELSE Len(s))
First(n, s) == Slice(1, n, s)
Rest(n, s) == SubSeq(s, n + 1, Len(s))

LittleEndian(bytes) == FoldRight(LAMBDA b, acc : b + 256 * acc, bytes, 0)

-----------------------------------------------------------------------------
\* Variable-length integers, at the head of a sequence of bytes.

VarintBytes(s) == IF s[1] < 253 THEN 1 ELSE IF s[1] = 253 THEN 3 ELSE 5

VarintValue(s) ==
  IF s[1] < 253 THEN s[1] ELSE LittleEndian(Slice(2, VarintBytes(s), s))

\* 64-bit numbers (marker 255) are rejected.
VarintReadable(s) == s # <<>> /\ s[1] # 255 /\ Len(s) >= VarintBytes(s)

Varint(n, wide) == IF wide THEN <<253, n, 0>> ELSE <<n>>

-----------------------------------------------------------------------------
\* The serialization type is in the upper half of the version.

SetBits(version, mask) ==
  LET last == Len(version)
      b == version[last]
  IN  [version EXCEPT ![last] = IF mask = 1 THEN b + 1 - (b % 2) ELSE b + 3 - (b % 4)]

PrefixOnly == 1
WitnessOnly == 3

-----------------------------------------------------------------------------
\* A transaction: its elements have the lengths of the format, and Varint can
\* tell how many inputs, outputs and bytes of a script there are (bound).

Element(name) == [1 .. Width[name] -> Bytes]

Inputs == [outpoint : Element("outpoint"), tree : Element("tree"), sequence : Element("sequence"),
           trusted : {0} \cup (DOMAIN TrustedInputs \cap Bytes), script : Seq(Bytes)]
Outputs == [amount : Element("amount"), scriptVersion : Element("scriptVersion"), script : Seq(Bytes)]

CanBeTold(list, wide) == Len(list) < IF wide THEN 256 ELSE 253

WellFormed(t) ==
  /\ t \in [version : Element("version"), inputs : Seq(Inputs), outputs : Seq(Outputs),
            lockTime : Element("lockTime"), extra : Seq(Bytes), wide : BOOLEAN]
  /\ CanBeTold(t.inputs, FALSE) /\ CanBeTold(t.outputs, FALSE) /\ CanBeTold(t.extra, FALSE)
  /\ \A i \in DOMAIN t.inputs : CanBeTold(t.inputs[i].script, t.wide)
  /\ \A i \in DOMAIN t.outputs : CanBeTold(t.outputs[i].script, t.wide)

-----------------------------------------------------------------------------
\* What a host sends: a sequence of groups of elements.  The device takes
\* the elements of a group out of one block.

ScriptGroups(script) == [i \in DOMAIN script |-> <<<<script[i]>>>>]

\* The device wants the last byte of the script of an input in one block with
\* the sequence.
InputScriptGroups(in) ==
  IF in.script # <<>>
    THEN ScriptGroups(Front(in.script)) \o <<<<<<Last(in.script)>>, in.sequence>>>>
    ELSE ScriptGroups(in.script) \o <<<<in.sequence>>>>

Outpoint(in) == IF in.trusted = 0 THEN in.outpoint ELSE TrustedInputs[in.trusted].outpoint

Filler(n) == [i \in 1 .. n |-> 0]

InputHead(in, mode) ==
  IF mode = "TRUSTED_INPUT" THEN <<Outpoint(in) \o in.tree>>
  ELSE IF in.trusted = 0 THEN <<<<0>> \o in.outpoint>>
  ELSE <<<<1, in.trusted>> \o Filler(Width.trusted - 1), in.tree>>

InputGroups(in, mode, wide) ==
  <<InputHead(in, mode) \o <<Varint(Len(in.script), wide)>>>>
    \o InputScriptGroups(in)

OutputGroups(out, wide) ==
  <<<<out.amount, out.scriptVersion, Varint(Len(out.script), wide)>>>> \o ScriptGroups(out.script)

TailGroups(t) ==
  <<<<t.lockTime>> \o IF t.extra = <<>> THEN <<>> ELSE <<<<Len(t.extra)>>>>>>
    \o ScriptGroups(t.extra)

Groups(t, mode) ==
  <<<<t.version, Varint(Len(t.inputs), FALSE)>>>>
    \o FlattenSeq([i \in DOMAIN t.inputs |-> InputGroups(t.inputs[i], mode, t.wide)])
    \o IF mode = "SIGNATURE" THEN <<>>
       ELSE <<<<Varint(Len(t.outputs), FALSE)>>>>
              \o FlattenSeq([i \in DOMAIN t.outputs |-> OutputGroups(t.outputs[i], t.wide)])
              \o TailGroups(t)

\* The bytes of groups of elements.
BytesOf(groups) == FlattenSeq(FlattenSeq(groups))

Serialized(t, mode) == BytesOf(Groups(t, mode))

\* The places where a block may end.
GroupEnds(t, mode) ==
  LET groups == Groups(t, mode)
  IN  {Len(BytesOf(First(i, groups))) : i \in DOMAIN groups}

-----------------------------------------------------------------------------
\* What the hashes cover.

\* The prefix of the inputs, with or without the tree of each.
PrefixInputs(t, Tree(_)) ==
  SetBits(t.version, PrefixOnly) \o Varint(Len(t.inputs), FALSE)
    \o FlattenSeq([i \in DOMAIN t.inputs |->
         Outpoint(t.inputs[i]) \o Tree(t.inputs[i]) \o t.inputs[i].sequence])

WitnessInputs(t) ==
  SetBits(t.version, WitnessOnly) \o Varint(Len(t.inputs), FALSE)
    \o FlattenSeq([i \in DOMAIN t.inputs |->
         Varint(Len(t.inputs[i].script), t.wide) \o t.inputs[i].script])

-----------------------------------------------------------------------------
\* Reading the outputs back from the content of a prefix hash.

OutputsAt(content) ==
  LET inputs == Rest(Width.version, content)
      each == Width.outpoint + Width.tree + Width.sequence
  IN  Width.version + VarintBytes(inputs) + each * VarintValue(inputs)

\* Where output i starts, the first one being output 0.
OutputAt(content, i) ==
  LET outputs == Rest(OutputsAt(content), content)
      start[k \in Nat] ==
        IF k = 0 THEN OutputsAt(content) + VarintBytes(outputs)
        ELSE LET fixed == start[k - 1] + Width.amount + Width.scriptVersion
                 length == Rest(fixed, content)
             IN  fixed + VarintBytes(length) + VarintValue(length)
  IN  start[i]

\* Output i is there, with this amount.
OutputPays(content, i, amount) ==
  /\ OutputsAt(content) < Len(content)
  /\ i < VarintValue(Rest(OutputsAt(content), content))
  /\ LET paid == First(Width.amount, Rest(OutputAt(content, i), content))
     IN  LittleEndian(paid) = amount
=============================================================================
