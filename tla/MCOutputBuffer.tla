---------------------------- MODULE MCOutputBuffer ----------------------------
(***************************************************************************)
(* Outputs whose scripts have one byte; the header is the amount, with     *)
(* zeros up to HeaderBytes.                                                *)
(***************************************************************************)
EXTENDS OutputBuffer

Pay == <<118>>
Mine == <<119>>
Own == <<120>>
Payable == {Pay, Mine, Own}
OwnScripts == {Mine, Own}

Output(amount, script) ==
  <<amount>> \o [i \in 1..HeaderBytes - 1 |-> 0] \o <<Len(script)>> \o script

\* A payment and its change; one output, a payment or the change.
PayWithChange == <<2>> \o Output(5, Pay) \o Output(3, Mine)
OneOutput == <<1>> \o Output(3, Mine)
\* An OP_RETURN between a payment and the change, the number on three bytes.
WithData == <<253, 3, 0>> \o Output(5, Mine) \o Output(0, <<106, 9>>) \o Output(4, Pay)
\* Two payments to others and one to each of two own addresses.
TwoPayments == <<4>> \o Output(5, Pay) \o Output(1, Mine) \o Output(2, Own) \o Output(0, Pay)
\* Two outputs to change addresses, and an output that cannot be shown.
TwoChanges == <<3>> \o Output(1, Mine) \o Output(2, Pay) \o Output(3, Mine)
BadLast == <<2>> \o Output(5, Pay) \o Output(3, <<9>>)
\* A script with a size on three bytes.
LongSize == <<1, 5>> \o [i \in 1..HeaderBytes - 1 |-> 0] \o <<253, 1, 0>> \o Pay
\* An OP_RETURN alone.
DataOnly == <<1>> \o Output(0, <<106>>)

LongStreams == {PayWithChange, TwoPayments, WithData, TwoChanges, BadLast, LongSize}
ShortStreams == {OneOutput, DataOnly}
AllStreams == LongStreams \cup ShortStreams

\* A host keeps to the order of its commands and to one or two long streams, or
\* mixes the short streams and sends commands in any order.
VARIABLE batch

Batches == {ShortStreams, {PayWithChange, LongSize}} \cup {{s} : s \in LongStreams}

MCInit == batch \in Batches /\ Init /\ stream \in batch
MCNext ==
  /\ UNCHANGED batch
  /\ Next
  /\ stream' \in batch
  /\ batch # ShortStreams => disorder' = {}
MCSpec == MCInit /\ [][MCNext]_<<vars, batch>>
=============================================================================
