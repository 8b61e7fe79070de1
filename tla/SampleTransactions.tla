------------------------- MODULE SampleTransactions -------------------------
(***************************************************************************)
(* Small transactions for SignTx and SigningHost.  Amounts stay below 16,  *)
(* the AmountSpan of the instances.  In six units of currentOutput, or in  *)
(* five, a transaction of two outputs fits whole, one of three only if its *)
(* outputs are dropped as they are accepted.                               *)
(***************************************************************************)

In(amount) == [amount |-> amount, trusted |-> TRUE]
Untrusted == [amount |-> 3, trusted |-> FALSE]
Out(script, amount) == [script |-> script, amount |-> amount]
Tx(inputs, outputs) == [inputs |-> inputs, outputs |-> outputs, multisig |-> FALSE]

\* One payment with its change: one screen, or output by output.
PayWithChange == Tx(<<In(5)>>, <<Out("other", 2), Out("usual", 2)>>)
\* An unrelated payment from a multisig script: never reviewed on one screen.
MultiSig == [Tx(<<In(5)>>, <<Out("other", 3)>>) EXCEPT !.multisig = TRUE]
\* Two inputs; change first, then an OP_RETURN, then a payment.
ChangeFirst == Tx(<<In(3), In(4)>>, <<Out("usual", 1), Out("nulldata", 0), Out("unusual", 2)>>)
\* Outputs above the inputs.
Overspent == Tx(<<In(2)>>, <<Out("usual", 3)>>)
\* Two outputs to the change address.
TwoChanges == Tx(<<In(6)>>, <<Out("usual", 1), Out("usual", 1)>>)
\* An output no screen can show, behind one that can be.
BadSecond == Tx(<<In(6)>>, <<Out("other", 1), Out("unknown", 1)>>)
\* The same, behind two of them.
BadThird == Tx(<<In(6)>>, <<Out("other", 1), Out("other", 1), Out("unknown", 1)>>)
\* No input amount known.
Relaxed == Tx(<<Untrusted, In(2)>>, <<Out("other", 1), Out("unusual", 2)>>)
\* No output at all: everything is fees.
NoOutput == Tx(<<In(2)>>, <<>>)
\* Input amounts that overflow the sum: the parse fails on the second input.
Overflowing == Tx(<<In(9), In(8)>>, <<>>)
\* Outputs above the inputs, by so much that their sum wraps to 2.
Wrapping == Tx(<<In(5)>>, <<Out("other", 9), Out("usual", 9)>>)
\* What bytes out of place spell: amounts of zero keep the instances small.
Misplaced == Tx(<<In(0)>>, <<Out("other", 0), Out("usual", 0)>>)

SessionTxs == {PayWithChange, MultiSig}
OutputTxs == {ChangeFirst, Relaxed}
RefusedTxs == {TwoChanges, NoOutput, Overflowing}
LiveTxs == {BadSecond, Overspent}
WrapTxs == {Wrapping, Overspent}
SpelledTxs == {Misplaced}
=============================================================================
