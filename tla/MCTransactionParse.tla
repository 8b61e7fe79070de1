-------------------------- MODULE MCTransactionParse --------------------------
(***************************************************************************)
(* Small transactions for TransactionParse: elements of one or two bytes,  *)
(* scripts of none to three.                                               *)
(***************************************************************************)
EXTENDS TransactionParse

MCWidth == [version |-> 2, outpoint |-> 2, tree |-> 1, sequence |-> 2, amount |-> 2,
            scriptVersion |-> 1, lockTime |-> 1, trusted |-> 2]
MCTrustedInputs == [c \in {7, 8} |-> [outpoint |-> <<20, c>>, amount |-> IF c = 7 THEN 40000 ELSE 600]]

In(trusted, script) ==
  [outpoint |-> <<21, 22>>, tree |-> <<1>>, trusted |-> trusted, script |-> script,
   sequence |-> <<30, 31>>]
Out(amount, script) == [amount |-> <<amount, 0>>, scriptVersion |-> <<0>>, script |-> script]
Tx(inputs, outputs) ==
  [version |-> <<1, 0>>, inputs |-> inputs, outputs |-> outputs, lockTime |-> <<40>>,
   extra |-> <<>>, wide |-> FALSE]

\* The script under signature, the other one null.
Plain == Tx(<<In(7, <<3, 2, 1>>), In(0, <<>>)>>, <<Out(4, <<1, 1>>), Out(5, <<>>)>>)
\* A script whose length comes in three bytes, and extra data.
Wide == [Tx(<<In(8, <<2, 174>>)>>, <<Out(3, <<2>>)>>) EXCEPT !.wide = TRUE, !.extra = <<0, 6>>]
\* No input, no output.
Empty == Tx(<<>>, <<>>)
\* The amounts of the inputs overflow.
Overflowing == Tx(<<In(7, <<>>), In(7, <<>>)>>, <<Out(1, <<>>)>>)
\* Just one of everything.
Small == Tx(<<In(7, <<5, 174>>)>>, <<Out(4, <<1>>)>>)

AllTxs == {Small, Plain, Wide, Empty, Overflowing}
RestartTxs == {Small, Empty}

\* Small is cut anywhere, the others and a second Small between groups.
MCCuts(t, mode, k) ==
  CASE k = 1 /\ t = Small -> 0 .. Len(Stream[t][mode])
    [] k = 1 /\ t # Small -> GroupCuts[t][mode]
    [] k = 2 /\ t = Small -> GroupCuts[t][mode]
    [] OTHER -> {}

RestartCuts(t, mode, k) == IF k <= 2 THEN GroupCuts[t][mode] ELSE {}
=============================================================================
