---------------------------- MODULE MCSigningHost ----------------------------
(***************************************************************************)
(* Calls of the host library with transactions the device can show, in one *)
(* block or two, and with those it has to refuse.                          *)
(***************************************************************************)
EXTENDS SigningHost, SampleTransactions

HostTxs == {PayWithChange, ChangeFirst, Relaxed, BadSecond, BadThird, Overspent, TwoChanges, Overflowing}
=============================================================================
