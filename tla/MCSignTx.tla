------------------------------ MODULE MCSignTx ------------------------------
(***************************************************************************)
(* Sessions of SignTx whose host keeps to the transactions of one batch,   *)
(* in any order and as often as it likes: two whose inputs get mixed, or a *)
(* single one.  It sends at most ExtraUnits behind the outputs, a pass out *)
(* of order counts at most ExtraOutputs more outputs than it announced, it *)
(* asks for trusted inputs only in a batch of two transactions, and it is  *)
(* given signatures over MaxSigned contents.                               *)
(***************************************************************************)
EXTENDS SignTx, SampleTransactions

AllTxs == SessionTxs \cup OutputTxs \cup RefusedTxs \cup LiveTxs \cup SpelledTxs

Batch(txs, paths, departures) == [txs |-> txs, paths |-> paths, departures |-> departures]

\* In order: two transactions and one change path, or one transaction and any
\* path.  Out of order: one small transaction, and some of the departures.
Batches ==
  {Batch(SessionTxs, {"usual"}, {})}
    \cup {Batch({t}, {"usual"}, {}) : t \in Txs \cap {TwoChanges, Wrapping}}
    \cup {Batch({t}, Paths, {}) : t \in Txs \cap {ChangeFirst, Relaxed, BadSecond, Overflowing}}
    \cup {Batch({NoOutput}, {"usual"}, {"change", "early", "beyond"})}
    \cup {Batch({Overspent}, {"unusual"}, {"change", "early"})}
    \cup {Batch({Overspent}, {"usual"}, {"beyond"}), Batch({Overspent}, {}, {"next"})}

\* The batch of a behaviour.
VARIABLE batch

ExtraUnits == IF "beyond" \in batch.departures THEN 1 ELSE 0
ExtraOutputs == 1
MaxSigned == 1

InBatch ==
  /\ hashed # None => hashed.tx \in batch.txs /\ hashed.outputs <= StreamUnits(hashed.tx) + ExtraUnits
  /\ changeAddress \in batch.paths \cup {None}
  /\ disorder \subseteq batch.departures
  /\ parser.remainingOutputs >= -ExtraOutputs
  /\ Cardinality(signed) <= MaxSigned
  /\ Cardinality(batch.txs) = 1 => parseMode # "TRUSTED_INPUT"

MCInit == Init /\ batch \in Batches
MCNext == UNCHANGED batch /\ Next /\ InBatch'
MCAnswers == UNCHANGED batch /\ UserAnswers
MCSpec == MCInit /\ [][MCNext]_<<vars, batch>> /\ WF_<<vars, batch>>(MCAnswers)

\* Only passes in order: all the host may still do is end the outputs with MORE.
MCInOrder == MCInit /\ batch.departures = {} /\ [][MCNext]_<<vars, batch>>
=============================================================================
