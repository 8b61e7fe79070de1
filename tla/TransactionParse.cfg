\* TransactionParse: blocks that end anywhere, are lost, or come in groups
SPECIFICATION Spec
CONSTANTS
  None = None
  Width <- MCWidth
  TrustedInputs <- MCTrustedInputs
  Txs <- AllTxs
  Targets = {0, 1}
  AmountSpan = 65536
  Cuts <- MCCuts
  RestartsWithFirst = TRUE
INVARIANTS OneMode TargetWasRead InputsAsSent OrderlyAccepted
PROPERTIES TrustedInputsHold LoopProgresses
