\* TransactionParse: a transaction no FIRST block announced
SPECIFICATION Spec
CONSTANTS
  None = None
  Width <- MCWidth
  TrustedInputs <- MCTrustedInputs
  Txs <- RestartTxs
  Targets = {0}
  AmountSpan = 65536
  Cuts <- RestartCuts
  RestartsWithFirst = FALSE
INVARIANTS OutputWasThere
