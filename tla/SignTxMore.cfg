\* SignTx: outputs that end in a MORE block
SPECIFICATION MCInOrder
CONSTANTS
  None = None
  Txs <- AllTxs
  Spelled <- SpelledTxs
  Paths = {"usual", "unusual"}
  UnusualPaths = {"unusual"}
  CountUnits = 1
  BufferUnits = 6
  AmountSpan = 16
INVARIANTS SignReadyReviewed
