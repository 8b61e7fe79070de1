\* SignTx: outputs whose sum wraps
SPECIFICATION MCInOrder
CONSTANTS
  None = None
  Txs <- WrapTxs
  Spelled = {}
  Paths = {"usual", "unusual"}
  UnusualPaths = {"unusual"}
  CountUnits = 1
  BufferUnits = 6
  AmountSpan = 16
INVARIANTS OutputsCovered
