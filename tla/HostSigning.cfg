\* SigningHost: calls of the host library, their blocks of four units
SPECIFICATION HostSpec
CONSTANTS
  None = None
  Txs <- HostTxs
  Spelled = {}
  Paths = {"usual", "unusual"}
  UnusualPaths = {"unusual"}
  CountUnits = 1
  BufferUnits = 5
  AmountSpan = 16
  BlockUnits = 4
INVARIANTS SignedAsReviewed RejectedForReason
PROPERTIES CallSettles
