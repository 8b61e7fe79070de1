\* SignTx: whole sessions, whatever the host sends
SPECIFICATION MCSpec
CONSTANTS
  None = None
  Txs <- AllTxs
  Spelled <- SpelledTxs
  Paths = {"usual", "unusual"}
  UnusualPaths = {"unusual"}
  CountUnits = 1
  BufferUnits = 6
  AmountSpan = 16
INVARIANTS TypeOK SignReadyApproved ReviewedHashStored BufferIsFresh ReviewCovered FeesAddUp OutputNumbering UnusualChangeWarned
PROPERTIES SigningContractHolds ReviewEnds
