\* OutputBuffer: a change path named after outputs
SPECIFICATION MCSpec
CONSTANTS
  Streams <- ShortStreams
  HeaderBytes = 1
  BufferBytes = 9
  Regular <- Payable
  Changes <- OwnScripts
INVARIANTS VerifiedOnScreen
