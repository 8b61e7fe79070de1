\* OutputBuffer: any host, every cut into blocks
SPECIFICATION MCSpec
CONSTANTS
  Streams <- AllStreams
  HeaderBytes = 2
  BufferBytes = 11
  Regular <- Payable
  Changes <- OwnScripts
INVARIANTS TypeOK ShownOutputWaits ReviewIsHashed WaitingBytesHashed
