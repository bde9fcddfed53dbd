\* One host; every fault may happen once.
CONSTANTS
  h1 = h1
  h2 = h2
  Host = {h1}
  Name <- FewNames
  Size <- FewSizes
  Delimited = {}
  DefaultName = "gone"
  ChunkArg = {1, 3}
  DefaultChunk = 2
  MaxChunkSize = 2
  MaxStarts <- TwiceAlone
  MaxFaults <- EveryFault
  MaxTotal = 2
SPECIFICATION Spec
INVARIANTS
  NoAmplification
  InOrder
  DuplicatesOnlyRepeat
PROPERTIES
  TransferEnds
CHECK_DEADLOCK FALSE
