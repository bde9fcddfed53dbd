\* Two hosts; datagrams may be lost or reordered.
CONSTANTS
  h1 = h1
  h2 = h2
  Host = {h1, h2}
  Name <- Names
  Size <- SizeOf
  Delimited <- WithDelimiter
  DefaultName = "gone"
  ChunkArg = {1, 3}
  DefaultChunk = 2
  MaxChunkSize = 2
  MaxStarts <- TwiceOnFirst
  MaxFaults <- LossyFaults
  MaxTotal = 2
SPECIFICATION Spec
INVARIANTS
  TypeOK
  StopAndWait
  
  SessionIsolation
PROPERTIES
  CopiesTheFile
CHECK_DEADLOCK FALSE
