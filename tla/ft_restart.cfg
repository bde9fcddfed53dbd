\* One host, one client, one restart of the server.
CONSTANTS
  h1 = h1
  h2 = h2
  Host = {h1}
  Name <- FewNames
  Size <- FewSizes
  Delimited = {}
  DefaultName = "gone"
  ChunkArg = {1}
  DefaultChunk = 2
  MaxChunkSize = 2
  MaxStarts <- OnceAlone
  MaxFaults <- RestartOnly
  MaxTotal = 1
SPECIFICATION Spec
INVARIANT IntactAfterRetry
CHECK_DEADLOCK FALSE
