\* Three connections, room for two that wait; the server may be started twice.
CONSTANTS
  c1 = c1
  c2 = c2
  c3 = c3
  None = None
  Conn = {c1, c2, c3}
  Page <- Pages
  FileSize <- Sizes
  Kind <- Kinds
  Wants <- WantsOf
  ChunkSize = 2
  Backlog = 2
  MaxChildren = 2
  MaxStarts = 2
  Editable = {"404.html"}
  Impatient = {c2}
SPECIFICATION Spec
INVARIANTS
  TypeOK
  AnswerIsWhole
  
  
PROPERTIES
  EveryoneServed
CHECK_DEADLOCK FALSE
