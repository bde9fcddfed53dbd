\* Two browsers with one tab each and a console client, two names.
CONSTANTS
  s1 = s1
  s2 = s2
  t1 = t1
  t2 = t2
  con = con
  ann = ann
  bob = bob
  None = None
  Session = {s1, s2}
  Tab = {t1, t2}
  Browser <- Apart
  Console = {con}
  Typed <- AllNames
  Name = {ann, bob}
  MaxCalls <- FourAndThree
  Handle <- Handles
  Thread = {t1, t2}
  Order <- Positions
SPECIFICATION Spec
INVARIANTS
  TypeOK
  NoOrphan
  NoNameLocked
  
PROPERTIES
  HistoryKept
CHECK_DEADLOCK FALSE
