\* Two browsers with one tab each; both log in.
CONSTANTS
  s1 = s1
  s2 = s2
  t1 = t1
  t2 = t2
  con = con
  ann = ann
  bob = bob
  None = None
  Session = {s1, s2}
  Tab = {t1, t2}
  Browser <- Apart
  Console = {}
  Typed <- AllNames
  Name = {ann, bob}
  MaxCalls <- Three
  Handle <- Handles
  Thread = {t1, t2}
  Order <- Positions
SPECIFICATION Spec
INVARIANTS
  UniqueUsers
CHECK_DEADLOCK FALSE
