\* Two entries, two addresses, four requests, a clock that ticks twice.
CONSTANTS
  r1 = r1
  r2 = r2
  r3 = r3
  r4 = r4
  a = a
  b = b
  SIZE = 2
  Request = {r1, r2, r3, r4}
  Address = {a, b}
  IpOf <- From
  Methods <- MethodsOf
  MaxTime = 2
  Empty = Empty
  NotSet = NotSet
SPECIFICATION Spec
INVARIANTS
  TypeOK
  NoSlotLost
  NothingSkipped
CHECK_DEADLOCK FALSE
