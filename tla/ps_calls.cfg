\* Two clients on hosts of their own; every fault may happen once.
CONSTANTS
  c1 = c1
  c2 = c2
  local = local
  remote = remote
  Client = {c1, c2}
  Host = {local, remote}
  HostOf <- Apart
  ServerHost = local
  MaxSubs = 2
  MaxResends = 1
  Menu <- EverythingOnTheMenu
  MaxCalls <- CallsEach
  MaxForks = 2
  MaxFaults <- EveryFault
  MaxTotal = 1
SPECIFICATION Spec
INVARIANTS
  TypeOK
  ListedOnce
  ResendsAreHarmless
CHECK_DEADLOCK FALSE
