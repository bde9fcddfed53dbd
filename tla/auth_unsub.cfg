\* Three clients on hosts of their own, no fault.
CONSTANTS
  c1 = c1
  c2 = c2
  c3 = c3
  local = local
  remote = remote
  third = third
  Client = {c1, c2, c3}
  Host = {local, remote, third}
  HostOf <- Apart
  ServerHost = local
  User = {"student"}
  Account = {"student"}
  Menu = {"subscribe", "unsubscribe"}
  MaxSubs = 3
  MaxLogins = 3
  MaxForks = 3
  MaxFaults <- NoFault
SPECIFICATION Spec
PROPERTY UnsubscribeKeepsOthers
CHECK_DEADLOCK FALSE
