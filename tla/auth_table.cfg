\* Two clients on hosts of their own, three receivers, one timeout.
CONSTANTS
  c1 = c1
  c2 = c2
  c3 = c3
  local = local
  remote = remote
  third = third
  Client = {c1, c2}
  Host = {local, remote}
  HostOf <- Apart
  ServerHost = local
  User = {"student"}
  Account = {"student"}
  Menu = {"subscribe", "unsubscribe", "publish", "leave"}
  MaxSubs = 2
  MaxLogins = 2
  MaxForks = 3
  MaxFaults <- OneTimeout
SPECIFICATION Spec
INVARIANTS
  TableMatchesReceivers
  ReceiverIsKnown
PROPERTIES
  AudienceHears
  CallsReturn
  SessionReleased
CHECK_DEADLOCK FALSE
