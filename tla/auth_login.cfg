\* Two clients, wrong passwords, logouts, one timeout, one killed client.
CONSTANTS
  c1 = c1
  c2 = c2
  c3 = c3
  local = local
  remote = remote
  third = third
  Client = {c1, c2}
  Host = {local, remote}
  HostOf <- Apart
  ServerHost = local
  User = {"student", "nobody"}
  Account = {"student"}
  Menu <- EverythingOnTheMenu
  MaxSubs = 2
  MaxLogins = 3
  MaxForks = 1
  MaxFaults <- ClientFaults
SPECIFICATION Spec
INVARIANTS
  TypeOK
  ServerSurvives
  LoggedIn
  NeverRefused
PROPERTIES
  ActionsNeedLogin
CHECK_DEADLOCK FALSE
