CONSTANTS
  c1 = c1  x = x  v1 = v1  v2 = v2  m1 = m1  m2 = m2  u1 = u1  u2 = u2
  Communities = {c1}
  Settings = {x}
  Unset = Unset
  OtherConfigs <- MCOtherConfigs
  Versions = {v1, v2}
  Macs = {m1, m2}
  Users = {u1, u2}
  UserRows <- MCUserRows
  NoRow = NoRow
  MaxCommits = 2
  MaxFaults = 0
SPECIFICATION MCSpec
INVARIANT DeletedUserIsRefused
CHECK_DEADLOCK FALSE
