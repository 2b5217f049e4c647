CONSTANTS
  good = good  bad = bad  n1 = n1  n2 = n2
  Receivers <- MCReceivers
  BadAddresses = {bad}
  UserNames = {n1}
  Securities <- MCSecurities
  CommunityNames = {n1, n2}
  SettingKeys = {"snmp_agent_port", "system_description", "system_contact", "system_location"}
  Values = {x}
  x = x
  Unset = Unset
  Keep = Keep
  switch_version = v1
  v1 = v1
  MAX_ALLOWED_SNMP_COMMUNITIES = 1
  MAX_ALLOWED_SNMP_TRAPS = 1
  Sessions = {s1, s2}
  s1 = s1  s2 = s2
  Nobody = Nobody
  Nothing = Nothing
  MaxCommands = 4
  MaxReopens = 1
SYMMETRY SessionSymmetry
SPECIFICATION Spec
INVARIANTS SameReceiverDifferentSessions CommunitiesWithinLimit SessionTrapLimit
PROPERTY UpToDateIsConsistent
CHECK_DEADLOCK FALSE
