CONSTANTS
  a = a  public = public  other = other  n1 = n1  n2 = n2  x = x  v1 = v1  v1x = v1x
  Receivers <- MCReceivers
  BadAddresses = {}
  UserNames = {n1, n2}
  Securities <- MCSecurities
  CommunityNames = {public, other}
  SettingKeys = {"system_description", "system_contact"}
  Values = {x, v1x}
  ExtendsVersion = {v1x}
  Unset = Unset
  Keep = Keep
  Absent = Absent
  switch_version = v1
  DefaultCommunity = public
  DefaultPort = 162
  MAX_ALLOWED_SNMP_COMMUNITIES = 1
  MAX_ALLOWED_SNMP_TRAPS = 1
  Configurations <- MCConfigurations
SPECIFICATION Spec
INVARIANTS ReplayInventsNothing ReceiversComeBack RestComesBack
CHECK_DEADLOCK FALSE
