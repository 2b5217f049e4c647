CONSTANTS
  p1 = p1  p2 = p2
  Plugins = {p1, p2}
  Signals = {"SIGTERM", "SIGINT"}
SPECIFICATION SubagentFairSpec
INVARIANTS HandlersAreResident ThreadEndsWithMain
PROPERTY StopIsObeyed
CHECK_DEADLOCK FALSE
