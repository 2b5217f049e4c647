CONSTANTS
  Rows = {r1, r2}
  Contents <- MCContents
  Absent = Absent
  Unfit = 0
  Timeouts <- MCTimeouts
  Default = 2
  MaxTime = 2
  MaxCommits = 2
  MaxLoads = 3
SPECIFICATION Spec
INVARIANTS ServedIsFresh ContainerIsTheTable
PROPERTIES ServesCachedTable NoOtherContextIsLost
CHECK_DEADLOCK FALSE
