CONSTANTS
  Runs = {r1, r2}
  Main = Main
  Dep = Dep
  None = None
  Bad = Bad
  Places = 2
  East = 1
  West = 0
  Sites <- MCSites
  MaxTime = 2
  MaxEdits = 1
  MaxStarts = 2
  MaxKills = 1
SYMMETRY Symmetry
SPECIFICATION Spec
INVARIANTS WholeUnderFinalName OnlyRacingEditsAreMissed CFileIsReplaced
PROPERTY UnchangedIsFound
CHECK_DEADLOCK FALSE
