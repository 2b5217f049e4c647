CONSTANTS
  Names <- MCNames
  Requested = {"A", "B"}
  Original = "A"
  Files <- MCFiles
  Sources = 2
  Tools = {"ops-snmpgen", "mibdump"}
SPECIFICATION Spec
INVARIANTS NoImportIsForgotten ReportedIsStored RefusedReportsNoSuccess OriginalIsReported
PROPERTY Terminates
CHECK_DEADLOCK FALSE
