CONSTANTS
  Jobs <- MCJobsInUse
  CTypes = {"Integer32", "OctetString", "Bits", "Counter32"}
  BaseTypes = {"Integer32", "OctetString", "Bits"}
  TrapTypes = {"Integer32", "OctetString"}
  FakeTypes = {"INTEGER"}
  Iso = "iso"
  Depth = 7
  None = "none"
SPECIFICATION Spec
INVARIANT AllScalarsAreRegistered
CHECK_DEADLOCK FALSE
