CONSTANTS
  Receivers <- MCReceivers
  Users = {"admin", "guest"}
  Macs = {m1, m2}
  None = None
SPECIFICATION TrapSpec
INVARIANTS SentAsConfigured EveryReceiverIsServed NamespaceRestored PduFreedOnce
