SPECIFICATION Spec
CONSTANTS
  Kinds = {"host", "contact", "apiuser", "approver", "approverset"}
  NumRevs = 3
  NumCRs = 3
  Faults = {"crash", "race", "restart"}
  Unsigned = Unsigned
INVARIANTS InForceWasSigned OneInForce CurrentIsAlone PendingHasCause
PROPERTIES DecidedIsFinal KeepsLedger
CONSTRAINTS OneTrouble SmallCopies LastCR
CHECK_DEADLOCK FALSE
