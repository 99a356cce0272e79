SPECIFICATION Spec
CONSTANTS
  NumRevs = 3
  Sets = {s1}
  FinalSet = s1
  Approvers = {a1}
  Wanted = {"active", "external"}
  Verdicts = {"approved", "declined"}
  NoSig = NoSig
INVARIANTS
  TypeOK
  OneLiveRevision
  StateTracksCurrent
  LinearHistory
  PendingHasCause
  DecidedTakesNoSignature
PROPERTIES
  TerminalIsFinal
  ImplementsLedger
