SPECIFICATION Spec
CONSTANTS
  domain = domain
  approverset = approverset
  approver = approver
  Hinted <- MCHinted
  ApproverSet = approverset
  Approver = approver
  History <- MCHistory
  Start = 7
  MaxRevisions = 5
  MaxTime = 8
  MaxStops = 1
  NotYet = NotYet
  None = None
  Torn = Torn
INVARIANTS WindowsRight AsFreshAsTheHint VerifiedAlike
