SPECIFICATION Spec
CONSTANTS
  Kinds = {"domain", "host", "contact", "apiuser", "approver", "approverset"}
  Forms <- MCForms
  Requests = {q1}
  MaxRow = 5
  Faults = {"dberror"}
INVARIANT ErrorIsReturned
CHECK_DEADLOCK FALSE
