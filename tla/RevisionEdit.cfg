SPECIFICATION Spec
CONSTANTS
  Kinds = {"domain", "host", "contact", "apiuser", "approver", "approverset"}
  Forms <- MCForms
  Requests = {q1, q2}
  MaxRow = 5
  Faults = {"crash", "race", "edits", "dberror"}
INVARIANTS EditIsWhole SetOneApproves AcceptedAsSigned
CONSTRAINT FewTroubles
SYMMETRY AnyRequest
CHECK_DEADLOCK FALSE
