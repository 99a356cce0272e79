CONSTANTS
  n1 = n1
  n2 = n2
  Names = {n1, n2}
  Tld <- MCTld
  ChanBufferSize = 2
  LoginCallbackFails = FALSE
  HandleResponseWraps = FALSE
  Exists <- MCExists
  Sponsored <- MCSponsored
  MaxFailedLoginAttempts = 2
  Work <- MCWork
  MaxCalls = 3
SPECIFICATION Spec
INVARIANTS AnswersMatchCalls OneCommandOnTheWire LoggedInBeforeWork LateAnswersBounded
PROPERTIES NeverStuck CallsReturn
CHECK_DEADLOCK FALSE
