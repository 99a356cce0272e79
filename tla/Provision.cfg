CONSTANTS
  d1 = d1
  h1 = h1
  h2 = h2
  k1 = k1
  a1 = a1
  a2 = a2
  Domains = {d1}
  Hosts = {h1, h2}
  NoParent = NoParent
  Nothing = Nothing
  Parent <- MCParent
  ClientStatuses <- MCClientStatuses
  Statuses <- MCStatuses
  DSRecords = {k1}
  Addresses = {a1, a2}
  DomainStarts <- MCDomainStarts
  HostStarts <- MCHostStarts
  PollStarts <- MCPollStarts
  Revisions <- MCRevisions
  Listed = {d1, h1}
  MaxRuns = 2
  MaxEvents = 1
  MaxFailures = 1
SPECIFICATION Spec
INVARIANTS CompletedMatches RelockedAfterChange RenewedOnce
PROPERTIES NeverUndelegated ClearedWhenProvisioned RunsEnd
CHECK_DEADLOCK FALSE
