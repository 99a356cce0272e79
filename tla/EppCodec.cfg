CONSTANTS
  Names = {n1, n2}
  Tld <- MCTld
  HeaderSize = 2
  MaxToken = 6
  MaxSent = 2
  Messages <- MCMessages
SPECIFICATION Spec
INVARIANTS ReceivedAsSent ListsArrive
PROPERTIES NeverTorn ImplementsChannel EventuallyReceived
CHECK_DEADLOCK FALSE
