CONSTANTS
  ReconnectingAfter = 1
  StaleAfter = 2
  OfflineAfter = 3
  MaxTokens = 2
  MaxEvents = 2
  MaxWrites = 2
SPECIFICATION Spec
INVARIANTS
  TypeOK
  ConnectedIsHeard
PROPERTIES
  GoneStaysGone
  HealthyAgentConnects

