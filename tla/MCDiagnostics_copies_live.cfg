SPECIFICATION FairTurnSpec
CONSTANTS
  Tokens = {0}
  PhyLens = {79, 255}
  MaxUplinks = 1
  MILLIS_MOD = 3
  MaxStall = 1
  RETRANSMIT_TIMEOUT_MS = 1
  DNS_RETRY_MS = 1
  keepalive_ms = 3
PROPERTY CopiesResolved
PROPERTY SocketFollowsNetwork
INVARIANT ForwardedIsShown
