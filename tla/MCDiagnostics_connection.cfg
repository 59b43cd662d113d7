SPECIFICATION FairTurnSpec
CONSTANTS
  Tokens = {0}
  PhyLens = {14}
  MaxUplinks = 0
  MILLIS_MOD = 4
  MaxStall = 1
  RETRANSMIT_TIMEOUT_MS = 1
  DNS_RETRY_MS = 1
  keepalive_ms = 1
INVARIANT ConnectedOnThisSocket
INVARIANT ConnectedUnlessWrapped
PROPERTY KeepsAlive
PROPERTY SilenceShows
INVARIANT ConnectedIsShown
PROPERTY NetworkLossShows
