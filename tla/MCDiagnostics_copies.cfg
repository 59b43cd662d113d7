SPECIFICATION TurnSpec
CONSTANTS
  Tokens = {0, 1}
  PhyLens = {14, 79}
  MaxUplinks = 2
  MILLIS_MOD = 3
  MaxStall = 1
  RETRANSMIT_TIMEOUT_MS = 1
  DNS_RETRY_MS = 2
  keepalive_ms = 3
INVARIANT TypeOK
INVARIANT PendingHasSocket
INVARIANT CountedWereAcked
INVARIANT SentDatagramsAgree
INVARIANT SentAtMostTwice
PROPERTY CopiesSpec
PROPERTY RetransmitOnTime
