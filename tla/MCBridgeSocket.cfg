SPECIFICATION FairSpec
CONSTANTS
  s1 = s1  s2 = s2
  k1 = k1  k2 = k2  k3 = k3
  native = native  embed = embed
  NoSid = NoSid
  NoSock = NoSock
  Sids <- Sessions
  Socks <- Sockets
  Hosts <- Transports
  Browser = native
  InitialDelay = 1
  MaxDelay = 3
INVARIANT TypeOK
INVARIANT NeverStuckNeverDoubled
INVARIANT OneLiveSocket
INVARIANT BackoffRestarts
PROPERTY ImplementsLink
PROPERTY Recovers
