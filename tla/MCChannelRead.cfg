CONSTANTS
  MaxId = 4
  Histories <- MCHistories
  Windows = {1, 3}
  Peers = {p1}
  NoPeer = NoPeer
  Keys = {k1, k2}
  Key = k1
  MaxEntries = 1
  PageSize = 2
  MaxMessages = 3
  ClientErrors <- MCClientErrors
  CallErrors <- MCCallErrors
  LookupErrors <- MCLookupErrors
  PeerErrors <- MCPeerErrors
SPECIFICATION Spec
INVARIANTS
  PeersAreBounded
  ReadCoversTheWindow
  VerdictsAreEarned
PROPERTY EveryReadEnds
CONSTRAINT Bounded
