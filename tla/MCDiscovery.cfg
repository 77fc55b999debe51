SPECIFICATION FairSpec
CONSTANTS
  p1 = p1
  p2 = p2
  Peers = {p1, p2}
  Bootstrap <- MCBootstrap
  Keys = {k1, k2}
  NoKey = NoKey
  Torn = Torn
INVARIANTS IdentityKept RunningKnowsBootstrap ConnectedIsKnown
PROPERTIES BootstrapRejoined
