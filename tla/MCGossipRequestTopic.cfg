SPECIFICATION FairSpec
CONSTANTS
  Topics = {ta, tb}
  Configured = {ta}
  Node = Node
  Publications = {p1}
  Envelopes = {m1}
  Garbage = {}
  Buffer = 2
PROPERTIES SubscribedIsHandled
