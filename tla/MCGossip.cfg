SPECIFICATION FairSpec
CONSTANTS
  Topics = {ta, tb}
  Configured = {ta}
  Node = Node
  Publications = {p1}
  Envelopes = {m1}
  Garbage = {g1}
  Buffer = 2
INVARIANTS OneReaderPerTopic
PROPERTIES ConfiguredIsHandled ReadersEnd
