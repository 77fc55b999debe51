SPECIFICATION LifecycleSpec
CONSTANTS
  Topics = {ta, tb}
  Configured = {ta}
  Node = Node
  Publications = {p1}
  Envelopes = {m1}
  Garbage = {}
  Buffer = 1
  Fetches = {f1}
INVARIANTS CallbacksFindTheirParts NotClosedUnderRequests
PROPERTIES SignalEnds
