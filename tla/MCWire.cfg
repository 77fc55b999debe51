SPECIFICATION Spec
CONSTANTS
  other = other
  Publisher = publisher
  OtherPeer = otherPeer
  Missing = Missing
  Requests <- MCRequests
  Policies <- MCPolicies
  DefaultPolicy <- MCDefaultPolicy
  Alternatives <- MCAlternatives
  MaxEnvelopeSize = 5
  Second = 4
  Half = 16
  DefaultTTL = 15
  Now = 2
INVARIANTS GoesOutWhereAsked NarrowReachesBroad SentIsAdmitted AdmittedIsAsSigned NeverOutlivesRequest PlainIdsAreFetchable
CHECK_DEADLOCK FALSE
